-------------------------- MODULE PathKindsProofs --------------------------
(***************************************************************************)
(* Any number of threads, rules and paths: a call is decided by the first  *)
(* of the rules that are sure to match, whatever the other threads put     *)
(* into the cache while it searches; what it is told is one of the answers *)
(* that RuleEngine gives, and the way to a path that is let through stays  *)
(* open.  The invariant says what a search has found out so far: a rule it *)
(* has gone past is of a kind with which it does not match.                *)
(***************************************************************************)
EXTENDS PathKinds, SequenceTheorems, TLAPS

(* Of two directories above one path, the shorter is a prefix of the longer. *)
LEMMA PrefixesNest ==
  ASSUME NEW S, NEW p \in Seq(S), NEW r \in Seq(S), NEW s \in Seq(S),
         IsPrefix(r, p), IsPrefix(s, p), Len(r) < Len(s)
  PROVE  IsPrefix(r, s)
  <1>1. \A i \in 1 .. Len(r) : r[i] = p[i]
    BY DEF IsPrefix
  <1>2. \A i \in 1 .. Len(s) : s[i] = p[i]
    BY DEF IsPrefix
  <1>3. SubSeq(s, 1, Len(r)) \in Seq(S) /\ Len(SubSeq(s, 1, Len(r))) = Len(r)
    OBVIOUS
  <1>4. \A i \in 1 .. Len(r) : SubSeq(s, 1, Len(r))[i] = s[i]
    OBVIOUS
  <1>5. SubSeq(s, 1, Len(r)) = r
    BY <1>1, <1>2, <1>3, <1>4
  <1> QED
    BY <1>5 DEF IsPrefix

LEMMA PrefixTransitive ==
  ASSUME NEW S, NEW p \in Seq(S), NEW q \in Seq(S), NEW r \in Seq(S),
         IsPrefix(p, q), IsPrefix(q, r)
  PROVE  IsPrefix(p, r)
  <1>1. Len(p) <= Len(r)
    BY DEF IsPrefix
  <1>2. \A i \in 1 .. Len(p) : p[i] = q[i]
    BY DEF IsPrefix
  <1>3. \A i \in 1 .. Len(q) : q[i] = r[i]
    BY DEF IsPrefix
  <1>4. SubSeq(r, 1, Len(p)) \in Seq(S) /\ Len(SubSeq(r, 1, Len(p))) = Len(p)
    BY <1>1
  <1>5. \A i \in 1 .. Len(p) : SubSeq(r, 1, Len(p))[i] = r[i]
    BY <1>1
  <1>6. \A i \in 1 .. Len(p) : p[i] = r[i]
    BY <1>2, <1>3 DEF IsPrefix
  <1>7. SubSeq(r, 1, Len(p)) = p
    BY <1>4, <1>5, <1>6
  <1> QED
    BY <1>1, <1>7 DEF IsPrefix

LEMMA PrefixReflexive == ASSUME NEW S, NEW p \in Seq(S) PROVE IsPrefix(p, p)
  BY DEF IsPrefix

(* The first n names of a path. *)
LEMMA FirstNames ==
  ASSUME NEW S, NEW p \in Seq(S), NEW n \in 0 .. Len(p)
  PROVE  /\ SubSeq(p, 1, n) \in Seq(S) /\ Len(SubSeq(p, 1, n)) = n
         /\ IsPrefix(SubSeq(p, 1, n), p)
  BY DEF IsPrefix

LEMMA SuffixType ==
  ASSUME NEW S, NEW p \in Seq(S), NEW q \in Seq(S)
  PROVE  Suffix(p, q) \in Seq(S)
  <1>1. CASE Len(p) < Len(q)
    <2>1. \A i \in Len(p) + 1 .. Len(q) : q[i] \in S
      OBVIOUS
    <2> QED
      BY <1>1, <2>1, SubSeqProperties DEF Suffix
  <1>2. CASE ~(Len(p) < Len(q))
    <2>1. Len(p) + 1 \in 1 .. Len(p) + 1 /\ Len(p) + 1 > Len(q)
      BY <1>2
    <2> QED
      BY <2>1, SubSeqProperties DEF Suffix
  <1> QED
    BY <1>1, <1>2
-----------------------------------------------------------------------------

(***************************************************************************)
(* The buckets of the rule engine lose no rule without wildcards and keep  *)
(* the order of ordered_rules among them, for rules and paths of any       *)
(* number and length.                                                      *)
(***************************************************************************)

(* What a rule's path looks like, and what its length as a string says. *)
Sized(rules, S) ==
  /\ \A c \in rules :
       /\ c.rule.path \in Seq(S) /\ c.rule.base \in Seq(S) /\ c.rule.size \in Nat
       /\ IsPrefix(c.rule.base, c.rule.path)
  /\ \A c, d \in rules :
       IsPrefix(c.rule.path, d.rule.path) /\ c.rule.path # d.rule.path
         => c.rule.size < d.rule.size

LEMMA BucketPaths ==
  ASSUME NEW S, NEW rules, Sized(rules, S), NEW c \in rules
  PROVE  /\ BucketPath(c) \in Seq(S) /\ IsPrefix(BucketPath(c), c.rule.path)
         /\ BucketKey(c) \in Seq(S) /\ IsPrefix(BucketKey(c), BucketPath(c))
         /\ Len(BucketKey(c)) <= 3
         /\ Len(BucketKey(c)) < 3 => BucketKey(c) = BucketPath(c)
  <1>1. BucketPath(c) \in Seq(S) /\ IsPrefix(BucketPath(c), c.rule.path)
    BY PrefixReflexive DEF BucketPath, Sized
  <1>2. CASE Len(BucketPath(c)) > 3
    <2>1. BucketKey(c) = SubSeq(BucketPath(c), 1, 3)
      BY <1>2 DEF BucketKey
    <2>2. 3 \in 0 .. Len(BucketPath(c))
      BY <1>1, <1>2
    <2> HIDE DEF BucketPath
    <2> QED
      BY <1>1, <2>1, <2>2, FirstNames
  <1>3. CASE ~(Len(BucketPath(c)) > 3)
    <2>1. BucketKey(c) = BucketPath(c)
      BY <1>3 DEF BucketKey
    <2> QED
      BY <1>1, <1>3, <2>1, PrefixReflexive
  <1> QED
    BY <1>2, <1>3

LEMMA SurelyPrefix ==
  ASSUME NEW S, NEW c, NEW path \in Seq(S), c.rule.path \in Seq(S),
         c.rule.glob = "none", Surely(c, path)
  PROVE  IsPrefix(c.rule.path, path)
  BY PrefixReflexive DEF Surely

(* A rule without wildcards that is sure to match is found in the buckets  *)
(* of the path.                                                            *)
THEOREM PlainRulesFound ==
  ASSUME NEW S, NEW rules, Sized(rules, S), NEW path \in Seq(S),
         NEW c \in rules, c.rule.glob = "none", c.rule.path # <<>>, Surely(c, path)
  PROVE  c \in Searched(rules, path)
  <1>1. BucketPath(c) = c.rule.path /\ c.rule.path \in Seq(S)
    BY DEF BucketPath, Sized
  <1>2. IsPrefix(c.rule.path, path)
    BY <1>1, SurelyPrefix
  <1>3. IsPrefix(BucketKey(c), path)
    BY <1>1, <1>2, BucketPaths, PrefixTransitive
  <1>4. IsExternalPath(path) => IsExternalPath(BucketPath(c))
    BY <1>1, <1>2 DEF IsExternalPath, IsPrefix
  <1> QED
    BY <1>3, <1>4 DEF Searched

(* Whatever the buckets put before such a rule is no worse than it in the  *)
(* order of ordered_rules.                                                 *)
THEOREM PlainRulesInOrder ==
  ASSUME NEW S, NEW rules, Sized(rules, S), NEW path \in Seq(S),
         NEW c \in rules, c.rule.glob = "none", Surely(c, path),
         NEW d \in Searched(rules, path), ~Sooner(c, d, path)
  PROVE  ~Before(c, d)
  <1>1. CASE ~IsExternalPath(path)
    BY <1>1 DEF Sooner
  <1>2. CASE IsExternalPath(path)
    <2>1. SUFFICES ASSUME Before(c, d) PROVE FALSE
      OBVIOUS
    <2>2. d \in rules /\ IsPrefix(BucketKey(d), path)
      BY <1>2 DEF Searched
    <2>3. /\ BucketPath(c) = c.rule.path /\ c.rule.path \in Seq(S)
          /\ c.rule.size \in Nat /\ d.rule.size \in Nat /\ d.rule.path \in Seq(S)
      BY <2>2 DEF BucketPath, Sized
    <2>4. Len(BucketKey(c)) < Len(BucketKey(d))
      <3>1. Len(BucketKey(c)) \in Nat /\ Len(BucketKey(d)) \in Nat
        BY <2>2, BucketPaths
      <3> QED
        BY <1>2, <2>1, <3>1 DEF Sooner
    <2>5. BucketKey(c) = c.rule.path /\ Len(c.rule.path) < Len(BucketKey(d))
      BY <2>2, <2>3, <2>4, BucketPaths
    <2>6. IsPrefix(c.rule.path, BucketKey(d))
      BY <2>2, <2>3, <2>5, SurelyPrefix, PrefixesNest, BucketPaths
    <2>7. IsPrefix(c.rule.path, d.rule.path)
      BY <2>2, <2>3, <2>6, BucketPaths, PrefixTransitive
    <2>8. c.rule.path # d.rule.path
      <3>1. IsPrefix(BucketKey(d), d.rule.path)
        BY <2>2, <2>3, BucketPaths, PrefixTransitive
      <3>2. Len(BucketKey(d)) <= Len(d.rule.path)
        BY <3>1 DEF IsPrefix
      <3> QED
        BY <2>2, <2>3, <2>5, <3>2, BucketPaths
    <2>9. c.rule.size < d.rule.size
      BY <2>2, <2>7, <2>8 DEF Sized
    <2>10. Rank(c)[1] = c.rule.size /\ Rank(d)[1] = d.rule.size
      BY DEF Rank
    <2>11. PICK i \in 1 .. 6 : /\ Rank(c)[i] > Rank(d)[i]
                               /\ \A j \in 1 .. i - 1 : Rank(c)[j] = Rank(d)[j]
      BY <2>1 DEF Before
    <2> QED
      BY <2>3, <2>9, <2>10, <2>11
  <1> QED
    BY <1>1, <1>2

(***************************************************************************)
(* The searches of the threads.                                            *)
(***************************************************************************)

(* The kinds a rule may turn out to have. *)
KindsOf(c) == IF c.kind = "auto" THEN {"file", "directory"} ELSE {c.kind}

(* What a search has left is to be searched, what it has gone past does    *)
(* not match with some kind it may have, and a rule whose kind it is about *)
(* to enter was the next to look at, and still is.  A call that forgets    *)
(* has something to forget.                                                *)
Sound(call) ==
  /\ call.pc \in {"search", "learn"} =>
       LET searched == Searched(policy.rules, call.path) IN
       /\ call.path \in Path
       /\ call.left \subseteq searched
       /\ \A c \in searched \ call.left :
            \E kind \in KindsOf(c) : ~Matches(c, kind, call.path)
       /\ call.learning \subseteq NextRules(call)
       /\ call.pc = "learn" =>
            /\ ContextKind(call.op) # "auto"
            /\ \A c \in call.learning : c.kind = "auto"
       /\ call.to = <<>>
  /\ call.pc = "forget" => call.forget # <<>>

SearchesSound == \A t \in Thread : Sound(calls[t])

Inv == TypeOK /\ SearchesSound
-----------------------------------------------------------------------------
(* Compiled rules are what the buckets ask of rules. *)
LEMMA PoliciesSized ==
  ASSUME NEW p \in Policies
  PROVE  /\ Sized(p.rules, STRING)
         /\ \A c \in p.rules :
              /\ c.rule.path # <<>> /\ c.rule.target \in Seq(STRING)
              /\ c.rule.action \in {"allow", "deny", "redirect", "dynamic"}
              /\ c.kind \in Kind /\ c.kind = InferCompiledRuleKind(c.rule)
              /\ c \in AnyRule
  <1>1. PICK s \in Section : p = Compile(s)
    BY DEF Policies
  <1>2. p.rules = {[rule |-> r, kind |-> InferCompiledRuleKind(r)] :
                     r \in {q \in s.rules : q.action # "delete"}}
    BY <1>1 DEF Compile
  <1>3. \A c \in p.rules : c.rule \in s.rules /\ c.rule.action # "delete"
                           /\ c.kind = InferCompiledRuleKind(c.rule)
    BY <1>2
  <1>4. \A c \in p.rules :
          /\ c.rule.action \in {"allow", "deny", "redirect", "dynamic"}
          /\ c.rule.path \in Seq(STRING) \ {<<>>} /\ c.rule.size \in Nat
          /\ c.rule.base \in Seq(STRING) /\ IsPrefix(c.rule.base, c.rule.path)
          /\ c.rule.target \in Seq(STRING)
    BY <1>3, SectionFact DEF SectionAssumption
  <1>5. \A c, d \in p.rules :
          IsPrefix(c.rule.path, d.rule.path) /\ c.rule.path # d.rule.path
            => c.rule.size < d.rule.size
    BY <1>3, SectionFact DEF SectionAssumption
  <1>6. Sized(p.rules, STRING)
    BY <1>4, <1>5 DEF Sized
  <1>7. \A c \in p.rules : c.kind \in Kind
    BY <1>3 DEF InferCompiledRuleKind, Kind
  <1>8. \A c \in p.rules : c \in AnyRule
    BY DEF AnyRule
  <1> QED
    BY <1>3, <1>4, <1>6, <1>7, <1>8

LEMMA AnyRules ==
  ASSUME NEW c \in AnyRule
  PROVE  /\ c.rule.path \in Seq(STRING) /\ c.rule.base \in Seq(STRING)
         /\ c.rule.target \in Seq(STRING)
         /\ c.rule.action \in {"allow", "deny", "redirect", "dynamic"}
  <1>1. PICK p \in Policies : c \in p.rules
    BY DEF AnyRule
  <1> QED
    BY <1>1, PoliciesSized DEF Sized

LEMMA NoCallType == NoCall \in Call
  BY DEF NoCall, Call, Kind

LEMMA ContextKindType == \A op : ContextKind(op) \in Kind
  BY DEF ContextKind, Kind

LEMMA PutType ==
  ASSUME cache \in [Unknown(policy) -> Kind], NEW path, NEW kind \in Kind
  PROVE  Put(path, kind) \in [Unknown(policy) -> Kind]
  BY DEF Put

LEMMA RedirectType ==
  ASSUME NEW c \in AnyRule, NEW kind, NEW path \in Seq(STRING),
         path # <<>>
  PROVE  BuildRedirectPath(c, kind, path) \in Seq(STRING)
  <1>1. Suffix(c.rule.base, path) \in Seq(STRING) /\ Suffix(c.rule.path, path) \in Seq(STRING)
    BY AnyRules, SuffixType
  <1>2. Name(path) \in STRING
    BY DEF Name
  <1>3. c.rule.target \in Seq(STRING)
    BY AnyRules
  <1>4. /\ c.rule.target \o Suffix(c.rule.base, path) \in Seq(STRING)
        /\ c.rule.target \o Suffix(c.rule.path, path) \in Seq(STRING)
    BY <1>1, <1>3
  <1>5. Append(c.rule.target, Name(path)) \in Seq(STRING)
    BY <1>2, <1>3
  <1> QED
    BY <1>3, <1>4, <1>5 DEF BuildRedirectPath

(* What the loop leaves behind after a rule of settled kind. *)
LEMMA JudgedFacts ==
  ASSUME NEW call \in Call, call.path # <<>>, NEW c \in AnyRule, NEW kind
  PROVE  LET j == Judged(call, c, kind) IN
         /\ j \in Call /\ j.path = call.path /\ j.learning = {}
         /\ Matches(c, kind, call.path) =>
              /\ j.pc = "decided" /\ j.by = {c} /\ j.decision = Decision[c.rule.action]
              /\ j.to = IF c.rule.action = "redirect"
                        THEN BuildRedirectPath(c, kind, call.path) ELSE <<>>
         /\ ~Matches(c, kind, call.path) =>
              j.pc = "search" /\ j.left = call.left \ {c} /\ j.to = call.to
  <1>1. CASE Matches(c, kind, call.path)
    <2>1. Judged(call, c, kind) = Decided(call, c, kind)
      BY <1>1 DEF Judged
    <2>2. BuildRedirectPath(c, kind, call.path) \in Seq(STRING)
      BY RedirectType DEF Call
    <2>3. Decision[c.rule.action] \in {"none", "allow", "block", "redirect"}
      BY AnyRules DEF Decision
    <2>4. Decided(call, c, kind) \in Call
      <3> DEFINE to == IF c.rule.action = "redirect"
                       THEN BuildRedirectPath(c, kind, call.path) ELSE <<>>
                 decision == Decision[c.rule.action]
      <3>0. <<>> \in Seq(STRING)
        OBVIOUS
      <3>1. to \in Seq(STRING)
        BY <2>2, <3>0
      <3>2. decision \in {"none", "allow", "block", "redirect"}
        BY <2>3
      <3>3. Decided(call, c, kind) =
              [call EXCEPT !.pc = "decided", !.left = {}, !.learning = {}, !.by = {c},
                           !.decision = decision, !.to = to]
        BY DEF Decided
      <3>4. {} \in SUBSET AnyRule /\ {c} \in SUBSET AnyRule
        OBVIOUS
      <3> HIDE DEF to, decision
      <3>5. /\ [call EXCEPT !.pc = "decided", !.left = {}, !.learning = {}, !.by = {c},
                            !.decision = decision, !.to = to] \in Call
        BY <3>1, <3>2, <3>4 DEF Call
      <3> QED
        BY <3>3, <3>5
    <2>5. /\ Decided(call, c, kind).path = call.path
          /\ Decided(call, c, kind).learning = {}
          /\ Decided(call, c, kind).pc = "decided"
          /\ Decided(call, c, kind).by = {c}
          /\ Decided(call, c, kind).decision = Decision[c.rule.action]
          /\ Decided(call, c, kind).to = IF c.rule.action = "redirect"
                                         THEN BuildRedirectPath(c, kind, call.path) ELSE <<>>
      BY DEF Decided, Call
    <2> QED
      BY <1>1, <2>1, <2>4, <2>5
  <1>2. CASE ~Matches(c, kind, call.path)
    BY <1>2 DEF Judged, Call
  <1> QED
    BY <1>1, <1>2

(* A rule that is sure to match matches with any kind that its kind can    *)
(* resolve to.                                                             *)
LEMMA SurelyMatches ==
  ASSUME NEW c, NEW path, Surely(c, path), NEW kind \in KindsOf(c)
  PROVE  Matches(c, kind, path)
  BY DEF Surely, Matches, KindsOf

LEMMA InitInv == Init => Inv
  <1> SUFFICES ASSUME Init PROVE Inv
    OBVIOUS
  <1>1. PICK s \in Section : policy = Compile(s) /\ cache = EmptyCache(Compile(s))
    BY DEF Init
  <1>2. \A t \in Thread : calls[t] = NoCall /\ calls[t].pc = "idle"
    BY DEF Init, NoCall
  <1>3. TypeOK
    <2>1. policy \in Policies
      BY <1>1 DEF Policies
    <2>2. cache \in [Unknown(policy) -> Kind]
      BY <1>1 DEF EmptyCache, Kind
    <2>3. calls \in [Thread -> Call]
      BY NoCallType DEF Init
    <2> QED
      BY <2>1, <2>2, <2>3 DEF TypeOK
  <1>4. SearchesSound
    BY <1>2 DEF SearchesSound, Sound
  <1> QED
    BY <1>3, <1>4 DEF Inv
-----------------------------------------------------------------------------
LEMMA SearchedRules ==
  ASSUME TypeOK, NEW path, NEW c \in Searched(policy.rules, path)
  PROVE  c \in policy.rules /\ c \in AnyRule /\ c.kind \in Kind
  BY PoliciesSized DEF TypeOK, Searched

(* A step of one thread under the rules in force. *)
LEMMA OneCall ==
  ASSUME Inv, NEW t \in Thread, NEW call \in Call, Sound(call),
         calls' = [calls EXCEPT ![t] = call], policy' = policy,
         cache' \in [Unknown(policy) -> Kind]
  PROVE  Inv'
  <1>1. TypeOK'
    <2>1. calls' \in [Thread -> Call]
      BY DEF Inv, TypeOK
    <2>2. policy' \in Policies
      BY DEF Inv, TypeOK
    <2>3. cache' \in [Unknown(policy') -> Kind]
      OBVIOUS
    <2> QED
      BY <2>1, <2>2, <2>3 DEF TypeOK
  <1>2. ASSUME NEW u \in Thread PROVE Sound(calls[u])'
    <2>1. calls'[u] = IF u = t THEN call ELSE calls[u]
      BY DEF Inv, TypeOK
    <2>2. Sound(calls'[u])
      BY <2>1 DEF Inv, SearchesSound
    <2> QED
      BY <2>2 DEF Sound, NextRules
  <1> QED
    BY <1>1, <1>2 DEF Inv, SearchesSound

LEMMA NoCallSound == Sound(NoCall)
  BY DEF NoCall, Sound

(* The loop goes past the next rule only if it is not sure to match. *)
LEMMA JudgedSound ==
  ASSUME TypeOK, NEW call \in Call, call.pc \in {"search", "learn"}, Sound(call),
         NEW c \in NextRules(call), NEW kind \in KindsOf(c)
  PROVE  Judged(call, c, kind) \in Call /\ Sound(Judged(call, c, kind))
  <1>1. c \in call.left /\ c \in AnyRule /\ call.path # <<>>
    BY SearchedRules, SectionFact DEF NextRules, Sound, SectionAssumption
  <1> DEFINE j == Judged(call, c, kind)
  <1>2. /\ j \in Call /\ j.path = call.path /\ j.learning = {}
        /\ Matches(c, kind, call.path) => j.pc = "decided"
        /\ ~Matches(c, kind, call.path) =>
             j.pc = "search" /\ j.left = call.left \ {c} /\ j.to = call.to
    BY <1>1, JudgedFacts
  <1> HIDE DEF j
  <1>3. Sound(j)
    BY <1>2 DEF Sound
  <1> QED
    BY <1>2, <1>3 DEF j

LEMMA BeginInv == ASSUME Inv, NEW t \in Thread, Begin(t) PROVE Inv'
  <1>1. PICK op \in Operation, path \in Path :
          /\ calls' = [calls EXCEPT ![t] =
                         [NoCall EXCEPT !.pc = "search", !.op = op, !.path = path,
                                        !.left = Searched(policy.rules, path)]]
          /\ cache' = Put(path, ContextKind(op))
    BY DEF Begin
  <1> DEFINE call == [NoCall EXCEPT !.pc = "search", !.op = op, !.path = path,
                                    !.left = Searched(policy.rules, path)]
  <1>2. call \in Call
    <2>1. Searched(policy.rules, path) \in SUBSET AnyRule
      BY SearchedRules DEF Inv
    <2>2. path \in Seq(STRING)
      BY SectionFact DEF SectionAssumption
    <2> QED
      BY <2>1, <2>2, NoCallType DEF Call
  <1>3. Sound(call)
    BY DEF NoCall, Sound
  <1>4. cache' \in [Unknown(policy) -> Kind]
    BY <1>1, PutType, ContextKindType DEF Inv, TypeOK
  <1>5. calls' = [calls EXCEPT ![t] = call] /\ policy' = policy
    BY <1>1 DEF Begin
  <1> HIDE DEF call
  <1> QED
    BY <1>2, <1>3, <1>4, <1>5, OneCall

(* A kind that is settled is one the rule may have. *)
LEMMA SettledKind ==
  ASSUME cache \in [Unknown(policy) -> Kind], NEW c \in policy.rules, c.kind \in Kind,
         NEW path, NEW kind \in Kind, Resolve(c, path, kind) # "auto"
  PROVE  Resolve(c, path, kind) \in KindsOf(c)
  <1>1. c.kind = "auto" => cache[c.rule.path] \in Kind
    BY DEF Unknown
  <1> QED
    BY <1>1 DEF Resolve, KindsOf, Kind

LEMMA VisitInv == ASSUME Inv, NEW t \in Thread, Visit(t) PROVE Inv'
  <1> DEFINE call == calls[t]
             kind == ContextKind(call.op)
  <1>1. call \in Call /\ Sound(call) /\ call.pc = "search" /\ policy' = policy
    BY DEF Inv, TypeOK, SearchesSound, Visit
  <1>2. PICK c \in NextRules(call) :
          LET settled == Resolve(c, call.path, kind) IN
          IF settled = "auto"
          THEN /\ calls' = [calls EXCEPT ![t] =
                              [call EXCEPT !.pc = "learn", !.learning = {c},
                                           !.cached = cache[c.rule.path]]]
               /\ UNCHANGED cache
          ELSE /\ calls' = [calls EXCEPT ![t] = Judged(call, c, settled)]
               /\ cache' = IF c.kind = "auto" /\ call.path = c.rule.path
                           THEN Put(c.rule.path, kind) ELSE cache
    BY DEF Visit
  <1>3. c \in call.left /\ c \in policy.rules /\ c \in AnyRule /\ c.kind \in Kind
    BY <1>1, SearchedRules DEF NextRules, Sound, Inv
  <1>4. cache \in [Unknown(policy) -> Kind] /\ kind \in Kind
    BY ContextKindType DEF Inv, TypeOK
  <1>5. CASE Resolve(c, call.path, kind) = "auto"
    <2> DEFINE new == [call EXCEPT !.pc = "learn", !.learning = {c},
                                   !.cached = cache[c.rule.path]]
    <2>1. c.kind = "auto" /\ kind # "auto"
      BY <1>5 DEF Resolve
    <2>2. cache[c.rule.path] \in Kind
      <3>1. c.rule.path \in Unknown(policy)
        BY <1>3, <2>1 DEF Unknown
      <3> QED
        BY <1>4, <3>1
    <2>3. {c} \in SUBSET AnyRule
      BY <1>3
    <2> HIDE DEF call
    <2>4. new \in Call
      BY <1>1, <2>2, <2>3 DEF Call
    <2>5. /\ new.pc = "learn" /\ new.learning = {c}
          /\ new.path = call.path /\ new.left = call.left
          /\ new.op = call.op /\ new.to = call.to
      BY <1>1 DEF Call
    <2>6. Sound(new)
      <3> HIDE DEF new
      <3> QED
        BY <1>1, <2>1, <2>5 DEF Sound, NextRules
    <2>7. calls' = [calls EXCEPT ![t] = new] /\ cache' = cache
      BY <1>2, <1>5
    <2> HIDE DEF new
    <2> QED
      BY <1>1, <1>4, <2>4, <2>6, <2>7, OneCall
  <1>6. CASE Resolve(c, call.path, kind) # "auto"
    <2> DEFINE settled == Resolve(c, call.path, kind)
    <2>1. settled \in KindsOf(c)
      BY <1>3, <1>4, <1>6, SettledKind
    <2>2. Judged(call, c, settled) \in Call /\ Sound(Judged(call, c, settled))
      <3> HIDE DEF call, settled
      <3> QED
        BY <1>1, <1>2, <2>1, JudgedSound DEF Inv
    <2>3. calls' = [calls EXCEPT ![t] = Judged(call, c, settled)]
      BY <1>2, <1>6
    <2>4. cache' \in [Unknown(policy) -> Kind]
      BY <1>2, <1>4, <1>6, PutType
    <2> HIDE DEF call, settled
    <2> QED
      BY <1>1, <2>2, <2>3, <2>4, OneCall
  <1> QED
    BY <1>5, <1>6

LEMMA LearnInv == ASSUME Inv, NEW t \in Thread, Learn(t) PROVE Inv'
  <1> DEFINE call == [calls[t] EXCEPT !.cached = "auto"]
             kind == ContextKind(calls[t].op)
  <1>1. calls[t] \in Call /\ Sound(calls[t]) /\ calls[t].pc = "learn" /\ policy' = policy
    BY DEF Inv, TypeOK, SearchesSound, Learn
  <1>2. PICK c \in calls[t].learning :
          /\ cache' = Put(c.rule.path, kind)
          /\ calls' = [calls EXCEPT ![t] = Judged(call, c, kind)]
    BY DEF Learn
  <1>3. /\ call \in Call /\ call.pc = "learn" /\ call.path = calls[t].path
        /\ call.left = calls[t].left /\ call.learning = calls[t].learning
        /\ call.op = calls[t].op /\ call.to = calls[t].to
    BY <1>1 DEF Call, Kind
  <1>4. Sound(call)
    <2> HIDE DEF call
    <2> QED
      BY <1>1, <1>3 DEF Sound, NextRules
  <1>5. c \in NextRules(call) /\ kind \in KindsOf(c)
    <2>1. kind \in Kind
      BY ContextKindType
    <2> HIDE DEF call
    <2> QED
      BY <1>3, <1>4, <2>1 DEF Sound, KindsOf, Kind
  <1>6. Judged(call, c, kind) \in Call /\ Sound(Judged(call, c, kind))
    <2> HIDE DEF call, kind
    <2> QED
      BY <1>3, <1>4, <1>5, JudgedSound DEF Inv
  <1>7. cache' \in [Unknown(policy) -> Kind]
    BY <1>2, PutType, ContextKindType DEF Inv, TypeOK
  <1> HIDE DEF call, kind
  <1> QED
    BY <1>1, <1>2, <1>6, <1>7, OneCall

LEMMA NoRuleLeftInv == ASSUME Inv, NEW t \in Thread, NoRuleLeft(t) PROVE Inv'
  <1> DEFINE default == DefaultDecision(policy, calls[t].path)
             call == [calls[t] EXCEPT !.pc = "decided", !.decision = default]
  <1>1. calls[t] \in Call /\ calls \in [Thread -> Call]
        /\ cache \in [Unknown(policy) -> Kind]
    BY DEF Inv, TypeOK
  <1>2. default \in {"none", "allow", "block", "redirect"}
    BY DEF DefaultDecision
  <1>3. calls' = [calls EXCEPT ![t].pc = "decided", ![t].decision = default]
    BY DEF NoRuleLeft
  <1> HIDE DEF default
  <1>4. call \in Call /\ call.pc = "decided"
    BY <1>1, <1>2 DEF Call
  <1>5. calls' = [calls EXCEPT ![t] = call]
    BY <1>1, <1>3
  <1>6. Sound(call)
    <2> HIDE DEF call
    <2> QED
      BY <1>4 DEF Sound
  <1>7. policy' = policy /\ cache' = cache
    BY DEF NoRuleLeft
  <1> HIDE DEF call
  <1> QED
    BY <1>1, <1>4, <1>5, <1>6, <1>7, OneCall

LEMMA ReturnInv == ASSUME Inv, NEW t \in Thread, Return(t) PROVE Inv'
  <1> DEFINE paths == <<calls[t].path, calls[t].to>>
             call == [NoCall EXCEPT !.pc = "forget", !.forget = paths]
  <1>1. policy' = policy /\ cache' = cache /\ cache \in [Unknown(policy) -> Kind]
    BY DEF Return, Inv, TypeOK
  <1>2. CASE calls' = [calls EXCEPT ![t] = NoCall]
    BY <1>1, <1>2, NoCallType, NoCallSound, OneCall
  <1>3. CASE calls' = [calls EXCEPT ![t] = call]
    <2>1. calls[t].path \in Seq(STRING) /\ calls[t].to \in Seq(STRING)
      BY DEF Inv, TypeOK, Call
    <2>2. paths \in Seq(Seq(STRING)) /\ paths # <<>>
      <3> DEFINE P == Seq(STRING)
      <3>1. calls[t].path \in P /\ calls[t].to \in P
        BY <2>1
      <3> HIDE DEF P
      <3>2. paths \in Seq(P) /\ paths # <<>>
        BY <3>1
      <3> QED
        BY <3>2 DEF P
    <2> HIDE DEF paths
    <2>3. call \in Call /\ call.pc = "forget" /\ call.forget # <<>>
      BY <2>2, NoCallType DEF Call, NoCall
    <2> HIDE DEF call
    <2>4. Sound(call)
      BY <2>3 DEF Sound
    <2> QED
      BY <1>1, <1>3, <2>3, <2>4, OneCall
  <1> QED
    BY <1>2, <1>3 DEF Return

LEMMA InvalidateInv == ASSUME Inv, NEW t \in Thread, Invalidate(t) PROVE Inv'
  <1> DEFINE call == [calls[t] EXCEPT !.forget = Tail(calls[t].forget)]
  <1>1. calls[t] \in Call /\ calls[t].pc = "forget" /\ policy' = policy
    BY DEF Inv, TypeOK, Invalidate
  <1>2. cache' \in [Unknown(policy) -> Kind]
    BY DEF Invalidate, Forget, Inv, TypeOK, Kind
  <1>3. CASE Tail(calls[t].forget) = <<>>
    <2>1. calls' = [calls EXCEPT ![t] = NoCall]
      BY <1>3 DEF Invalidate
    <2> QED
      BY <1>1, <1>2, <2>1, NoCallType, NoCallSound, OneCall
  <1>4. CASE Tail(calls[t].forget) # <<>>
    <2>1. calls' = [calls EXCEPT ![t] = call]
      BY <1>4 DEF Invalidate
    <2>2. calls[t].forget \in Seq(Seq(STRING))
      BY <1>1 DEF Call
    <2>3. calls[t].forget # <<>>
      BY <1>1 DEF Inv, SearchesSound, Sound
    <2>4. Tail(calls[t].forget) \in Seq(Seq(STRING))
      <3> DEFINE P == Seq(STRING)
      <3>1. calls[t].forget \in Seq(P)
        BY <2>2
      <3> HIDE DEF P
      <3>2. Tail(calls[t].forget) \in Seq(P)
        BY <2>3, <3>1
      <3> QED
        BY <3>2 DEF P
    <2>5. call \in Call /\ call.pc = "forget" /\ call.forget # <<>>
      BY <1>1, <1>4, <2>4 DEF Call
    <2> HIDE DEF call
    <2>6. Sound(call)
      BY <2>5 DEF Sound
    <2> QED
      BY <1>1, <1>2, <2>1, <2>5, <2>6, OneCall
  <1> QED
    BY <1>3, <1>4

(* No thread searches while the rules are replaced. *)
LEMMA ReloadInv == ASSUME Inv, Reload PROVE Inv'
  <1>1. PICK s \in Section : policy' = Compile(s) /\ cache' = EmptyCache(Compile(s))
    BY DEF Reload
  <1>2. calls' = calls /\ \A t \in Thread : ~Searching(t)
    BY DEF Reload
  <1>3. policy' \in Policies
    BY <1>1 DEF Policies
  <1>4. cache' \in [Unknown(policy') -> Kind]
    BY <1>1 DEF EmptyCache, Kind
  <1>5. TypeOK'
    BY <1>2, <1>3, <1>4 DEF Inv, TypeOK
  <1>6. ASSUME NEW t \in Thread PROVE Sound(calls[t])'
    <2>1. calls'[t] = calls[t] /\ calls[t].pc \notin {"search", "learn"}
      BY <1>2 DEF Searching
    <2>2. Sound(calls[t])
      BY DEF Inv, SearchesSound
    <2> QED
      BY <2>1, <2>2 DEF Sound
  <1> QED
    BY <1>5, <1>6 DEF Inv, SearchesSound

LEMMA StutterInv == ASSUME Inv, UNCHANGED vars PROVE Inv'
  BY DEF Inv, TypeOK, SearchesSound, Sound, NextRules, vars

LEMMA StepInv == ASSUME Inv, [Next]_vars PROVE Inv'
  <1>1. CASE Reload
    BY <1>1, ReloadInv
  <1>2. ASSUME NEW t \in Thread, Step(t) PROVE Inv'
    BY <1>2, BeginInv, VisitInv, LearnInv, NoRuleLeftInv, ReturnInv, InvalidateInv DEF Step
  <1>3. CASE UNCHANGED vars
    BY <1>3, StutterInv
  <1> QED
    BY <1>1, <1>2, <1>3 DEF Next

(* The types of the rules, the cache and the calls, and of what a search   *)
(* has gone through: invariants of any number of threads under any rules.  *)
THEOREM Invariance == Spec => []Inv
  BY InitInv, StepInv, PTL DEF Spec

(* Policies, cache entries and calls keep their types. *)
THEOREM TypeCorrect == Spec => []TypeOK
  <1>1. Inv => TypeOK
    BY DEF Inv
  <1> QED
    BY <1>1, Invariance, PTL

(* The lock of the rules is enough: what fm_reload_rules_locked frees, no   *)
(* search holds.                                                           *)
THEOREM SearchesSafe == Spec => []SearchesRulesInForce
  <1>1. Inv => SearchesRulesInForce
    BY DEF Inv, SearchesSound, Sound, SearchesRulesInForce, Searching, Searched, NextRules
  <1> QED
    BY <1>1, Invariance, PTL
-----------------------------------------------------------------------------
(* A rule without wildcards that is sure to match is still ahead of a      *)
(* search.                                                                 *)
LEMMA PlainRuleAhead ==
  ASSUME Inv, NEW t \in Thread, Searching(t),
         NEW c \in policy.rules, c.rule.glob = "none", Surely(c, calls[t].path)
  PROVE  c \in calls[t].left
  <1>1. calls[t].path \in Seq(STRING) /\ policy \in Policies
    BY DEF Inv, TypeOK, Call
  <1>2. Sized(policy.rules, STRING) /\ c.rule.path # <<>>
    BY <1>1, PoliciesSized
  <1>3. c \in Searched(policy.rules, calls[t].path)
    BY <1>1, <1>2, PlainRulesFound
  <1>4. \A kind \in KindsOf(c) : Matches(c, kind, calls[t].path)
    BY SurelyMatches
  <1> QED
    BY <1>3, <1>4 DEF Inv, SearchesSound, Sound, Searching

(* The rule a search looks at next is no worse than such a rule. *)
LEMMA NextIsFirst ==
  ASSUME Inv, NEW t \in Thread, Searching(t), NEW d \in NextRules(calls[t]),
         NEW c \in policy.rules, c.rule.glob = "none", Surely(c, calls[t].path)
  PROVE  ~Before(c, d)
  <1>1. calls[t].path \in Seq(STRING) /\ policy \in Policies
    BY DEF Inv, TypeOK, Call
  <1>2. Sized(policy.rules, STRING)
    BY <1>1, PoliciesSized
  <1>3. c \in calls[t].left
    BY PlainRuleAhead
  <1>4. d \in Searched(policy.rules, calls[t].path) /\ ~Sooner(c, d, calls[t].path)
    BY <1>3 DEF NextRules, Inv, SearchesSound, Sound, Searching
  <1> QED
    BY <1>1, <1>2, <1>4, PlainRulesInOrder

(* Only the thread of a call decides it, and by the rule it looks at. *)
ByRule(t, d, kind) ==
  /\ Matches(d, kind, calls[t].path)
  /\ calls'[t].by = {d} /\ calls'[t].decision = Decision[d.rule.action]
  /\ calls'[t].to = IF d.rule.action = "redirect"
                    THEN BuildRedirectPath(d, kind, calls[t].path) ELSE <<>>

LEMMA DecidedBy ==
  ASSUME Inv, [Next]_vars, NEW t \in Thread, Deciding(t)
  PROVE  \/ \E d \in NextRules(calls[t]) : \E kind \in KindsOf(d) : ByRule(t, d, kind)
         \/ /\ calls[t].left = {} /\ calls'[t].to = <<>>
            /\ calls'[t].decision = DefaultDecision(policy, calls[t].path)
  <1>1. calls \in [Thread -> Call] /\ calls[t] \in Call /\ Sound(calls[t])
        /\ calls[t].pc \in {"search", "learn"} /\ calls'[t].pc = "decided"
    BY DEF Inv, TypeOK, SearchesSound, Deciding, Searching
  <1>2. calls'[t] # calls[t]
    BY <1>1
  <1>3. ~Reload /\ ~UNCHANGED vars
    BY <1>2 DEF Reload, vars
  <1>4. PICK u \in Thread : Step(u)
    BY <1>3 DEF Next
  <1>5. \E call : calls' = [calls EXCEPT ![u] = call]
    <2>1. CASE Begin(u)
      BY <2>1 DEF Begin
    <2>2. CASE Visit(u)
      BY <2>2 DEF Visit
    <2>3. CASE Learn(u)
      BY <2>3 DEF Learn
    <2>4. CASE NoRuleLeft(u)
      BY <2>4, <1>1 DEF NoRuleLeft
    <2>5. CASE Return(u)
      BY <2>5 DEF Return
    <2>6. CASE Invalidate(u)
      BY <2>6 DEF Invalidate
    <2> QED
      BY <1>4, <2>1, <2>2, <2>3, <2>4, <2>5, <2>6 DEF Step
  <1>6. u = t
    BY <1>1, <1>2, <1>5
  <1>7. calls[t].path # <<>>
    BY <1>1, SectionFact DEF Sound, SectionAssumption
  <1>8. ASSUME NEW c \in NextRules(calls[t]) PROVE c \in AnyRule
    BY <1>1, SearchedRules DEF NextRules, Sound, Inv
  <1>9. CASE Visit(t)
    <2>1. PICK c \in NextRules(calls[t]) :
            LET settled == Resolve(c, calls[t].path, ContextKind(calls[t].op)) IN
            IF settled = "auto"
            THEN calls' = [calls EXCEPT ![t] =
                             [calls[t] EXCEPT !.pc = "learn", !.learning = {c},
                                              !.cached = cache[c.rule.path]]]
            ELSE calls' = [calls EXCEPT ![t] = Judged(calls[t], c, settled)]
      BY <1>9 DEF Visit
    <2> DEFINE settled == Resolve(c, calls[t].path, ContextKind(calls[t].op))
               learns == [calls[t] EXCEPT !.pc = "learn", !.learning = {c},
                                          !.cached = cache[c.rule.path]]
    <2>2. learns.pc = "learn"
      BY <1>1 DEF Call
    <2>3. calls'[t] = learns \/ calls'[t] = Judged(calls[t], c, settled)
      BY <1>1, <2>1
    <2>4. settled # "auto" => settled \in KindsOf(c)
      <3>1. c \in policy.rules /\ c.kind \in Kind
        BY <1>1, SearchedRules DEF NextRules, Sound, Inv
      <3> QED
        BY <3>1, ContextKindType, SettledKind DEF Inv, TypeOK
    <2> HIDE DEF settled, learns
    <2>5. calls'[t] = Judged(calls[t], c, settled)
      BY <1>1, <2>2, <2>3
    <2>6. ByRule(t, c, settled)
      BY <1>1, <1>7, <1>8, <2>5, JudgedFacts DEF ByRule
    <2>7. settled \in KindsOf(c)
      <3>1. settled # "auto"
        BY <1>1, <2>1, <2>2 DEF settled, learns
      <3> QED
        BY <2>4, <3>1
    <2> QED
      BY <2>6, <2>7
  <1>10. CASE Learn(t)
    <2> DEFINE call == [calls[t] EXCEPT !.cached = "auto"]
               kind == ContextKind(calls[t].op)
    <2>1. PICK c \in calls[t].learning : calls' = [calls EXCEPT ![t] = Judged(call, c, kind)]
      BY <1>10 DEF Learn
    <2>2. c \in NextRules(calls[t])
      BY <1>1, <1>10 DEF Learn, Sound
    <2>3. call \in Call /\ call.path # <<>> /\ call.path = calls[t].path /\ kind \in KindsOf(c)
      <3>1. kind \in Kind /\ kind # "auto" /\ c.kind = "auto"
        BY <1>1, <1>10, <2>1, ContextKindType DEF Learn, Sound
      <3> QED
        BY <1>1, <1>7, <3>1 DEF Call, Kind, KindsOf
    <2> HIDE DEF call, kind
    <2>4. calls'[t] = Judged(call, c, kind)
      BY <1>1, <2>1
    <2>5. ByRule(t, c, kind)
      BY <1>1, <1>8, <2>2, <2>3, <2>4, JudgedFacts DEF ByRule
    <2> QED
      BY <2>2, <2>3, <2>5
  <1>11. CASE NoRuleLeft(t)
    BY <1>1, <1>11 DEF NoRuleLeft, Call, Sound
  <1>12. ~Begin(t) /\ ~Return(t) /\ ~Invalidate(t)
    BY <1>1 DEF Begin, Return, Invalidate
  <1> QED
    BY <1>4, <1>6, <1>9, <1>10, <1>11, <1>12 DEF Step

(* PlainRuleDecides, whatever the buckets, the cache, the other threads    *)
(* and reloads do: the rule that decides a call is no worse than any rule  *)
(* without wildcards that is sure to match its path.                       *)
THEOREM PlainRulesDecide == Spec => PlainRuleDecides
  <1>1. ASSUME Inv, [Next]_vars, NEW t \in Thread
        PROVE  FirstDecides(t, {c \in policy.rules : c.rule.glob = "none"})
    <2> SUFFICES ASSUME Deciding(t), NEW c \in policy.rules, c.rule.glob = "none",
                        Surely(c, calls[t].path)
                 PROVE  \E d \in calls'[t].by : ~Before(c, d)
      BY DEF FirstDecides
    <2>1. Searching(t)
      BY DEF Deciding
    <2>2. c \in calls[t].left
      BY <1>1, <2>1, PlainRuleAhead
    <2>3. PICK d \in NextRules(calls[t]) : d \in calls'[t].by
      BY <1>1, <2>2, DecidedBy DEF ByRule
    <2> QED
      BY <2>1, <2>3, <1>1, NextIsFirst
  <1>2. Inv /\ [Next]_vars =>
          [\A t \in Thread : FirstDecides(t, {c \in policy.rules : c.rule.glob = "none"})]_vars
    BY <1>1
  <1> QED
    BY <1>2, Invariance, PTL DEF Spec, PlainRuleDecides

(* DecidesAnOutcome, whatever the cache holds and the other threads write  *)
(* into it: the kinds a search has come upon, taken together, are one way  *)
(* to give every rule of unknown kind a kind.                              *)
LEMMA OutcomeDecided ==
  ASSUME Inv, [Next]_vars, NEW t \in Thread, Deciding(t)
  PROVE  [decision |-> calls'[t].decision, to |-> calls'[t].to]
           \in Outcomes(policy, calls[t].path)
  <1> DEFINE path == calls[t].path
             left == calls[t].left
             searched == Searched(policy.rules, path)
             autos == {c \in policy.rules : c.kind = "auto"}
             passed == searched \ left
  <1>1. /\ left \subseteq searched
        /\ \A c \in passed : \E kind \in KindsOf(c) : ~Matches(c, kind, path)
        /\ searched \subseteq policy.rules
    BY DEF Inv, SearchesSound, Sound, Deciding, Searching, Searched
  <1>2. CASE left = {} /\ calls'[t].to = <<>>
             /\ calls'[t].decision = DefaultDecision(policy, path)
    <2> DEFINE k == [c \in autos |-> IF c \in passed
                                     THEN CHOOSE kind \in KindsOf(c) : ~Matches(c, kind, path)
                                     ELSE "file"]
    <2>1. k \in [autos -> {"file", "directory"}]
      BY <1>1 DEF KindsOf
    <2>2. \A c \in searched : ~Matches(c, KindUnder(c, k), path)
      BY <1>1, <1>2 DEF KindsOf, KindUnder
    <2> HIDE DEF k, searched, path, passed, autos
    <2>3. [decision |-> calls'[t].decision, to |-> calls'[t].to] \in Answers(policy, path, k)
      BY <1>2, <2>2 DEF Answers, searched
    <2> QED
      BY <2>1, <2>3 DEF Outcomes, autos, path
  <1>3. ASSUME NEW d \in NextRules(calls[t]), NEW settled \in KindsOf(d), ByRule(t, d, settled)
        PROVE  [decision |-> calls'[t].decision, to |-> calls'[t].to] \in Outcomes(policy, path)
    <2> DEFINE k == [c \in autos |-> IF c = d THEN settled ELSE IF c \in passed
                                     THEN CHOOSE kind \in KindsOf(c) : ~Matches(c, kind, path)
                                     ELSE "file"]
    <2>1. d \in left /\ d \in searched /\ d \in policy.rules
          /\ \A e \in left : ~Sooner(e, d, path)
      BY <1>1 DEF NextRules
    <2>2. k \in [autos -> {"file", "directory"}]
      BY <1>1 DEF KindsOf
    <2>3. \A c \in passed : ~Matches(c, KindUnder(c, k), path)
      BY <1>1, <2>1 DEF KindsOf, KindUnder
    <2>4. KindUnder(d, k) = settled
      BY <2>1 DEF KindsOf, KindUnder
    <2> HIDE DEF k
    <2> DEFINE hits == {c \in searched : Matches(c, KindUnder(c, k), path)}
    <2>5. d \in hits /\ \A e \in hits : ~Sooner(e, d, path)
      BY <1>3, <2>1, <2>3, <2>4 DEF ByRule
    <2>6. [decision |-> calls'[t].decision, to |-> calls'[t].to] =
            [decision |-> Decision[d.rule.action],
             to |-> IF d.rule.action = "redirect"
                    THEN BuildRedirectPath(d, KindUnder(d, k), path) ELSE <<>>]
      BY <1>3, <2>4 DEF ByRule
    <2> HIDE DEF path
    <2>7. [decision |-> calls'[t].decision, to |-> calls'[t].to] \in Answers(policy, path, k)
      BY <2>5, <2>6 DEF Answers
    <2> HIDE DEF searched, passed, autos
    <2> QED
      BY <2>2, <2>7 DEF Outcomes, autos
  <1>4. \/ left = {} /\ calls'[t].to = <<>> /\ calls'[t].decision = DefaultDecision(policy, path)
        \/ \E d \in NextRules(calls[t]) : \E kind \in KindsOf(d) : ByRule(t, d, kind)
    BY DecidedBy
  <1> QED
    BY <1>2, <1>3, <1>4

(* A search of many steps, among those of other threads, gives an answer   *)
(* that one look at the rules could give.                                  *)
THEOREM OutcomesDecided == Spec => DecidesAnOutcome
  <1>1. Inv /\ [Next]_vars =>
          [\A t \in Thread :
             Deciding(t) =>
               [decision |-> calls'[t].decision, to |-> calls'[t].to]
                 \in Outcomes(policy, calls[t].path)]_vars
    BY OutcomeDecided
  <1> QED
    BY <1>1, Invariance, PTL DEF Spec, DecidesAnOutcome

(* Two directories above one path lie on one way. *)
LEMMA PrefixesCompare ==
  ASSUME NEW S, NEW p \in Seq(S), NEW r \in Seq(S), NEW s \in Seq(S),
         IsPrefix(r, p), IsPrefix(s, p)
  PROVE  IsPrefix(r, s) \/ IsPrefix(s, r)
  <1>1. CASE Len(r) < Len(s)
    BY <1>1, PrefixesNest
  <1>2. CASE Len(s) < Len(r)
    BY <1>2, PrefixesNest
  <1>3. CASE Len(r) = Len(s)
    <2>1. r = SubSeq(p, 1, Len(r)) /\ s = SubSeq(p, 1, Len(s))
      BY DEF IsPrefix
    <2>2. r = s
      BY <1>3, <2>1
    <2> QED
      BY <2>2, PrefixReflexive
  <1> QED
    BY <1>1, <1>2, <1>3

(* What starts where a path of the external storage does lies there, too.  *)
LEMMA ExternalBelow ==
  ASSUME NEW S, NEW p \in Seq(S), NEW q \in Seq(S), IsPrefix(p, q), IsExternalPath(p)
  PROVE  IsExternalPath(q)
  BY DEF IsExternalPath, IsPrefix

(* The default decision blocks what is below a path that it blocks. *)
LEMMA BlockedBelow ==
  ASSUME NEW S, NEW p, NEW path \in Seq(S), NEW below \in Seq(S), IsPrefix(path, below),
         DefaultDecision(p, path) = "block", p.accessible \subseteq Seq(S),
         \A c \in p.rules : c.rule.path \in Seq(S), OwnedRoots(p) \subseteq Seq(S)
  PROVE  DefaultDecision(p, below) = "block"
  <1>1. p.mode # "blacklist" /\ ~ShouldImplicitlyAllow(p, path)
    BY DEF DefaultDecision
  <1>2. IsExternalPath(path) /\ IsExternalPath(below)
    BY <1>1, ExternalBelow DEF ShouldImplicitlyAllow
  <1>3. ~IsAppOwned(p, below)
    <2>1. ASSUME NEW o \in OwnedRoots(p), IsPrefix(below, o) PROVE FALSE
      BY <1>1, <2>1, PrefixTransitive DEF ShouldImplicitlyAllow, IsAppOwned
    <2>2. ASSUME NEW o \in OwnedRoots(p), IsPrefix(o, below) PROVE FALSE
      BY <1>1, <2>2, PrefixesCompare DEF ShouldImplicitlyAllow, IsAppOwned
    <2> QED
      BY <2>1, <2>2 DEF IsAppOwned
  <1>4. LetThrough(p) \subseteq Seq(S)
    BY DEF LetThrough
  <1>5. ~FindWhitelistAllowPath(p, below)
    <2>1. ASSUME NEW q \in LetThrough(p), IsExternalPath(q), IsPrefix(below, q) PROVE FALSE
      BY <1>1, <1>4, <2>1, PrefixTransitive DEF ShouldImplicitlyAllow, FindWhitelistAllowPath
    <2> QED
      BY <2>1 DEF FindWhitelistAllowPath
  <1>6. ASSUME NEW a \in p.accessible, IsPrefix(a, below) PROVE FALSE
    <2>1. IsPrefix(path, a)
      BY <1>1, <1>6, PrefixesCompare DEF ShouldImplicitlyAllow
    <2>2. IsExternalPath(a) /\ a \in LetThrough(p)
      BY <1>2, <2>1, ExternalBelow DEF LetThrough
    <2> QED
      BY <1>1, <2>1, <2>2 DEF ShouldImplicitlyAllow, FindWhitelistAllowPath
  <1> QED
    BY <1>1, <1>2, <1>3, <1>5, <1>6 DEF DefaultDecision, ShouldImplicitlyAllow

(* A directory above what a rule names is not blocked by default. *)
LEMMA WayToRule ==
  ASSUME NEW S, NEW p, NEW path \in Seq(S), DefaultDecision(p, path) = "block",
         NEW c \in p.rules, c.rule.action # "deny", c.rule.path \in Seq(S)
  PROVE  ~IsPrefix(path, c.rule.path)
  <1>1. SUFFICES ASSUME IsPrefix(path, c.rule.path) PROVE FALSE
    OBVIOUS
  <1>2. IsExternalPath(path) /\ ~FindWhitelistAllowPath(p, path)
    BY DEF DefaultDecision, ShouldImplicitlyAllow
  <1>3. IsExternalPath(c.rule.path) /\ c.rule.path \in LetThrough(p)
    BY <1>1, <1>2, ExternalBelow DEF LetThrough
  <1> QED
    BY <1>1, <1>2, <1>3 DEF FindWhitelistAllowPath

(* A directory above a path, and not the path itself, is above its parent. *)
LEMMA AboveParent ==
  ASSUME NEW S, NEW path \in Seq(S), NEW below \in Seq(S), NEW q \in Seq(S),
         IsPrefix(path, below), path # below, q # <<>>, Parent(below) = Parent(q)
  PROVE  IsPrefix(path, q)
  <1>1. Len(path) < Len(below)
    <2>1. SubSeq(below, 1, Len(below)) = below
      OBVIOUS
    <2>2. Len(path) <= Len(below) /\ SubSeq(below, 1, Len(path)) = path
      BY DEF IsPrefix
    <2> QED
      BY <2>1, <2>2
  <1>2. /\ Parent(below) \in Seq(S) /\ Len(Parent(below)) = Len(below) - 1
        /\ \A i \in 1 .. Len(below) - 1 : Parent(below)[i] = below[i]
    <2> DEFINE n == Len(below) - 1
               m == SubSeq(below, 1, n)
    <2>1. n \in 0 .. Len(below)
      BY <1>1
    <2>2. m \in Seq(S) /\ Len(m) = n /\ IsPrefix(m, below)
      BY <2>1, FirstNames
    <2>3. \A i \in 1 .. n : m[i] = below[i]
      BY <2>1
    <2> QED
      BY <2>2, <2>3 DEF Parent
  <1>3. Len(q) >= 1 /\ q = q /\ Len(q) - 1 \in 0 .. Len(q)
    OBVIOUS
  <1>4. Parent(q) \in Seq(S) /\ IsPrefix(Parent(q), q)
    BY <1>3, FirstNames DEF Parent
  <1>5. IsPrefix(path, Parent(below))
    <2> DEFINE m == Parent(below)
    <2>1. m \in Seq(S) /\ Len(path) <= Len(m)
      BY <1>1, <1>2
    <2>2. \A i \in 1 .. Len(path) : path[i] = m[i]
      <3>1. \A i \in 1 .. Len(path) : path[i] = below[i]
        BY DEF IsPrefix
      <3> QED
        BY <1>1, <1>2, <3>1
    <2> HIDE DEF m
    <2>3. /\ SubSeq(m, 1, Len(path)) \in Seq(S) /\ Len(SubSeq(m, 1, Len(path))) = Len(path)
          /\ \A i \in 1 .. Len(path) : SubSeq(m, 1, Len(path))[i] = m[i]
      BY <2>1
    <2>4. SubSeq(m, 1, Len(path)) = path
      BY <2>2, <2>3
    <2> QED
      BY <2>1, <2>4 DEF IsPrefix, m
  <1> QED
    BY <1>4, <1>5, PrefixTransitive

(* Nothing is let through below a path for which no rule was found. *)
LEMMA ClosedWay ==
  ASSUME Inv, [Next]_vars, NEW t \in Thread
  PROVE  BlocksNoWay(t, {c \in policy.rules : c.rule.glob # "path" /\ c.rule.types = AnyType})
  <1> SUFFICES ASSUME Deciding(t), calls'[t].decision = "block", calls'[t].by = {},
                      NEW below \in Path, IsPrefix(calls[t].path, below), below # calls[t].path
               PROVE  /\ DefaultDecision(policy, below) = "block"
                      /\ \A c \in policy.rules :
                           /\ c.rule.glob # "path" /\ c.rule.types = AnyType
                           /\ c.rule.action # "deny"
                           => ~Surely(c, below)
    BY DEF BlocksNoWay, ClosedBelow
  <1> DEFINE path == calls[t].path
             S == STRING \cup {ExternalRoot, "Android", "data", "media", policy.package}
  <1>1. DefaultDecision(policy, path) = "block" /\ calls[t].left = {}
    BY DecidedBy DEF ByRule
  <1>2. PICK s \in Section : policy = Compile(s)
    BY DEF Inv, TypeOK, Policies
  <1>3. policy.accessible \subseteq Seq(STRING)
    BY <1>2, SectionFact DEF Compile, SectionAssumption
  <1>4. \A c \in policy.rules :
          /\ c.rule.path \in Seq(STRING) /\ c.rule.path # <<>>
          /\ c.rule.glob \in {"none", "name", "path"}
          /\ c.rule.glob = "name" => \A p \in c.rule.fits : Parent(p) = Parent(c.rule.path)
    BY <1>2, SectionFact DEF Compile, SectionAssumption
  <1>5. path \in Seq(STRING) /\ below \in Seq(STRING)
    BY SectionFact DEF SectionAssumption, Inv, TypeOK, Call
  <1>6. DefaultDecision(policy, below) = "block"
    <2>1. STRING \subseteq S
      OBVIOUS
    <2>2. Seq(STRING) \subseteq Seq(S)
      <3> DEFINE Strings == STRING
      <3>1. Strings \subseteq S
        BY <2>1
      <3> HIDE DEF Strings, S
      <3>2. Seq(Strings) \subseteq Seq(S)
        BY <3>1
      <3> QED
        BY <3>2 DEF Strings
    <2>3. OwnedRoots(policy) \subseteq Seq(S)
      BY DEF OwnedRoots
    <2>4. /\ path \in Seq(S) /\ below \in Seq(S) /\ policy.accessible \subseteq Seq(S)
          /\ \A c \in policy.rules : c.rule.path \in Seq(S)
      BY <1>3, <1>4, <1>5, <2>2
    <2> HIDE DEF S, path
    <2> QED
      BY <1>1, <2>3, <2>4, BlockedBelow DEF path
  <1>7. ASSUME NEW c \in policy.rules, c.rule.glob # "path", c.rule.types = AnyType,
               c.rule.action # "deny", Surely(c, below)
        PROVE  FALSE
    <2>1. ~IsPrefix(path, c.rule.path)
      BY <1>1, <1>4, <1>5, <1>7, WayToRule
    <2>2. CASE c.rule.glob = "none"
      <3>1. IsPrefix(c.rule.path, below)
        BY <1>4, <1>5, <2>2, <1>7, SurelyPrefix
      <3>2. IsPrefix(c.rule.path, path)
        BY <1>4, <1>5, <2>1, <3>1, PrefixesCompare
      <3>3. c.rule.path # below
        BY <2>1
      <3>4. Surely(c, path)
        BY <1>7, <2>2, <3>2, <3>3 DEF Surely, MatchesTypeFilter
      <3> QED
        BY <1>1, <2>2, <3>4, PlainRuleAhead DEF Deciding
    <2>3. CASE c.rule.glob # "none"
      <3>1. below \in c.rule.fits
        BY <1>7, <2>3 DEF Surely
      <3> QED
        BY <1>4, <1>5, <1>7, <2>1, <2>3, <3>1, AboveParent
    <2> QED
      BY <2>2, <2>3
  <1> QED
    BY <1>6, <1>7

(* WayStaysOpen, for any whitelist and any paths, whatever the cache and   *)
(* the other threads do: a path that is blocked because no rule is left    *)
(* has nothing below it that a rule without a filter, or with wildcards in *)
(* the last name at most, lets through, nor the default.                   *)
THEOREM WaysStayOpen == Spec => WayStaysOpen
  <1>1. Inv /\ [Next]_vars =>
          [\A t \in Thread :
             BlocksNoWay(t, {c \in policy.rules :
                               c.rule.glob # "path" /\ c.rule.types = AnyType})]_vars
    BY ClosedWay
  <1> QED
    BY <1>1, Invariance, PTL DEF Spec, WayStaysOpen
-----------------------------------------------------------------------------
(* A call is about to enter a kind only if it found none. *)
Fresh == \A t \in Thread : calls[t].pc = "learn" => calls[t].cached = "auto"

(* What a step of a thread does to the calls and, of other paths than its   *)
(* own, to the cache.                                                      *)
LEMMA StepOfOne ==
  ASSUME Inv, Fresh, NEW t \in Thread, Step(t)
  PROVE  /\ \A u \in Thread \ {t} : calls'[u] = calls[u]
         /\ calls'[t].pc = "learn" => calls'[t].cached = "auto"
         /\ \A p \in DOMAIN cache : cache'[p] # cache[p] =>
              /\ calls'[t] # calls[t]
              /\ \/ p = calls[t].path \/ p = calls'[t].path
                 \/ calls[t].pc = "forget" /\ p = Head(calls[t].forget)
                 \/ calls[t].pc = "learn"
  <1>0. /\ calls \in [Thread -> Call] /\ calls[t] \in Call /\ Sound(calls[t])
        /\ cache \in [Unknown(policy) -> Kind]
    BY DEF Inv, TypeOK, SearchesSound
  <1>1. \A path, kind : \A p \in DOMAIN cache :
          p # path => Put(path, kind)[p] = cache[p] /\ Forget(path)[p] = cache[p]
    BY <1>0 DEF Put, Forget
  <1>2. ASSUME NEW call \in Call, call.path # <<>>, NEW c \in AnyRule, NEW kind
        PROVE  LET j == Judged(call, c, kind) IN
               /\ j.pc \in {"decided", "search"} /\ j.path = call.path
               /\ j.pc = "search" => j.left = call.left \ {c}
    <2> DEFINE j == Judged(call, c, kind)
    <2>1. /\ j.path = call.path
          /\ Matches(c, kind, call.path) => j.pc = "decided"
          /\ ~Matches(c, kind, call.path) => j.pc = "search" /\ j.left = call.left \ {c}
      BY <1>2, JudgedFacts
    <2> HIDE DEF j
    <2>2. /\ j.pc \in {"decided", "search"} /\ j.path = call.path
          /\ j.pc = "search" => j.left = call.left \ {c}
      BY <2>1
    <2> QED
      BY <2>2 DEF j
  <1>3. CASE Begin(t)
    <2>1. PICK op \in Operation, path \in Path :
            /\ calls' = [calls EXCEPT ![t] =
                           [NoCall EXCEPT !.pc = "search", !.op = op, !.path = path,
                                          !.left = Searched(policy.rules, path)]]
            /\ cache' = Put(path, ContextKind(op))
      BY <1>3 DEF Begin
    <2>2. calls'[t].pc = "search" /\ calls'[t].path = path /\ calls[t].pc = "idle"
      BY <1>0, <1>3, <2>1 DEF Begin, NoCall
    <2>3. \A u \in Thread \ {t} : calls'[u] = calls[u]
      BY <1>0, <2>1
    <2>4. \A p \in DOMAIN cache : cache'[p] # cache[p] => p = path
      BY <1>1, <2>1
    <2> QED
      BY <2>2, <2>3, <2>4
  <1>4. CASE Visit(t)
    <2> DEFINE call == calls[t]
               kind == ContextKind(call.op)
    <2>1. PICK c \in NextRules(call) :
            LET settled == Resolve(c, call.path, kind) IN
            IF settled = "auto"
            THEN /\ calls' = [calls EXCEPT ![t] =
                                [call EXCEPT !.pc = "learn", !.learning = {c},
                                             !.cached = cache[c.rule.path]]]
                 /\ UNCHANGED cache
            ELSE /\ calls' = [calls EXCEPT ![t] = Judged(call, c, settled)]
                 /\ cache' = IF c.kind = "auto" /\ call.path = c.rule.path
                             THEN Put(c.rule.path, kind) ELSE cache
      BY <1>4 DEF Visit
    <2>2. calls[t].pc = "search"
      BY <1>4 DEF Visit
    <2>3. c \in call.left /\ c \in AnyRule /\ c.kind \in Kind /\ call.path # <<>>
      BY <1>0, <2>1, <2>2, SearchedRules, SectionFact
      DEF NextRules, Sound, Inv, SectionAssumption
    <2>4. CASE Resolve(c, call.path, kind) = "auto"
      <3>1. cache[c.rule.path] = "auto"
        BY <2>3, <2>4 DEF Resolve, Kind
      <3>2. calls' = [calls EXCEPT ![t] =
                        [call EXCEPT !.pc = "learn", !.learning = {c}, !.cached = "auto"]]
            /\ cache' = cache
        BY <2>1, <2>4, <3>1
      <3>3. calls'[t].cached = "auto" /\ \A u \in Thread \ {t} : calls'[u] = calls[u]
        BY <1>0, <3>2 DEF Call
      <3> QED
        BY <3>2, <3>3
    <2>5. CASE Resolve(c, call.path, kind) # "auto"
      <3> DEFINE j == Judged(call, c, Resolve(c, call.path, kind))
      <3>1. calls' = [calls EXCEPT ![t] = j]
        BY <2>1, <2>5
      <3>2. j.pc \in {"decided", "search"} /\ (j.pc = "search" => j.left = call.left \ {c})
        BY <1>0, <1>2, <2>3
      <3>3. \A p \in DOMAIN cache : cache'[p] # cache[p] => p = call.path
        BY <1>1, <2>1, <2>5
      <3> HIDE DEF j, call
      <3>4. calls'[t] = j /\ \A u \in Thread \ {t} : calls'[u] = calls[u]
        BY <1>0, <3>1
      <3>5. j # call
        BY <2>2, <2>3, <3>2 DEF call
      <3> QED
        BY <3>2, <3>3, <3>4, <3>5 DEF call
    <2> QED
      BY <2>4, <2>5
  <1>5. CASE Learn(t)
    <2> DEFINE call == [calls[t] EXCEPT !.cached = "auto"]
               kind == ContextKind(calls[t].op)
    <2>1. PICK c \in calls[t].learning : calls' = [calls EXCEPT ![t] = Judged(call, c, kind)]
      BY <1>5 DEF Learn
    <2>2. calls[t].pc = "learn"
      BY <1>5 DEF Learn
    <2>3. c \in AnyRule /\ calls[t].path # <<>>
      BY <1>0, <2>1, <2>2, SearchedRules, SectionFact
      DEF NextRules, Sound, Inv, SectionAssumption
    <2>4. call \in Call /\ call.path # <<>>
      BY <1>0, <2>3 DEF Call, Kind
    <2> HIDE DEF call, kind
    <2>5. Judged(call, c, kind).pc \in {"decided", "search"}
      BY <1>2, <2>3, <2>4
    <2>6. calls'[t] = Judged(call, c, kind) /\ \A u \in Thread \ {t} : calls'[u] = calls[u]
      BY <1>0, <2>1
    <2> QED
      BY <2>2, <2>5, <2>6
  <1>6. CASE NoRuleLeft(t)
    BY <1>0, <1>6 DEF NoRuleLeft, Call
  <1>7. CASE Return(t)
    <2>1. cache' = cache /\ \A u \in Thread \ {t} : calls'[u] = calls[u]
      BY <1>0, <1>7 DEF Return
    <2> DEFINE paths == <<calls[t].path, calls[t].to>>
               call == [NoCall EXCEPT !.pc = "forget", !.forget = paths]
    <2>2. calls' = [calls EXCEPT ![t] = NoCall] \/ calls' = [calls EXCEPT ![t] = call]
      BY <1>7 DEF Return
    <2> HIDE DEF paths
    <2>3. NoCall.pc # "learn" /\ call.pc # "learn"
      BY DEF NoCall
    <2> HIDE DEF call
    <2>4. calls'[t].pc # "learn"
      BY <1>0, <2>2, <2>3
    <2> QED
      BY <2>1, <2>4
  <1>8. CASE Invalidate(t)
    <2> DEFINE forget == calls[t].forget
    <2>1. calls[t].pc = "forget" /\ forget # <<>> /\ forget \in Seq(Seq(STRING))
      BY <1>0, <1>8 DEF Invalidate, Sound, Call
    <2>2. \A p \in DOMAIN cache : cache'[p] # cache[p] => p = Head(forget)
      BY <1>1, <1>8 DEF Invalidate
    <2>3. Tail(forget) # forget
      <3> DEFINE P == Seq(STRING)
      <3>1. forget \in Seq(P) /\ forget # <<>>
        BY <2>1
      <3> HIDE DEF P, forget
      <3>2. Len(Tail(forget)) = Len(forget) - 1 /\ Len(forget) \in Nat
        BY <3>1
      <3> QED
        BY <3>2
    <2>4. calls' = [calls EXCEPT ![t] =
                      IF Tail(forget) = <<>> THEN NoCall
                      ELSE [calls[t] EXCEPT !.forget = Tail(forget)]]
      BY <1>8 DEF Invalidate
    <2> HIDE DEF forget
    <2>5. /\ calls'[t] = IF Tail(forget) = <<>> THEN NoCall
                         ELSE [calls[t] EXCEPT !.forget = Tail(forget)]
          /\ \A u \in Thread \ {t} : calls'[u] = calls[u]
      BY <1>0, <2>4
    <2>6. calls'[t].pc # "learn" /\ calls'[t] # calls[t]
      BY <1>0, <2>1, <2>3, <2>5 DEF NoCall, Call, forget
    <2> QED
      BY <2>1, <2>2, <2>5, <2>6 DEF forget
  <1> QED
    BY <1>3, <1>4, <1>5, <1>6, <1>7, <1>8 DEF Step

LEMMA FreshNext == Inv /\ Fresh /\ [Next]_vars => Fresh'
  <1> SUFFICES ASSUME Inv, Fresh, [Next]_vars PROVE Fresh'
    OBVIOUS
  <1>1. CASE calls' = calls
    BY <1>1 DEF Fresh
  <1>2. ASSUME NEW t \in Thread, Step(t) PROVE Fresh'
    BY <1>2, StepOfOne DEF Fresh
  <1> QED
    BY <1>1, <1>2 DEF Next, Reload, vars

(* LearntKindStays, for any number of threads and under any rules: no call *)
(* touches what is known of another path than its own, but one that has    *)
(* found nothing there.                                                    *)
THEOREM KindsStay == Spec => LearntKindStays
  <1>1. Init => Fresh
    BY DEF Init, Fresh, NoCall
  <1>2. Spec => []Fresh
    BY <1>1, FreshNext, Invariance, PTL DEF Spec
  <1>3. Inv /\ Fresh /\ [Next]_vars =>
          [\A p \in DOMAIN cache :
             cache[p] # "auto" /\ calls' # calls /\ cache'[p] # cache[p] =>
               \E t \in Thread :
                 /\ calls'[t] # calls[t]
                 /\ \/ p = calls[t].path \/ p = calls'[t].path
                    \/ calls[t].pc = "forget" /\ p = Head(calls[t].forget)
                    \/ calls[t].pc = "learn" /\ calls[t].cached = "auto"]_vars
    <2> SUFFICES ASSUME Inv, Fresh, Next, NEW p \in DOMAIN cache,
                        calls' # calls, cache'[p] # cache[p]
                 PROVE  \E t \in Thread :
                          /\ calls'[t] # calls[t]
                          /\ \/ p = calls[t].path \/ p = calls'[t].path
                             \/ calls[t].pc = "forget" /\ p = Head(calls[t].forget)
                             \/ calls[t].pc = "learn" /\ calls[t].cached = "auto"
      OBVIOUS
    <2>1. PICK t \in Thread : Step(t)
      BY DEF Next, Reload
    <2> QED
      BY <2>1, StepOfOne DEF Fresh
  <1> QED
    BY <1>2, <1>3, Invariance, PTL DEF Spec, LearntKindStays
=============================================================================
