-------------------------- MODULE PathMapperProofs --------------------------
(***************************************************************************)
(* What the code reads off the text of a path is where the kernel walks by *)
(* it, for paths of any length, any number of aliases and any buffer.      *)
(*                                                                         *)
(* The kernel goes from name to name and follows a link as soon as it gets *)
(* to one; fm_collapse_absolute_path goes along the text and replaces an   *)
(* alias at its front only.  ReadAsReached is the induction: as long as    *)
(* the text comes by no alias it is, but for a slash at its end, the       *)
(* directory the kernel is in.  UnaliasedReached lets it begin behind the  *)
(* alias at the front, and LeadRead says that reading the result again,    *)
(* which the wrappers do up to three times, changes nothing more.          *)
(***************************************************************************)
EXTENDS PathMapper, WellFoundedInduction, TLAPS

-----------------------------------------------------------------------------
(* Sequences and what they begin with. *)

(* A set of numbers has a least one. *)
LEMMA LeastNat ==
  ASSUME NEW S, S \subseteq Nat, S # {}
  PROVE  \E n \in S : \A m \in S : n <= m
  <1> DEFINE R == OpToRel(<, Nat)
  <1>1. IsWellFoundedOn(R, Nat)
    BY NatLessThanWellFounded
  <1>2. PICK n \in S : \A m \in S : <<m, n>> \notin R
    BY <1>1, WFMin
  <1>3. ASSUME NEW m \in S
        PROVE  n <= m
    <2>1. ~(m < n)
      BY <1>2, <1>3 DEF OpToRel
    <2> QED
      BY <2>1, <1>3
  <1> QED
    BY <1>3

(* A set that is entered at 0 and not left holds every number. *)
LEMMA Reaching ==
  ASSUME NEW n \in Nat, NEW S, 0 \in S, \A i \in 0 .. n - 1 : i \in S => i + 1 \in S
  PROVE  0 .. n \subseteq S
  <1> SUFFICES ASSUME NEW i \in 0 .. n, i \notin S PROVE FALSE
    OBVIOUS
  <1> DEFINE M == {k \in 0 .. n : k \notin S}
  <1>1. PICK k \in M : \A m \in M : k <= m
    <2>1. M \subseteq Nat /\ M # {}
      OBVIOUS
    <2> HIDE DEF M
    <2> QED
      BY <2>1, LeastNat
  <1>2. k # 0 /\ k - 1 \in 0 .. n - 1 /\ k - 1 \notin S
    BY <1>1
  <1> QED
    BY <1>1, <1>2

(* What is computed name by name there is a function for. *)
LEMMA StepsExist ==
  ASSUME NEW S, NEW a \in S, NEW n \in Nat, NEW G \in [1 .. n -> [S -> S]]
  PROVE  \E f \in [0 .. n -> S] : f = [i \in 0 .. n |-> IF i = 0 THEN a ELSE G[i][f[i - 1]]]
  <1> DEFINE Until(k) == {f \in [0 .. n -> S] :
                            f[0] = a /\ \A i \in 1 .. k : f[i] = G[i][f[i - 1]]}
             D == {k \in 0 .. n : Until(k) # {}}
  <1>1. 0 \in D
    <2>1. [i \in 0 .. n |-> a] \in Until(0)
      OBVIOUS
    <2> QED
      BY <2>1
  <1>2. ASSUME NEW k \in 0 .. n - 1, k \in D PROVE k + 1 \in D
    <2>1. PICK f \in Until(k) : TRUE
      BY <1>2
    <2> DEFINE g == [f EXCEPT ![k + 1] = G[k + 1][f[k]]]
    <2>2. g \in [0 .. n -> S]
      <3>1. G[k + 1][f[k]] \in S
        BY <2>1
      <3> QED
        BY <2>1, <3>1
    <2>3. \A i \in 0 .. k : g[i] = f[i]
      BY <2>1
    <2>4. g[k + 1] = G[k + 1][g[k]]
      BY <2>1, <2>3
    <2>5. ASSUME NEW i \in 1 .. k + 1 PROVE g[i] = G[i][g[i - 1]]
      <3>1. CASE i = k + 1
        BY <2>4, <3>1
      <3>2. CASE i # k + 1
        BY <2>1, <2>3, <3>2
      <3> QED
        BY <3>1, <3>2
    <2>6. g \in Until(k + 1)
      BY <2>1, <2>2, <2>3, <2>5
    <2>7. k + 1 \in 0 .. n
      OBVIOUS
    <2> HIDE DEF Until
    <2> QED
      BY <2>6, <2>7
  <1>3. n \in D
    <2> HIDE DEF D
    <2>1. 0 .. n \subseteq D
      BY <1>1, <1>2, Reaching
    <2> QED
      BY <2>1
  <1>4. PICK f \in Until(n) : TRUE
    BY <1>3
  <1>5. f = [i \in 0 .. n |-> IF i = 0 THEN a ELSE G[i][f[i - 1]]]
    BY <1>4
  <1> QED
    BY <1>4, <1>5

(* A sequence of members of S is one of members of a larger set. *)
LEMMA Wider ==
  ASSUME NEW S, NEW T, S \subseteq T, NEW s \in Seq(S)
  PROVE  s \in Seq(T)
  OBVIOUS

(* A sequence with one more member. *)
LEMMA Grown ==
  ASSUME NEW S, NEW s \in Seq(S), NEW x \in S
  PROVE  /\ Append(s, x) \in Seq(S) /\ Len(Append(s, x)) = Len(s) + 1
         /\ Append(s, x)[Len(s) + 1] = x
         /\ \A i \in 1 .. Len(s) : Append(s, x)[i] = s[i]
  OBVIOUS

(* The first members of a sequence. *)
LEMMA CutAt ==
  ASSUME NEW S, NEW s \in Seq(S), NEW n \in 0 .. Len(s)
  PROVE  /\ SubSeq(s, 1, n) \in Seq(S) /\ Len(SubSeq(s, 1, n)) = n
         /\ \A i \in 1 .. n : SubSeq(s, 1, n)[i] = s[i]
  OBVIOUS

(* A path without its last name. *)
LEMMA ParentOf ==
  ASSUME NEW S, NEW s \in Seq(S)
  PROVE  /\ Parent(s) \in Seq(S)
         /\ s = <<>> => Parent(s) = <<>>
         /\ s # <<>> => /\ Len(s) \in Nat \ {0} /\ Len(Parent(s)) = Len(s) - 1
                        /\ \A i \in 1 .. Len(s) - 1 : Parent(s)[i] = s[i]
  <1>1. CASE s = <<>>
    <2>1. Parent(s) = <<>>
      BY <1>1 DEF Parent
    <2> QED
      BY <1>1, <2>1
  <1>2. CASE s # <<>>
    <2>1. Len(s) \in Nat \ {0} /\ Len(s) - 1 \in 0 .. Len(s)
      BY <1>2
    <2> QED
      BY <1>2, <2>1, CutAt DEF Parent
  <1> QED
    BY <1>1, <1>2

(* Sequences with the same members are the same. *)
LEMMA SameSequence ==
  ASSUME NEW S, NEW s \in Seq(S), NEW T, NEW t \in Seq(T), Len(s) = Len(t),
         \A i \in 1 .. Len(s) : s[i] = t[i]
  PROVE  s = t
  OBVIOUS

(* What comes after the first member. *)
LEMMA TailOf ==
  ASSUME NEW S, NEW s \in Seq(S), s # <<>>
  PROVE  /\ Tail(s) \in Seq(S) /\ Len(s) \in Nat /\ Len(s) >= 1 /\ Len(Tail(s)) = Len(s) - 1
         /\ \A j \in 1 .. Len(s) - 1 : Tail(s)[j] = s[j + 1]
         /\ Head(s) = s[1]
  OBVIOUS

(* Two sequences in a row. *)
LEMMA Concatenated ==
  ASSUME NEW S, NEW s \in Seq(S), NEW t \in Seq(S)
  PROVE  /\ s \o t \in Seq(S) /\ Len(s \o t) = Len(s) + Len(t)
         /\ Len(s) \in Nat /\ Len(t) \in Nat
         /\ \A i \in 1 .. Len(s) : (s \o t)[i] = s[i]
         /\ \A i \in 1 .. Len(t) : (s \o t)[Len(s) + i] = t[i]
  OBVIOUS

(* What is left of a path goes with what it begins with. *)
LEMMA SuffixOf ==
  ASSUME NEW S, NEW s \in Seq(S), NEW p \in Seq(S), IsPrefix(s, p)
  PROVE  Suffix(s, p) \in Seq(S) /\ p = s \o Suffix(s, p)
  <1>1. Len(s) \in Nat /\ Len(p) \in Nat /\ Len(s) <= Len(p)
    BY DEF IsPrefix
  <1>2. \A i \in 1 .. Len(s) : p[i] = s[i]
    <2>1. Len(s) \in 0 .. Len(p)
      BY <1>1
    <2> QED
      BY <2>1, CutAt DEF IsPrefix
  <1> DEFINE r == Suffix(s, p)
             n == Len(p) - Len(s)
  <1>3. r \in Seq(S) /\ Len(r) = n /\ \A i \in 1 .. n : r[i] = p[Len(s) + i]
    BY <1>1 DEF Suffix
  <1> HIDE DEF r
  <1>4. /\ s \o r \in Seq(S) /\ Len(s \o r) = Len(s) + Len(r)
        /\ \A i \in 1 .. Len(s) : (s \o r)[i] = s[i]
        /\ \A i \in 1 .. Len(r) : (s \o r)[Len(s) + i] = r[i]
    BY <1>3, Concatenated
  <1>5. Len(s \o r) = Len(p)
    BY <1>1, <1>3, <1>4
  <1>6. ASSUME NEW i \in 1 .. Len(p) PROVE (s \o r)[i] = p[i]
    <2>1. CASE i \in 1 .. Len(s)
      BY <1>2, <1>4, <2>1
    <2>2. CASE i \notin 1 .. Len(s)
      <3>1. i - Len(s) \in 1 .. n /\ Len(s) + (i - Len(s)) = i
        BY <1>1, <2>2
      <3> QED
        BY <1>3, <1>4, <3>1
    <2> QED
      BY <2>1, <2>2
  <1>7. s \o r = p
    BY <1>4, <1>5, <1>6, SameSequence
  <1> QED
    BY <1>3, <1>7 DEF r

(* The first members and one more. *)
LEMMA CutFurther ==
  ASSUME NEW S, NEW s \in Seq(S), NEW i \in 0 .. Len(s) - 1
  PROVE  SubSeq(s, 1, i + 1) = Append(SubSeq(s, 1, i), s[i + 1])
  <1>1. Len(s) \in Nat /\ i \in 0 .. Len(s) /\ i + 1 \in 0 .. Len(s) /\ i + 1 \in 1 .. Len(s)
    OBVIOUS
  <1> DEFINE p == SubSeq(s, 1, i)
             q == SubSeq(s, 1, i + 1)
             r == Append(p, s[i + 1])
  <1>2. p \in Seq(S) /\ Len(p) = i /\ \A j \in 1 .. i : p[j] = s[j]
    BY <1>1, CutAt
  <1>3. q \in Seq(S) /\ Len(q) = i + 1 /\ \A j \in 1 .. i + 1 : q[j] = s[j]
    BY <1>1, CutAt
  <1>4. s[i + 1] \in S
    BY <1>1
  <1> HIDE DEF p, q
  <1>5. r \in Seq(S) /\ Len(r) = i + 1 /\ r[i + 1] = s[i + 1] /\ \A j \in 1 .. i : r[j] = p[j]
    BY <1>2, <1>4, Grown
  <1> HIDE DEF r
  <1>6. \A j \in 1 .. i + 1 : q[j] = r[j]
    BY <1>2, <1>3, <1>5
  <1>7. q = r
    BY <1>3, <1>5, <1>6, SameSequence
  <1> QED
    BY <1>7 DEF p, q, r

(* A sequence begins with its first members. *)
LEMMA PrefixCut ==
  ASSUME NEW S, NEW s \in Seq(S), NEW i \in 0 .. Len(s)
  PROVE  IsPrefix(SubSeq(s, 1, i), s)
  <1>1. Len(SubSeq(s, 1, i)) = i
    BY CutAt
  <1> QED
    BY <1>1 DEF IsPrefix

(* The first of the first members. *)
LEMMA CutCut ==
  ASSUME NEW S, NEW s \in Seq(S), NEW k \in 0 .. Len(s), NEW i \in 0 .. k
  PROVE  SubSeq(SubSeq(s, 1, k), 1, i) = SubSeq(s, 1, i)
  <1>1. i \in 0 .. Len(s)
    OBVIOUS
  <1> DEFINE t == SubSeq(s, 1, k)
  <1>2. t \in Seq(S) /\ Len(t) = k /\ \A j \in 1 .. k : t[j] = s[j]
    BY CutAt
  <1> HIDE DEF t
  <1>3. SubSeq(t, 1, i) \in Seq(S) /\ Len(SubSeq(t, 1, i)) = i /\ \A j \in 1 .. i : SubSeq(t, 1, i)[j] = t[j]
    BY <1>2, CutAt
  <1>4. SubSeq(s, 1, i) \in Seq(S) /\ Len(SubSeq(s, 1, i)) = i /\ \A j \in 1 .. i : SubSeq(s, 1, i)[j] = s[j]
    BY <1>1, CutAt
  <1>5. \A j \in 1 .. i : SubSeq(t, 1, i)[j] = SubSeq(s, 1, i)[j]
    BY <1>2, <1>3, <1>4
  <1>6. SubSeq(t, 1, i) = SubSeq(s, 1, i)
    BY <1>3, <1>4, <1>5, SameSequence
  <1> QED
    BY <1>6 DEF t

(* A sequence begins with itself. *)
LEMMA WholePrefix ==
  ASSUME NEW S, NEW p \in Seq(S)
  PROVE  IsPrefix(p, p) /\ SubSeq(p, 1, Len(p)) = p /\ Len(p) \in Nat
  <1>1. Len(p) \in 0 .. Len(p) /\ SubSeq(p, 1, Len(p)) = p /\ Len(p) \in Nat
    OBVIOUS
  <1> QED
    BY <1>1, PrefixCut

(* What a path with one more name begins with. *)
LEMMA PrefixGrown ==
  ASSUME NEW S, NEW p \in Seq(S), NEW x \in S, NEW T, NEW a \in Seq(T), IsPrefix(a, Append(p, x))
  PROVE  IsPrefix(a, p) \/ a = Append(p, x)
  <1> DEFINE q == Append(p, x)
  <1>1. /\ q \in Seq(S) /\ Len(q) = Len(p) + 1 /\ Len(p) \in Nat /\ Len(a) \in Nat
        /\ \A i \in 1 .. Len(p) : q[i] = p[i]
    BY Grown
  <1>2. Len(a) <= Len(q) /\ SubSeq(q, 1, Len(a)) = a
    BY DEF IsPrefix
  <1> HIDE DEF q
  <1>3. CASE Len(a) = Len(q)
    <2>1. \A i \in 1 .. Len(q) : a[i] = q[i]
      BY <1>1, <1>2, <1>3, CutAt
    <2>2. a = q
      BY <1>1, <1>3, <2>1, SameSequence
    <2> QED
      BY <2>2 DEF q
  <1>4. CASE Len(a) # Len(q)
    <2> DEFINE la == Len(a)
               lp == Len(p)
    <2>1. la \in 0 .. lp /\ la \in 0 .. Len(q)
      <3>1. la <= lp + 1 /\ la # lp + 1 /\ la \in Nat /\ lp \in Nat /\ Len(q) = lp + 1
        BY <1>1, <1>2, <1>4
      <3> HIDE DEF la, lp
      <3> QED
        BY <3>1
    <2>2. \A i \in 1 .. Len(a) : a[i] = q[i]
      BY <1>1, <1>2, <2>1, CutAt
    <2>3. /\ SubSeq(p, 1, Len(a)) \in Seq(S) /\ Len(SubSeq(p, 1, Len(a))) = Len(a)
          /\ \A i \in 1 .. Len(a) : SubSeq(p, 1, Len(a))[i] = p[i]
      BY <2>1, CutAt
    <2>4. \A i \in 1 .. Len(a) : SubSeq(p, 1, Len(a))[i] = a[i]
      BY <1>1, <2>1, <2>2, <2>3
    <2>5. SubSeq(p, 1, Len(a)) = a
      BY <2>3, <2>4, SameSequence
    <2> QED
      <3>1. Len(a) <= Len(p)
        BY <1>1, <2>1
      <3> QED
        BY <2>5, <3>1 DEF IsPrefix
  <1> QED
    BY <1>3, <1>4

(* Beginning with is transitive. *)
LEMMA PrefixTrans ==
  ASSUME NEW S, NEW a \in Seq(S), NEW b \in Seq(S), NEW c \in Seq(S), IsPrefix(a, b), IsPrefix(b, c)
  PROVE  IsPrefix(a, c)
  <1>1. Len(a) \in Nat /\ Len(b) \in Nat /\ Len(c) \in Nat /\ Len(a) <= Len(b) /\ Len(b) <= Len(c)
    BY DEF IsPrefix
  <1>2. Len(a) \in 0 .. Len(b) /\ Len(a) \in 0 .. Len(c) /\ Len(b) \in 0 .. Len(c)
    BY <1>1
  <1>3. \A i \in 1 .. Len(a) : a[i] = b[i]
    BY <1>2, CutAt DEF IsPrefix
  <1>4. \A i \in 1 .. Len(b) : b[i] = c[i]
    BY <1>2, CutAt DEF IsPrefix
  <1>5. \A i \in 1 .. Len(a) : SubSeq(c, 1, Len(a))[i] = a[i]
    BY <1>1, <1>2, <1>3, <1>4, CutAt
  <1>6. SubSeq(c, 1, Len(a)) \in Seq(S) /\ Len(SubSeq(c, 1, Len(a))) = Len(a)
    BY <1>2, CutAt
  <1>7. SubSeq(c, 1, Len(a)) = a
    BY <1>5, <1>6, SameSequence
  <1> QED
    BY <1>1, <1>7 DEF IsPrefix

(* A path begins with its parent. *)
LEMMA ParentPrefix ==
  ASSUME NEW S, NEW p \in Seq(S)
  PROVE  IsPrefix(Parent(p), p)
  <1>1. CASE p = <<>>
    <2>1. Parent(p) = <<>>
      BY <1>1, ParentOf
    <2>2. SubSeq(p, 1, Len(p)) = p /\ Len(p) <= Len(p)
      OBVIOUS
    <2>3. IsPrefix(p, p)
      BY <2>2 DEF IsPrefix
    <2> QED
      BY <1>1, <2>1, <2>3
  <1>2. CASE p # <<>>
    <2>1. Len(Parent(p)) = Len(p) - 1 /\ Len(p) \in Nat
      BY <1>2, ParentOf
    <2> QED
      BY <2>1 DEF IsPrefix, Parent
  <1> QED
    BY <1>1, <1>2

(* Two sequences in a row begin with the first. *)
LEMMA PrefixJoined ==
  ASSUME NEW S, NEW s \in Seq(S), NEW t \in Seq(S)
  PROVE  IsPrefix(s, s \o t)
  <1> DEFINE w == s \o t
  <1>1. /\ w \in Seq(S) /\ Len(w) = Len(s) + Len(t) /\ Len(s) \in Nat /\ Len(t) \in Nat
        /\ \A i \in 1 .. Len(s) : w[i] = s[i]
    BY Concatenated
  <1> HIDE DEF w
  <1>2. Len(s) \in 0 .. Len(w) /\ Len(s) <= Len(w)
    BY <1>1
  <1>3. /\ SubSeq(w, 1, Len(s)) \in Seq(S) /\ Len(SubSeq(w, 1, Len(s))) = Len(s)
        /\ \A i \in 1 .. Len(s) : SubSeq(w, 1, Len(s))[i] = w[i]
    BY <1>1, <1>2, CutAt
  <1>4. \A i \in 1 .. Len(s) : SubSeq(w, 1, Len(s))[i] = s[i]
    BY <1>1, <1>3
  <1>5. SubSeq(w, 1, Len(s)) = s
    BY <1>3, <1>4, SameSequence
  <1>6. IsPrefix(s, w)
    BY <1>2, <1>5 DEF IsPrefix
  <1> QED
    BY <1>6 DEF w

(* Beginning with, name by name. *)
LEMMA PrefixByNames ==
  ASSUME NEW S, NEW s \in Seq(S), NEW p \in Seq(S), Len(s) <= Len(p),
         \A i \in 1 .. Len(s) : s[i] = p[i]
  PROVE  IsPrefix(s, p)
  <1>1. Len(s) \in 0 .. Len(p)
    OBVIOUS
  <1>2. /\ SubSeq(p, 1, Len(s)) \in Seq(S) /\ Len(SubSeq(p, 1, Len(s))) = Len(s)
        /\ \A i \in 1 .. Len(s) : SubSeq(p, 1, Len(s))[i] = p[i]
    BY <1>1, CutAt
  <1>3. \A i \in 1 .. Len(s) : SubSeq(p, 1, Len(s))[i] = s[i]
    BY <1>2
  <1>4. SubSeq(p, 1, Len(s)) = s
    BY <1>2, <1>3, SameSequence
  <1> QED
    BY <1>4 DEF IsPrefix

(* A path of names of a kind. *)
LEMMA ProperSequence ==
  ASSUME NEW p \in Path, NEW S, \A i \in 1 .. Len(p) : p[i] \in S
  PROVE  p \in Seq(S)
  <1>1. Len(p) \in Nat /\ p = [i \in 1 .. Len(p) |-> p[i]]
    BY DEF Path
  <1> QED
    BY <1>1

(* What is left of a path is of the same names. *)
LEMMA SuffixTyped ==
  ASSUME NEW S, NEW s \in Seq(S), NEW p \in Seq(S)
  PROVE  Suffix(s, p) \in Seq(S)
  <1>1. Len(s) \in Nat /\ Len(p) \in Nat
    OBVIOUS
  <1> QED
    BY <1>1 DEF Suffix

-----------------------------------------------------------------------------
(* One step, of the kernel and on the text. *)

(* A step of the kernel leads to a path. *)
LEMMA WalkTyped ==
  ASSUME NEW p \in Path, NEW name \in STRING
  PROVE  Walk(p, name) \in Path
  <1>1. Parent(p) \in Path
    BY ParentOf DEF Path
  <1>2. Append(p, name) \in Path
    BY Grown DEF Path
  <1> QED
    BY <1>1, <1>2 DEF Walk

(* Where the slashes at the end begin. *)
EndsAt(p, n) ==
  /\ n \in 0 .. Len(p)
  /\ n # 0 => p[n] # NoName
  /\ \A i \in 1 .. Len(p) : n < i => p[i] = NoName

(* There is one such place. *)
LEMMA EndsOnce ==
  ASSUME NEW p \in Path, NEW n, NEW m, EndsAt(p, n), EndsAt(p, m)
  PROVE  n = m
  <1>1. Len(p) \in Nat /\ n \in Nat /\ m \in Nat
    BY DEF Path, EndsAt
  <1>2. ~(n < m)
    BY <1>1 DEF EndsAt
  <1>3. ~(m < n)
    BY <1>1 DEF EndsAt
  <1> QED
    BY <1>1, <1>2, <1>3

(* Trimmed finds it. *)
LEMMA TrimmedAt ==
  ASSUME NEW p \in Path
  PROVE  \E n \in 0 .. Len(p) :
           /\ EndsAt(p, n) /\ Trimmed(p) = SubSeq(p, 1, n)
           /\ Trimmed(p) \in Path /\ Len(Trimmed(p)) = n
           /\ \A i \in 1 .. n : Trimmed(p)[i] = p[i]
  <1> DEFINE M == {n \in 0 .. Len(p) : \A i \in 1 .. Len(p) : n < i => p[i] = NoName}
             Ends(n) == /\ n # 0 => p[n] # NoName
                        /\ \A i \in n + 1 .. Len(p) : p[i] = NoName
  <1>1. Len(p) \in Nat
    BY DEF Path
  <1>2. PICK n \in M : \A m \in M : n <= m
    <2>1. M \subseteq Nat
      BY <1>1
    <2>2. \A i \in 1 .. Len(p) : ~(Len(p) < i)
      BY <1>1
    <2>3. Len(p) \in M
      BY <1>1, <2>2
    <2> HIDE DEF M
    <2> QED
      BY <2>1, <2>3, LeastNat
  <1>3. n \in 0 .. Len(p) /\ \A i \in 1 .. Len(p) : n < i => p[i] = NoName
    BY <1>2
  <1>4. n # 0 => p[n] # NoName
    <2> SUFFICES ASSUME n # 0, p[n] = NoName PROVE FALSE
      OBVIOUS
    <2>1. n - 1 \in 0 .. Len(p) /\ ~(n <= n - 1)
      BY <1>1, <1>3
    <2>2. \A i \in 1 .. Len(p) : n - 1 < i => i = n \/ n < i
      BY <1>1, <1>3
    <2>3. \A i \in 1 .. Len(p) : n - 1 < i => p[i] = NoName
      BY <1>3, <2>2
    <2>4. n - 1 \in M
      BY <2>1, <2>3
    <2> QED
      BY <1>2, <2>1, <2>4
  <1>5. \A m \in 0 .. Len(p) : Ends(m) <=> EndsAt(p, m)
    <2>1. \A m \in 0 .. Len(p) : \A i : i \in m + 1 .. Len(p) <=> i \in 1 .. Len(p) /\ m < i
      BY <1>1
    <2> QED
      BY <2>1 DEF EndsAt
  <1>6. PICK k \in 0 .. Len(p) : Ends(k) /\ Trimmed(p) = SubSeq(p, 1, k)
    <2>1. Trimmed(p) = SubSeq(p, 1, CHOOSE m \in 0 .. Len(p) : Ends(m))
      BY DEF Trimmed
    <2>2. Ends(n)
      BY <1>3, <1>4, <1>5 DEF EndsAt
    <2> HIDE DEF Ends
    <2> QED
      BY <1>3, <2>1, <2>2
  <1>7. SubSeq(p, 1, k) \in Path /\ Len(SubSeq(p, 1, k)) = k
        /\ \A i \in 1 .. k : SubSeq(p, 1, k)[i] = p[i]
    BY CutAt DEF Path
  <1> QED
    BY <1>5, <1>6, <1>7

(* What is left when it is known. *)
LEMMA TrimmedTo ==
  ASSUME NEW p \in Path, NEW n, EndsAt(p, n)
  PROVE  /\ Trimmed(p) = SubSeq(p, 1, n) /\ Trimmed(p) \in Path /\ Len(Trimmed(p)) = n
         /\ \A i \in 1 .. n : Trimmed(p)[i] = p[i]
  BY TrimmedAt, EndsOnce

(* A path that ends with a name has no slashes at its end. *)
LEMMA TrimmedNone ==
  ASSUME NEW p \in Path, p # <<>> => p[Len(p)] # NoName
  PROVE  Trimmed(p) = p
  <1>1. Len(p) \in Nat /\ (p # <<>> <=> Len(p) # 0)
    BY DEF Path
  <1>2. EndsAt(p, Len(p))
    BY <1>1 DEF EndsAt
  <1>3. Trimmed(p) \in Path /\ Len(Trimmed(p)) = Len(p)
        /\ \A i \in 1 .. Len(p) : Trimmed(p)[i] = p[i]
    BY <1>2, TrimmedTo
  <1> QED
    BY <1>3, SameSequence DEF Path

(* A path with a slash at its end. *)
LEMMA Slashed ==
  ASSUME NEW p \in Path
  PROVE  LET q == Append(p, NoName) IN
         /\ q \in Path /\ Len(p) \in Nat /\ Len(q) = Len(p) + 1 /\ q[Len(p) + 1] = NoName
         /\ \A i \in 1 .. Len(p) : q[i] = p[i]
  <1> DEFINE S == STRING
  <1>1. NoName \in S
    BY NamesFact
  <1>2. p \in Seq(S) /\ Path = Seq(S)
    BY DEF Path
  <1> HIDE DEF S
  <1>3. Len(p) \in Nat
    BY <1>2
  <1>4. /\ Append(p, NoName) \in Seq(S) /\ Len(Append(p, NoName)) = Len(p) + 1
        /\ Append(p, NoName)[Len(p) + 1] = NoName
        /\ \A i \in 1 .. Len(p) : Append(p, NoName)[i] = p[i]
    BY <1>1, <1>2, Grown
  <1> QED
    BY <1>2, <1>3, <1>4

(* One slash more at the end does not matter. *)
LEMMA TrimmedSlash ==
  ASSUME NEW p \in Path
  PROVE  Trimmed(Append(p, NoName)) = Trimmed(p)
  <1> DEFINE q == Append(p, NoName)
  <1>1. q \in Path /\ Len(q) = Len(p) + 1 /\ q[Len(p) + 1] = NoName /\ Len(p) \in Nat
        /\ \A i \in 1 .. Len(p) : q[i] = p[i]
    BY Slashed
  <1>2. PICK n \in 0 .. Len(p) :
           /\ EndsAt(p, n) /\ Trimmed(p) \in Path /\ Len(Trimmed(p)) = n
           /\ \A i \in 1 .. n : Trimmed(p)[i] = p[i]
    BY TrimmedAt
  <1> HIDE DEF q
  <1>3. EndsAt(q, n)
    <2>1. n \in 0 .. Len(q) /\ (n # 0 => n \in 1 .. Len(p))
      BY <1>1, <1>2
    <2>2. \A i \in 1 .. Len(q) : i \in 1 .. Len(p) \/ i = Len(p) + 1
      BY <1>1
    <2> QED
      BY <1>1, <1>2, <2>1, <2>2 DEF EndsAt
  <1>4. Trimmed(q) \in Path /\ Len(Trimmed(q)) = n
        /\ \A i \in 1 .. n : Trimmed(q)[i] = q[i]
    BY <1>1, <1>3, TrimmedTo
  <1>5. \A i \in 1 .. n : Trimmed(q)[i] = Trimmed(p)[i]
    BY <1>1, <1>2, <1>4
  <1>6. Trimmed(q) = Trimmed(p)
    BY <1>2, <1>4, <1>5, SameSequence DEF Path
  <1> QED
    BY <1>6 DEF q

(* A step on the text leads to a path. *)
LEMMA FurtherTyped ==
  ASSUME NEW p \in Path, NEW name \in STRING
  PROVE  Further(p, name) \in Path
  <1>1. Trimmed(p) \in Path
    BY TrimmedAt
  <1>2. Append(Trimmed(p), name) \in Path
    BY <1>1, Grown DEF Path
  <1>3. Parent(Trimmed(p)) \in Path
    BY <1>1, ParentOf DEF Path
  <1>4. Append(Parent(Trimmed(p)), NoName) \in Path
    BY <1>3, Slashed
  <1> QED
    BY <1>2, <1>3, <1>4 DEF Further

(* The kernel walks from name to name. *)
LEMMA ReachesStep ==
  ASSUME NEW from \in Path, NEW names \in Path
  PROVE  /\ Reaches(from, names) \in [0 .. Len(names) -> Path]
         /\ Reaches(from, names)[0] = from
         /\ \A i \in 1 .. Len(names) :
              Reaches(from, names)[i] = Followed(Walk(Reaches(from, names)[i - 1], names[i]))
  <1> DEFINE n == Len(names)
             R == Reaches(from, names)
             G == [i \in 1 .. n |-> [p \in Path |-> Followed(Walk(p, names[i]))]]
             Right(f) == f = [i \in 0 .. n |-> IF i = 0 THEN from
                                               ELSE Followed(Walk(f[i - 1], names[i]))]
  <1>1. n \in Nat /\ \A i \in 1 .. n : names[i] \in STRING
    BY DEF Path
  <1>2. ASSUME NEW p \in Path, NEW i \in 1 .. n PROVE Followed(Walk(p, names[i])) \in Path
    <2>1. ExternalPrimary \in Path
      <3>1. ExternalPrimary \in Seq(ProperName)
        BY PathsFact DEF PathsAssumption
      <3>2. ProperName \subseteq STRING
        BY DEF ProperName
      <3> QED
        BY <3>1, <3>2, Wider DEF Path
    <2> QED
      BY <1>1, <2>1, WalkTyped DEF Followed
  <1>3. G \in [1 .. n -> [Path -> Path]]
    BY <1>2
  <1>4. PICK f \in [0 .. n -> Path] : f = [i \in 0 .. n |-> IF i = 0 THEN from ELSE G[i][f[i - 1]]]
    <2> HIDE DEF G, n
    <2> QED
      BY <1>1, <1>3, StepsExist
  <1>5. \A i \in 1 .. n : G[i][f[i - 1]] = Followed(Walk(f[i - 1], names[i]))
    <2> SUFFICES ASSUME NEW i \in 1 .. n PROVE G[i][f[i - 1]] = Followed(Walk(f[i - 1], names[i]))
      OBVIOUS
    <2>1. f[i - 1] \in Path
      <3>1. i - 1 \in 0 .. n
        BY <1>1
      <3> HIDE DEF n
      <3> QED
        BY <1>4, <3>1
    <2> QED
      BY <2>1
  <1>6. Right(f)
    <2> HIDE DEF G
    <2> QED
      BY <1>4, <1>5
  <1>7. R = CHOOSE g : Right(g)
    BY DEF Reaches
  <1>8. Right(R)
    <2> HIDE DEF Right, R
    <2> QED
      BY <1>6, <1>7
  <1>9. \A i \in 0 .. n : R[i] = IF i = 0 THEN from ELSE Followed(Walk(R[i - 1], names[i]))
    <2> HIDE DEF R
    <2> QED
      BY <1>8
  <1>10. DOMAIN R = 0 .. n /\ R = [i \in 0 .. n |-> R[i]]
    <2> HIDE DEF R
    <2> QED
      BY <1>8
  <1> DEFINE D == {i \in 0 .. n : R[i] \in Path}
  <1>11. 0 .. n \subseteq D
    <2>1. 0 \in D
      BY <1>1, <1>9
    <2>2. \A i \in 0 .. n - 1 : i \in D => i + 1 \in D
      <3> SUFFICES ASSUME NEW i \in 0 .. n - 1, R[i] \in Path PROVE R[i + 1] \in Path
        BY <1>1
      <3>1. i + 1 \in 1 .. n /\ i + 1 - 1 = i /\ i + 1 # 0
        BY <1>1
      <3> HIDE DEF R, n
      <3>2. R[i + 1] = Followed(Walk(R[i], names[i + 1]))
        BY <1>9, <3>1
      <3> QED
        BY <1>2, <3>1, <3>2
    <2> HIDE DEF D, n
    <2> QED
      BY <1>1, <2>1, <2>2, Reaching
  <1>12. R \in [0 .. n -> Path]
    <2> HIDE DEF R
    <2> QED
      BY <1>10, <1>11
  <1> QED
    BY <1>1, <1>9, <1>12

(* And so does the text, for each of the results there may be. *)
LEMMA CollapsedStep ==
  ASSUME NEW names \in Path
  PROVE  /\ Collapsed(names) \in [0 .. Len(names) -> SUBSET Path]
         /\ Collapsed(names)[0] = {<<>>}
         /\ \A i \in 1 .. Len(names) :
              Collapsed(names)[i] = {p \in {Further(q, names[i]) : q \in Collapsed(names)[i - 1]} :
                                       Len(p) <= MaxNames}
  <1> DEFINE n == Len(names)
             R == Collapsed(names)
             F(Q, i) == {p \in {Further(q, names[i]) : q \in Q} : Len(p) <= MaxNames}
             G == [i \in 1 .. n |-> [Q \in SUBSET Path |-> F(Q, i)]]
             Right(f) == f = [i \in 0 .. n |-> IF i = 0 THEN {<<>>} ELSE F(f[i - 1], i)]
  <1>1. n \in Nat /\ \A i \in 1 .. n : names[i] \in STRING
    BY DEF Path
  <1>2. ASSUME NEW Q \in SUBSET Path, NEW i \in 1 .. n PROVE F(Q, i) \in SUBSET Path
    <2>1. \A q \in Q : Further(q, names[i]) \in Path
      BY <1>1, FurtherTyped
    <2> QED
      BY <2>1
  <1>3. G \in [1 .. n -> [SUBSET Path -> SUBSET Path]]
    BY <1>2
  <1>4. {<<>>} \in SUBSET Path
    BY DEF Path
  <1>5. PICK f \in [0 .. n -> SUBSET Path] :
               f = [i \in 0 .. n |-> IF i = 0 THEN {<<>>} ELSE G[i][f[i - 1]]]
    <2> DEFINE S == SUBSET Path
               a == {<<>>}
    <2>1. a \in S /\ G \in [1 .. n -> [S -> S]]
      BY <1>3, <1>4
    <2> HIDE DEF G, n, S, a
    <2>2. \E f \in [0 .. n -> S] : f = [i \in 0 .. n |-> IF i = 0 THEN a ELSE G[i][f[i - 1]]]
      BY <1>1, <2>1, StepsExist
    <2> QED
      BY <2>2 DEF S, a
  <1>6. \A i \in 1 .. n : G[i][f[i - 1]] = F(f[i - 1], i)
    <2> SUFFICES ASSUME NEW i \in 1 .. n PROVE G[i][f[i - 1]] = F(f[i - 1], i)
      OBVIOUS
    <2>1. f[i - 1] \in SUBSET Path
      <3>1. i - 1 \in 0 .. n
        BY <1>1
      <3> HIDE DEF n
      <3> QED
        BY <1>5, <3>1
    <2> HIDE DEF F
    <2> QED
      BY <2>1
  <1>7. Right(f)
    <2> HIDE DEF G, F, n
    <2>1. f = [i \in 0 .. n |-> IF i = 0 THEN {<<>>} ELSE G[i][f[i - 1]]]
      BY <1>5
    <2>2. \A i \in 0 .. n : i = 0 \/ i \in 1 .. n
      BY <1>1
    <2>3. \A i \in 0 .. n : (IF i = 0 THEN {<<>>} ELSE G[i][f[i - 1]])
                           = IF i = 0 THEN {<<>>} ELSE F(f[i - 1], i)
      BY <1>6, <2>2
    <2>4. f = [i \in 0 .. n |-> IF i = 0 THEN {<<>>} ELSE F(f[i - 1], i)]
      BY <2>1, <2>3, Zenon
    <2> QED
      BY <2>4
  <1>8. R = CHOOSE g : Right(g)
    BY DEF Collapsed
  <1>9. Right(R)
    <2> HIDE DEF Right, R
    <2> QED
      BY <1>7, <1>8
  <1>10. \A i \in 0 .. n : R[i] = IF i = 0 THEN {<<>>} ELSE F(R[i - 1], i)
    <2> HIDE DEF R, F
    <2> QED
      BY <1>9
  <1>11. DOMAIN R = 0 .. n /\ R = [i \in 0 .. n |-> R[i]]
    <2> HIDE DEF R
    <2> QED
      BY <1>9
  <1> DEFINE D == {i \in 0 .. n : R[i] \in SUBSET Path}
  <1>12. 0 .. n \subseteq D
    <2>1. 0 \in D
      <3>1. 0 \in 0 .. n
        BY <1>1
      <3> HIDE DEF R, F, n
      <3>2. R[0] = {<<>>}
        BY <1>10, <3>1
      <3> QED
        BY <1>4, <3>1, <3>2
    <2>2. \A i \in 0 .. n - 1 : i \in D => i + 1 \in D
      <3> SUFFICES ASSUME NEW i \in 0 .. n - 1, R[i] \in SUBSET Path PROVE R[i + 1] \in SUBSET Path
        BY <1>1
      <3>1. i + 1 \in 1 .. n /\ i + 1 \in 0 .. n /\ i + 1 - 1 = i /\ i + 1 # 0
        BY <1>1
      <3> HIDE DEF R, n, F
      <3>2. R[i + 1] = F(R[i], i + 1)
        BY <1>10, <3>1
      <3> QED
        BY <1>2, <3>1, <3>2
    <2> HIDE DEF D, n
    <2> QED
      BY <1>1, <2>1, <2>2, Reaching
  <1>13. R \in [0 .. n -> SUBSET Path]
    <2> HIDE DEF R
    <2> QED
      BY <1>11, <1>12
  <1> QED
    BY <1>1, <1>10, <1>13

-----------------------------------------------------------------------------
(* All steps: the text is read to where the kernel gets. *)

(* A path without dots and double slashes that comes by no alias. *)
Clean(p) == p \in Seq(ProperName) /\ \A a \in Aliases : ~IsPrefix(a, p)

(* Collapsed paths have one slash at the end, or none. *)
Shaped(p) == p = Trimmed(p) \/ p = Append(Trimmed(p), NoName)

(* The names that say nothing, or up, are not proper; others are. *)
LEMMA ProperFacts ==
  /\ NoName \notin ProperName
  /\ \A x \in ProperName : x \in STRING /\ x \notin NotDirectories /\ x # ".."
  /\ \A x \in STRING : x \in NotDirectories \/ x = ".." \/ x \in ProperName
  /\ NoName \in NotDirectories /\ NoName \in STRING
  BY NamesFact DEF ProperName, NotDirectories

(* A path of proper names has no slash at its end. *)
LEMMA ProperPath ==
  ASSUME NEW p \in Seq(ProperName)
  PROVE  p \in Path /\ Trimmed(p) = p
  <1>1. p \in Path
    BY ProperFacts, Wider DEF Path
  <1>2. ASSUME p # <<>> PROVE p[Len(p)] # NoName
    <2>1. Len(p) \in 1 .. Len(p)
      BY <1>2
    <2>2. p[Len(p)] \in ProperName
      BY <2>1
    <2> QED
      BY <2>2, ProperFacts
  <1> QED
    BY <1>1, <1>2, TrimmedNone

(* With one it is collapsed, too. *)
LEMMA TrimmedShape ==
  ASSUME NEW q \in Seq(ProperName)
  PROVE  /\ Trimmed(Append(q, NoName)) = q
         /\ Shaped(q) /\ Shaped(Append(q, NoName))
  <1>1. q \in Path /\ Trimmed(q) = q
    BY ProperPath
  <1> QED
    BY <1>1, TrimmedSlash DEF Shaped

(* A step on collapsed text is a step of the kernel. *)
LEMMA FurtherWalks ==
  ASSUME NEW p \in Path, NEW name \in STRING, Trimmed(p) \in Seq(ProperName), Shaped(p)
  PROVE  /\ Trimmed(Further(p, name)) = Walk(Trimmed(p), name)
         /\ Trimmed(Further(p, name)) \in Seq(ProperName)
         /\ Shaped(Further(p, name))
  <1> DEFINE q == Trimmed(p)
  <1>1. CASE name \in NotDirectories
    BY <1>1 DEF Further, Walk
  <1>2. CASE name \notin NotDirectories /\ name # ".."
    <2>1. name \in ProperName
      BY <1>2, ProperFacts
    <2>2. Append(q, name) \in Seq(ProperName)
      <3> HIDE DEF q
      <3>1. q \in Seq(ProperName)
        BY DEF q
      <3> QED
        BY <2>1, <3>1, Grown
    <2>3. Further(p, name) = Append(q, name) /\ Walk(q, name) = Append(q, name)
      BY <1>2 DEF Further, Walk
    <2> HIDE DEF q
    <2>4. Trimmed(Append(q, name)) = Append(q, name)
      BY <2>2, ProperPath
    <2> QED
      BY <2>2, <2>3, <2>4 DEF q, Shaped
  <1>3. CASE name \notin NotDirectories /\ name = ".."
    <2> DEFINE up == Parent(q)
    <2>1. up \in Seq(ProperName)
      BY ParentOf
    <2>2. Further(p, name) = IF up = <<>> THEN up ELSE Append(up, NoName)
      BY <1>3 DEF Further
    <2>3. Walk(q, name) = up
      BY <1>3 DEF Walk
    <2> HIDE DEF up
    <2>4. Trimmed(up) = up /\ Trimmed(Append(up, NoName)) = up /\ Shaped(up) /\ Shaped(Append(up, NoName))
      BY <2>1, ProperPath, TrimmedShape
    <2>5. Trimmed(Further(p, name)) = up /\ Shaped(Further(p, name))
      BY <2>2, <2>4
    <2> QED
      BY <2>1, <2>3, <2>5
  <1> QED
    BY <1>1, <1>2, <1>3

(* The paths of the storage. *)
LEMMA StoragePaths ==
  /\ ExternalPrimary \in Seq(ProperName) /\ ExternalPrimary # <<>>
  /\ \A a \in Aliases : a \in Seq(ProperName) /\ a # <<>>
  BY PathsFact DEF PathsAssumption

(* A step that does not get to an alias comes by none. *)
LEMMA CleanWalks ==
  ASSUME NEW q, Clean(q), NEW name \in STRING, Walk(q, name) \notin Aliases
  PROVE  Clean(Walk(q, name))
  <1>1. CASE name \in NotDirectories
    BY <1>1 DEF Walk
  <1>2. CASE name \notin NotDirectories /\ name # ".."
    <2>1. name \in ProperName /\ q \in Seq(ProperName)
      BY <1>2, ProperFacts DEF Clean
    <2>2. Walk(q, name) = Append(q, name)
      BY <1>2 DEF Walk
    <2>3. Append(q, name) \in Seq(ProperName)
      BY <2>1, Grown
    <2>4. ASSUME NEW a \in Aliases, IsPrefix(a, Append(q, name)) PROVE FALSE
      <3>1. a \in Seq(ProperName)
        BY StoragePaths
      <3>2. IsPrefix(a, q) \/ a = Append(q, name)
        BY <2>1, <2>4, <3>1, PrefixGrown
      <3> QED
        BY <2>2, <3>2 DEF Clean
    <2> QED
      BY <2>2, <2>3, <2>4 DEF Clean
  <1>3. CASE name \notin NotDirectories /\ name = ".."
    <2>1. Walk(q, name) = Parent(q) /\ q \in Seq(ProperName)
      BY <1>3 DEF Walk, Clean
    <2>2. Parent(q) \in Seq(ProperName) /\ IsPrefix(Parent(q), q)
      BY <2>1, ParentOf, ParentPrefix
    <2>3. ASSUME NEW a \in Aliases, IsPrefix(a, Parent(q)) PROVE FALSE
      <3>1. a \in Seq(ProperName)
        BY StoragePaths
      <3>2. IsPrefix(a, q)
        BY <2>1, <2>2, <2>3, <3>1, PrefixTrans
      <3> QED
        BY <3>2 DEF Clean
    <2> QED
      BY <2>1, <2>2, <2>3 DEF Clean
  <1> QED
    BY <1>1, <1>2, <1>3

(* What the text is collapsed to is where the kernel walks. *)
LEMMA ReadAsReached ==
  ASSUME NEW U \in Path,
         \A i \in 1 .. Len(U) : \A p \in Collapsed(U)[i] : Trimmed(p) \notin Aliases
  PROVE  \A i \in 0 .. Len(U) : \A p \in Collapsed(U)[i] :
           Shaped(p) /\ Clean(Trimmed(p)) /\ Trimmed(p) = Reaches(<<>>, U)[i]
  <1> DEFINE C == Collapsed(U)
             R == Reaches(<<>>, U)
             Right(i) == \A p \in C[i] : Shaped(p) /\ Clean(Trimmed(p)) /\ Trimmed(p) = R[i]
             D == {i \in 0 .. Len(U) : Right(i)}
  <1>1. Len(U) \in Nat /\ \A i \in 1 .. Len(U) : U[i] \in STRING
    BY DEF Path
  <1>2. /\ C \in [0 .. Len(U) -> SUBSET Path] /\ C[0] = {<<>>}
        /\ \A i \in 1 .. Len(U) : C[i] = {p \in {Further(q, U[i]) : q \in C[i - 1]} : Len(p) <= MaxNames}
    BY CollapsedStep
  <1>3. R[0] = <<>> /\ \A i \in 1 .. Len(U) : R[i] = Followed(Walk(R[i - 1], U[i]))
    <2>1. <<>> \in Path
      BY DEF Path
    <2> QED
      BY <2>1, ReachesStep
  <1> HIDE DEF C, R
  <1>4. 0 \in D
    <2>1. <<>> \in Seq(ProperName) /\ Len(<<>>) = 0
      OBVIOUS
    <2>2. Trimmed(<<>>) = <<>> /\ Shaped(<<>>)
      BY <2>1, ProperPath, TrimmedShape
    <2>3. \A a \in Aliases : ~IsPrefix(a, <<>>)
      <3> SUFFICES ASSUME NEW a \in Aliases, IsPrefix(a, <<>>) PROVE FALSE
        OBVIOUS
      <3>1. a \in Seq(ProperName) /\ a # <<>>
        BY StoragePaths
      <3>2. Len(a) <= 0
        BY <2>1 DEF IsPrefix
      <3> QED
        BY <3>1, <3>2
    <2>4. 0 \in 0 .. Len(U)
      BY <1>1
    <2> QED
      BY <1>2, <1>3, <2>1, <2>2, <2>3, <2>4 DEF Clean
  <1>5. ASSUME NEW i \in 0 .. Len(U) - 1, i \in D PROVE i + 1 \in D
    <2>1. i + 1 \in 1 .. Len(U) /\ i + 1 \in 0 .. Len(U) /\ i + 1 - 1 = i /\ i \in 0 .. Len(U)
      BY <1>1
    <2>2. U[i + 1] \in STRING
      BY <1>1, <2>1
    <2>3. ASSUME NEW p \in C[i + 1] PROVE Shaped(p) /\ Clean(Trimmed(p)) /\ Trimmed(p) = R[i + 1]
      <3>1. PICK q \in C[i] : p = Further(q, U[i + 1])
        BY <1>2, <2>1
      <3>2. q \in Path
        BY <1>2, <2>1
      <3>3. Shaped(q) /\ Clean(Trimmed(q)) /\ Trimmed(q) = R[i]
        BY <1>5
      <3>4. Trimmed(p) = Walk(Trimmed(q), U[i + 1]) /\ Shaped(p)
        BY <2>2, <3>1, <3>2, <3>3, FurtherWalks DEF Clean
      <3>5. Trimmed(p) \notin Aliases
        BY <2>1 DEF C
      <3>6. Clean(Trimmed(p))
        BY <2>2, <3>3, <3>4, <3>5, CleanWalks
      <3>7. R[i + 1] = Followed(Walk(R[i], U[i + 1]))
        BY <1>3, <2>1
      <3>8. R[i + 1] = Trimmed(p)
        BY <3>3, <3>4, <3>5, <3>7 DEF Followed
      <3> QED
        BY <3>4, <3>6, <3>8
    <2> QED
      BY <2>1, <2>3
  <1>6. 0 .. Len(U) \subseteq D
    <2> HIDE DEF D
    <2> QED
      BY <1>1, <1>4, <1>5, Reaching
  <1> QED
    BY <1>6 DEF C, R

(* There is one, or none if the buffer was full. *)
LEMMA CollapsedOnce ==
  ASSUME NEW U \in Path
  PROVE  \A i \in 0 .. Len(U) : \A p, q \in Collapsed(U)[i] : p = q
  <1> DEFINE C == Collapsed(U)
             D == {i \in 0 .. Len(U) : \A p, q \in C[i] : p = q}
  <1>1. Len(U) \in Nat
    BY DEF Path
  <1>2. /\ C[0] = {<<>>}
        /\ \A i \in 1 .. Len(U) : C[i] = {p \in {Further(q, U[i]) : q \in C[i - 1]} : Len(p) <= MaxNames}
    BY CollapsedStep
  <1> HIDE DEF C
  <1>3. 0 \in D
    BY <1>1, <1>2
  <1>4. ASSUME NEW i \in 0 .. Len(U) - 1, i \in D PROVE i + 1 \in D
    <2>1. i + 1 \in 1 .. Len(U) /\ i + 1 \in 0 .. Len(U) /\ i + 1 - 1 = i
      BY <1>1
    <2>2. C[i + 1] = {p \in {Further(q, U[i + 1]) : q \in C[i]} : Len(p) <= MaxNames}
      BY <1>2, <2>1
    <2> QED
      BY <1>4, <2>1, <2>2
  <1>5. 0 .. Len(U) \subseteq D
    <2> HIDE DEF D
    <2> QED
      BY <1>1, <1>3, <1>4, Reaching
  <1> QED
    BY <1>5 DEF C

(* The kernel goes on from where it got to. *)
LEMMA ReachedOn ==
  ASSUME NEW from \in Path, NEW s \in Path, NEW t \in Path
  PROVE  Reached(from, s) \in Path /\ s \o t \in Path
         /\ Reached(from, s \o t) = Reached(Reached(from, s), t)
  <1> DEFINE w == s \o t
             A == Reaches(from, s)
             W == Reaches(from, w)
             mid == Reached(from, s)
             B == Reaches(mid, t)
             D == {i \in 0 .. Len(s) : W[i] = A[i]}
             E == {i \in 0 .. Len(t) : W[Len(s) + i] = B[i]}
  <1>1. /\ w \in Path /\ Len(w) = Len(s) + Len(t) /\ Len(s) \in Nat /\ Len(t) \in Nat
        /\ \A i \in 1 .. Len(s) : w[i] = s[i]
        /\ \A i \in 1 .. Len(t) : w[Len(s) + i] = t[i]
    BY Concatenated DEF Path
  <1>2. /\ A \in [0 .. Len(s) -> Path] /\ A[0] = from
        /\ \A i \in 1 .. Len(s) : A[i] = Followed(Walk(A[i - 1], s[i]))
    BY ReachesStep
  <1> HIDE DEF w
  <1>3. /\ W[0] = from /\ \A i \in 1 .. Len(w) : W[i] = Followed(Walk(W[i - 1], w[i]))
    BY <1>1, ReachesStep
  <1>4. mid \in Path /\ mid = A[Len(s)]
    <2>1. mid = A[Len(s)]
      BY DEF Reached
    <2>2. Len(s) \in 0 .. Len(s)
      BY <1>1
    <2> HIDE DEF mid, A
    <2> QED
      BY <1>2, <2>1, <2>2
  <1> HIDE DEF mid
  <1>5. /\ B[0] = mid /\ \A i \in 1 .. Len(t) : B[i] = Followed(Walk(B[i - 1], t[i]))
    BY <1>4, ReachesStep
  <1> HIDE DEF A, W, B
  <1>6. 0 .. Len(s) \subseteq D
    <2>1. 0 \in D
      BY <1>1, <1>2, <1>3
    <2>2. ASSUME NEW i \in 0 .. Len(s) - 1, i \in D PROVE i + 1 \in D
      <3>1. i + 1 \in 1 .. Len(s) /\ i + 1 \in 1 .. Len(w) /\ i + 1 - 1 = i /\ i + 1 \in 0 .. Len(s)
        BY <1>1
      <3>2. W[i + 1] = Followed(Walk(W[i], w[i + 1])) /\ A[i + 1] = Followed(Walk(A[i], s[i + 1]))
        BY <1>2, <1>3, <3>1
      <3>3. w[i + 1] = s[i + 1] /\ W[i] = A[i]
        BY <1>1, <2>2, <3>1
      <3> QED
        BY <3>1, <3>2, <3>3
    <2> HIDE DEF D
    <2> QED
      BY <1>1, <2>1, <2>2, Reaching
  <1>7. 0 .. Len(t) \subseteq E
    <2>1. 0 \in E
      <3>1. Len(s) + 0 = Len(s) /\ Len(s) \in 0 .. Len(s) /\ 0 \in 0 .. Len(t)
        BY <1>1
      <3>2. W[Len(s)] = A[Len(s)]
        BY <1>6, <3>1
      <3>3. W[Len(s) + 0] = B[0]
        BY <1>4, <1>5, <3>1, <3>2
      <3> QED
        BY <3>1, <3>3
    <2>2. ASSUME NEW i \in 0 .. Len(t) - 1, i \in E PROVE i + 1 \in E
      <3> DEFINE j == Len(s) + i
      <3>1. /\ i + 1 \in 1 .. Len(t) /\ i + 1 - 1 = i /\ i + 1 \in 0 .. Len(t)
            /\ Len(s) + (i + 1) \in 1 .. Len(w) /\ Len(s) + (i + 1) - 1 = j
        BY <1>1
      <3>2. W[Len(s) + (i + 1)] = Followed(Walk(W[j], w[Len(s) + (i + 1)]))
        BY <1>3, <3>1
      <3>3. B[i + 1] = Followed(Walk(B[i], t[i + 1]))
        BY <1>5, <3>1
      <3>4. w[Len(s) + (i + 1)] = t[i + 1] /\ W[j] = B[i]
        BY <1>1, <2>2, <3>1
      <3> QED
        BY <3>1, <3>2, <3>3, <3>4
    <2> HIDE DEF E
    <2> QED
      BY <1>1, <2>1, <2>2, Reaching
  <1>8. W[Len(s) + Len(t)] = B[Len(t)]
    BY <1>1, <1>7
  <1>9. Reached(from, w) = W[Len(w)] /\ Reached(mid, t) = B[Len(t)]
    BY DEF Reached, W, B
  <1> QED
    BY <1>1, <1>4, <1>8, <1>9 DEF w, mid

-----------------------------------------------------------------------------
(* Paths that are written plainly. *)

(* A path that begins with k plain names, and goes on with none. *)
PlainTo(w, k) ==
  /\ w \in Path /\ k \in 0 .. Len(w)
  /\ SubSeq(w, 1, k) \in Seq(ProperName)
  /\ \A j \in 1 .. Len(w) : k < j => w[j] \in NotDirectories

(* Each of its plain beginnings. *)
LEMMA PlainNames ==
  ASSUME NEW w, NEW k, PlainTo(w, k), NEW i \in 0 .. k
  PROVE  /\ Len(w) \in Nat /\ k \in 0 .. Len(w) /\ i \in 0 .. Len(w)
         /\ SubSeq(w, 1, i) \in Seq(ProperName) /\ Len(SubSeq(w, 1, i)) = i
         /\ IsPrefix(SubSeq(w, 1, i), SubSeq(w, 1, k))
         /\ i < k => /\ i + 1 \in 1 .. k /\ w[i + 1] \in ProperName
                     /\ SubSeq(w, 1, i + 1) = Append(SubSeq(w, 1, i), w[i + 1])
  <1> DEFINE t == SubSeq(w, 1, k)
  <1>1. w \in Path /\ k \in 0 .. Len(w) /\ t \in Seq(ProperName) /\ Len(w) \in Nat
    BY DEF PlainTo, Path
  <1>2. Len(t) = k /\ \A j \in 1 .. k : t[j] = w[j]
    BY <1>1, CutAt DEF Path
  <1>3. SubSeq(t, 1, i) = SubSeq(w, 1, i)
    BY <1>1, CutCut DEF Path
  <1> HIDE DEF t
  <1>4. SubSeq(t, 1, i) \in Seq(ProperName) /\ Len(SubSeq(t, 1, i)) = i
        /\ IsPrefix(SubSeq(t, 1, i), t)
    BY <1>1, <1>2, CutAt, PrefixCut
  <1>5. ASSUME i < k PROVE i + 1 \in 1 .. k /\ w[i + 1] \in ProperName
                           /\ SubSeq(w, 1, i + 1) = Append(SubSeq(w, 1, i), w[i + 1])
    <2>1. i + 1 \in 1 .. k /\ i \in 0 .. Len(w) - 1
      BY <1>1, <1>5
    <2>2. t[i + 1] \in ProperName
      BY <1>1, <1>2, <2>1
    <2>3. SubSeq(w, 1, i + 1) = Append(SubSeq(w, 1, i), w[i + 1])
      BY <1>1, <2>1, CutFurther DEF Path
    <2> QED
      BY <1>2, <2>1, <2>2, <2>3
  <1>6. i \in 0 .. Len(w)
    BY <1>1
  <1> QED
    BY <1>1, <1>3, <1>4, <1>5, <1>6 DEF t

(* No alias is above a path that comes by none. *)
LEMMA NoAliasAbove ==
  ASSUME NEW p \in Seq(ProperName), Clean(p), NEW q \in Seq(ProperName), IsPrefix(q, p)
  PROVE  Clean(q) /\ q \notin Aliases
  <1>1. ASSUME NEW a \in Aliases, IsPrefix(a, q) PROVE FALSE
    <2>1. a \in Seq(ProperName)
      BY StoragePaths
    <2>2. IsPrefix(a, p)
      BY <1>1, <2>1, PrefixTrans
    <2> QED
      BY <2>2 DEF Clean
  <1>2. q \notin Aliases
    BY DEF Clean
  <1> QED
    BY <1>1, <1>2 DEF Clean

(* The kernel walks down plain names that no alias is among. *)
LEMMA PlainReaches ==
  ASSUME NEW w, NEW k, PlainTo(w, k), Clean(SubSeq(w, 1, k))
  PROVE  \A i \in 0 .. Len(w) : Reaches(<<>>, w)[i] = SubSeq(w, 1, IF i <= k THEN i ELSE k)
  <1> DEFINE R == Reaches(<<>>, w)
             At(i) == SubSeq(w, 1, IF i <= k THEN i ELSE k)
             D == {i \in 0 .. Len(w) : R[i] = At(i)}
  <1>1. w \in Path /\ Len(w) \in Nat /\ k \in 0 .. Len(w)
    BY DEF PlainTo, Path
  <1>2. R[0] = <<>> /\ \A i \in 1 .. Len(w) : R[i] = Followed(Walk(R[i - 1], w[i]))
    <2>1. <<>> \in Path
      BY DEF Path
    <2> QED
      BY <1>1, <2>1, ReachesStep
  <1> HIDE DEF R
  <1>3. 0 \in D
    <2>1. 0 \in 0 .. Len(w) /\ At(0) = SubSeq(w, 1, 0)
      BY <1>1
    <2>2. SubSeq(w, 1, 0) = <<>>
      <3>1. SubSeq(w, 1, 0) \in Seq(STRING) /\ Len(SubSeq(w, 1, 0)) = 0
        BY <1>1, CutAt DEF Path
      <3> QED
        BY <3>1
    <2> QED
      BY <1>2, <2>1, <2>2
  <1>4. ASSUME NEW i \in 0 .. Len(w) - 1, i \in D PROVE i + 1 \in D
    <2>1. i + 1 \in 1 .. Len(w) /\ i + 1 \in 0 .. Len(w) /\ i + 1 - 1 = i
      BY <1>1
    <2>2. R[i + 1] = Followed(Walk(R[i], w[i + 1]))
      BY <1>2, <2>1
    <2>3. CASE i < k
      <3>1. i \in 0 .. k /\ i + 1 \in 0 .. k /\ i <= k /\ i + 1 <= k
        BY <1>1, <2>3
      <3>2. R[i] = SubSeq(w, 1, i)
        BY <1>4, <3>1
      <3>3. w[i + 1] \in ProperName /\ SubSeq(w, 1, i + 1) = Append(SubSeq(w, 1, i), w[i + 1])
        BY <2>3, <3>1, PlainNames
      <3>4. Walk(SubSeq(w, 1, i), w[i + 1]) = SubSeq(w, 1, i + 1)
        BY <3>3, ProperFacts DEF Walk
      <3>5. /\ SubSeq(w, 1, i + 1) \in Seq(ProperName) /\ SubSeq(w, 1, k) \in Seq(ProperName)
            /\ IsPrefix(SubSeq(w, 1, i + 1), SubSeq(w, 1, k))
        BY <3>1, PlainNames DEF Clean
      <3>6. SubSeq(w, 1, i + 1) \notin Aliases
        BY <3>5, NoAliasAbove
      <3>7. R[i + 1] = SubSeq(w, 1, i + 1)
        BY <2>2, <3>2, <3>4, <3>6 DEF Followed
      <3> QED
        BY <2>1, <3>1, <3>7
    <2>4. CASE ~(i < k)
      <3>1. w[i + 1] \in NotDirectories
        BY <1>1, <2>1, <2>4 DEF PlainTo
      <3>2. (IF i <= k THEN i ELSE k) = k /\ (IF i + 1 <= k THEN i + 1 ELSE k) = k
        BY <1>1, <2>4
      <3>3. R[i] = SubSeq(w, 1, k)
        BY <1>4, <3>2
      <3>4. Walk(R[i], w[i + 1]) = SubSeq(w, 1, k)
        BY <3>1, <3>3 DEF Walk
      <3>5. SubSeq(w, 1, k) \in Seq(ProperName) /\ IsPrefix(SubSeq(w, 1, k), SubSeq(w, 1, k))
        <4>1. k \in 0 .. k
          BY <1>1
        <4> QED
          BY <4>1, PlainNames
      <3>6. SubSeq(w, 1, k) \notin Aliases
        BY <3>5, NoAliasAbove
      <3>7. R[i + 1] = SubSeq(w, 1, k)
        BY <2>2, <3>4, <3>6 DEF Followed
      <3> QED
        BY <2>1, <3>2, <3>7
    <2> QED
      BY <2>3, <2>4
  <1>5. 0 .. Len(w) \subseteq D
    <2> HIDE DEF D
    <2> QED
      BY <1>1, <1>3, <1>4, Reaching
  <1> QED
    BY <1>5 DEF R

(* And so is the text collapsed, if they fit. *)
LEMMA PlainCollapses ==
  ASSUME NEW w, NEW k, PlainTo(w, k), k <= MaxNames
  PROVE  Collapse(w) = {SubSeq(w, 1, k)}
  <1> DEFINE C == Collapsed(w)
             At(i) == SubSeq(w, 1, IF i <= k THEN i ELSE k)
             D == {i \in 0 .. Len(w) : C[i] = {At(i)}}
  <1>1. w \in Path /\ Len(w) \in Nat /\ k \in 0 .. Len(w) /\ MaxNames \in Nat
    BY PathsFact DEF PlainTo, Path, PathsAssumption
  <1>2. /\ C[0] = {<<>>}
        /\ \A i \in 1 .. Len(w) : C[i] = {p \in {Further(q, w[i]) : q \in C[i - 1]} : Len(p) <= MaxNames}
    BY <1>1, CollapsedStep
  <1> HIDE DEF C
  <1>3. 0 \in D
    <2>1. 0 \in 0 .. Len(w) /\ At(0) = SubSeq(w, 1, 0)
      BY <1>1
    <2>2. SubSeq(w, 1, 0) = <<>>
      <3>1. SubSeq(w, 1, 0) \in Seq(STRING) /\ Len(SubSeq(w, 1, 0)) = 0
        BY <1>1, CutAt DEF Path
      <3> QED
        BY <3>1
    <2> QED
      BY <1>2, <2>1, <2>2
  <1>4. ASSUME NEW i \in 0 .. Len(w) - 1, i \in D PROVE i + 1 \in D
    <2>1. i + 1 \in 1 .. Len(w) /\ i + 1 \in 0 .. Len(w) /\ i + 1 - 1 = i
      BY <1>1
    <2>2. C[i + 1] = {p \in {Further(q, w[i + 1]) : q \in C[i]} : Len(p) <= MaxNames}
      BY <1>2, <2>1
    <2>3. ASSUME NEW p, NEW q, C[i] = {q}, Further(q, w[i + 1]) = p, Len(p) <= MaxNames, p = At(i + 1)
          PROVE  i + 1 \in D
      <3>1. C[i + 1] = {p}
        BY <2>2, <2>3
      <3> HIDE DEF At
      <3> QED
        BY <2>1, <2>3, <3>1
    <2>4. CASE i < k
      <3>1. i \in 0 .. k /\ i + 1 \in 0 .. k /\ i <= k /\ i + 1 <= k
        BY <1>1, <2>4
      <3>2. C[i] = {SubSeq(w, 1, i)}
        BY <1>4, <3>1
      <3>3. w[i + 1] \in ProperName /\ SubSeq(w, 1, i + 1) = Append(SubSeq(w, 1, i), w[i + 1])
            /\ SubSeq(w, 1, i) \in Seq(ProperName)
        BY <2>4, <3>1, PlainNames
      <3>4. Trimmed(SubSeq(w, 1, i)) = SubSeq(w, 1, i)
        BY <3>3, ProperPath
      <3>5. Further(SubSeq(w, 1, i), w[i + 1]) = SubSeq(w, 1, i + 1)
        BY <3>3, <3>4, ProperFacts DEF Further
      <3>6. Len(SubSeq(w, 1, i + 1)) = i + 1
        BY <3>1, PlainNames
      <3>7. i + 1 <= MaxNames
        BY <1>1, <3>1
      <3>8. At(i + 1) = SubSeq(w, 1, i + 1)
        BY <3>1
      <3> QED
        BY <2>3, <3>2, <3>5, <3>6, <3>7, <3>8
    <2>5. CASE ~(i < k)
      <3>1. w[i + 1] \in NotDirectories
        BY <1>1, <2>1, <2>5 DEF PlainTo
      <3>2. (IF i <= k THEN i ELSE k) = k /\ (IF i + 1 <= k THEN i + 1 ELSE k) = k
        BY <1>1, <2>5
      <3>3. C[i] = {SubSeq(w, 1, k)}
        BY <1>4, <3>2
      <3>4. Further(SubSeq(w, 1, k), w[i + 1]) = SubSeq(w, 1, k)
        BY <3>1 DEF Further
      <3>5. Len(SubSeq(w, 1, k)) = k
        <4>1. k \in 0 .. k
          BY <1>1
        <4> QED
          BY <4>1, PlainNames
      <3>6. At(i + 1) = SubSeq(w, 1, k)
        BY <3>2
      <3> QED
        BY <2>3, <3>3, <3>4, <3>5, <3>6
    <2> QED
      BY <2>4, <2>5
  <1>5. 0 .. Len(w) \subseteq D
    <2> HIDE DEF D
    <2> QED
      BY <1>1, <1>3, <1>4, Reaching
  <1>6. Len(w) \in 0 .. Len(w) /\ At(Len(w)) = SubSeq(w, 1, k)
    <2>1. IF Len(w) <= k THEN Len(w) = k ELSE TRUE
      BY <1>1
    <2> QED
      BY <1>1, <2>1
  <1>7. C[Len(w)] = {SubSeq(w, 1, k)}
    <2> HIDE DEF At
    <2> QED
      BY <1>5, <1>6
  <1> QED
    BY <1>7 DEF Collapse, C

(* Collapsed once, a path is collapsed: only a slash at its end is left.   *)
LEMMA ShapedPlain ==
  ASSUME NEW p \in Path, Shaped(p), Trimmed(p) \in Seq(ProperName)
  PROVE  /\ PlainTo(p, Len(Trimmed(p))) /\ SubSeq(p, 1, Len(Trimmed(p))) = Trimmed(p)
         /\ Len(Trimmed(p)) \in Nat /\ Len(Trimmed(p)) <= Len(p) /\ Len(p) \in Nat
  <1> DEFINE q == Trimmed(p)
             k == Len(q)
  <1>1. PICK n \in 0 .. Len(p) :
           /\ EndsAt(p, n) /\ Trimmed(p) = SubSeq(p, 1, n) /\ Len(Trimmed(p)) = n
    BY TrimmedAt
  <1>2. Len(p) \in Nat
    BY DEF Path
  <1>3. \A j \in 1 .. Len(p) : n < j => p[j] \in NotDirectories
    BY <1>1, ProperFacts DEF EndsAt
  <1> QED
    BY <1>1, <1>2, <1>3 DEF PlainTo

(* A path without dots and aliases leads to itself. *)
LEMMA CleanReached ==
  ASSUME NEW d, Clean(d)
  PROVE  d \in Path /\ Reached(<<>>, d) = d
  <1>1. d \in Seq(ProperName) /\ d \in Path
    BY ProperPath DEF Clean
  <1>2. SubSeq(d, 1, Len(d)) = d /\ Len(d) \in Nat
    BY <1>1, WholePrefix
  <1>3. PlainTo(d, Len(d))
    <2>1. Len(d) \in 0 .. Len(d) /\ \A j \in 1 .. Len(d) : ~(Len(d) < j)
      BY <1>2
    <2> QED
      BY <1>1, <1>2, <2>1 DEF PlainTo
  <1>4. \A i \in 0 .. Len(d) : Reaches(<<>>, d)[i] = SubSeq(d, 1, IF i <= Len(d) THEN i ELSE Len(d))
    BY <1>2, <1>3, PlainReaches
  <1>5. Reaches(<<>>, d)[Len(d)] = SubSeq(d, 1, Len(d))
    BY <1>2, <1>4
  <1> QED
    BY <1>1, <1>2, <1>5 DEF Reached

(* /storage/emulated/0 is such a path: no alias is above it. *)
LEMMA PrimaryClean == Clean(ExternalPrimary)
  <1>1. ExternalPrimary \in Seq(ProperName)
    BY StoragePaths
  <1>2. \A a \in Aliases : ~IsPrefix(a, ExternalPrimary)
    BY PathsFact DEF PathsAssumption
  <1> QED
    BY <1>1, <1>2 DEF Clean

(* An alias leads to the storage. *)
LEMMA AliasReached ==
  ASSUME NEW a \in Aliases
  PROVE  a \in Path /\ Reached(<<>>, a) = ExternalPrimary
  <1>1. a \in Seq(ProperName) /\ a # <<>> /\ a \in Path
    BY StoragePaths, ProperPath
  <1> DEFINE n == Len(a)
             d == Parent(a)
             last == a[n]
  <1>2. n \in Nat /\ n >= 1 /\ n \in 1 .. n /\ n - 1 \in 0 .. n - 1 /\ n - 1 + 1 = n /\ n - 1 \in 0 .. n
    BY <1>1
  <1>3. last \in ProperName
    BY <1>1, <1>2
  <1>4. d = SubSeq(a, 1, n - 1) /\ d \in Seq(ProperName) /\ IsPrefix(d, a) /\ Len(d) = n - 1
    BY <1>1, ParentOf, ParentPrefix DEF Parent
  <1>5. SubSeq(a, 1, n) = a
    BY <1>1, WholePrefix
  <1>6. Append(d, last) = a
    <2>1. SubSeq(a, 1, n - 1 + 1) = Append(SubSeq(a, 1, n - 1), a[n - 1 + 1])
      BY <1>1, <1>2, CutFurther
    <2> QED
      BY <1>2, <1>4, <1>5, <2>1
  <1>7. Clean(d)
    <2>1. ASSUME NEW b \in Aliases, IsPrefix(b, d) PROVE FALSE
      <3>1. b \in Seq(ProperName)
        BY StoragePaths
      <3>2. IsPrefix(b, a)
        BY <1>1, <1>4, <2>1, <3>1, PrefixTrans
      <3>3. b = a
        BY <3>2, PathsFact DEF PathsAssumption
      <3>4. Len(a) <= Len(d)
        BY <2>1, <3>3 DEF IsPrefix
      <3> QED
        BY <1>2, <1>4, <3>4
    <2> QED
      BY <1>4, <2>1 DEF Clean
  <1> DEFINE one == <<last>>
  <1>8. last \in STRING
    BY <1>3, ProperFacts
  <1>9. one \in Path /\ Len(one) = 1 /\ one[1] = last
    BY <1>8 DEF Path
  <1>10. d \o one = a
    <2>1. d \o one = Append(d, last)
      BY <1>3, <1>4
    <2> QED
      BY <1>6, <2>1
  <1> HIDE DEF n, d, last, one
  <1>11. d \in Path /\ Reached(<<>>, d) = d
    BY <1>7, CleanReached
  <1>12. <<>> \in Path
    BY DEF Path
  <1>13. Reached(<<>>, a) = Reached(d, one)
    <2>1. Reached(<<>>, d \o one) = Reached(Reached(<<>>, d), one)
      BY <1>9, <1>11, <1>12, ReachedOn
    <2> QED
      BY <1>10, <1>11, <2>1
  <1>14. Reached(d, one) = Followed(Walk(d, last))
    <2>1. Reaches(d, one)[0] = d /\ \A i \in 1 .. Len(one) :
            Reaches(d, one)[i] = Followed(Walk(Reaches(d, one)[i - 1], one[i]))
      BY <1>9, <1>11, ReachesStep
    <2>2. Reaches(d, one)[1] = Followed(Walk(d, last))
      <3>1. 1 \in 1 .. Len(one) /\ 1 - 1 = 0
        BY <1>9
      <3> QED
        BY <1>9, <2>1, <3>1
    <2> QED
      BY <1>9, <2>2 DEF Reached
  <1>15. Walk(d, last) = a
    BY <1>3, <1>6, ProperFacts DEF Walk
  <1> QED
    BY <1>1, <1>13, <1>14, <1>15 DEF Followed

(* The text with its alias replaced leads where the path leads. *)
LEMMA UnaliasedReached ==
  ASSUME NEW w \in Path
  PROVE  Unaliased(w) \in Path /\ Reached(<<>>, Unaliased(w)) = Reached(<<>>, w)
  <1>1. CASE ~\E a \in Aliases : IsPrefix(a, w)
    BY <1>1 DEF Unaliased
  <1>2. CASE \E a \in Aliases : IsPrefix(a, w)
    <2> DEFINE a == CHOOSE b \in Aliases : IsPrefix(b, w)
    <2>1. a \in Aliases /\ IsPrefix(a, w)
      BY <1>2
    <2>2. Unaliased(w) = ExternalPrimary \o Suffix(a, w)
      BY <1>2 DEF Unaliased
    <2> HIDE DEF a
    <2>3. a \in Path /\ Reached(<<>>, a) = ExternalPrimary
      BY <2>1, AliasReached
    <2>4. Suffix(a, w) \in Path /\ w = a \o Suffix(a, w)
      BY <2>1, <2>3, SuffixOf DEF Path
    <2>5. ExternalPrimary \in Path /\ Reached(<<>>, ExternalPrimary) = ExternalPrimary
      BY PrimaryClean, CleanReached
    <2>6. <<>> \in Path
      BY DEF Path
    <2>7. Reached(<<>>, w) = Reached(ExternalPrimary, Suffix(a, w))
      <3>1. Reached(<<>>, a \o Suffix(a, w)) = Reached(Reached(<<>>, a), Suffix(a, w))
        BY <2>3, <2>4, <2>6, ReachedOn
      <3> QED
        BY <2>3, <2>4, <3>1
    <2>8. /\ ExternalPrimary \o Suffix(a, w) \in Path
          /\ Reached(<<>>, ExternalPrimary \o Suffix(a, w)) = Reached(ExternalPrimary, Suffix(a, w))
      BY <2>4, <2>5, <2>6, ReachedOn
    <2> QED
      BY <2>2, <2>7, <2>8
  <1> QED
    BY <1>1, <1>2

-----------------------------------------------------------------------------
(* Where what is written leads. *)

(* A collapsed path is what the kernel reaches by the text it was made of. *)
IsLead(p, to) ==
  /\ p \in Path /\ Shaped(p) /\ Clean(Trimmed(p)) /\ Len(p) <= MaxNames
  /\ Trimmed(p) = to

(* What fm_collapse_absolute_path makes of the text of a path leads where  *)
(* the kernel is led by the path: reading dots, double slashes and an      *)
(* alias at the front off the text goes nowhere else, unless it comes by   *)
(* an alias later.                                                         *)
THEOREM CollapseLeads ==
  ASSUME NEW w \in Path, NoAliasLater(w), NEW p \in Collapse(Unaliased(w))
  PROVE  IsLead(p, Reached(<<>>, w)) /\ Collapse(Unaliased(w)) = {p}
  <1> DEFINE U == Unaliased(w)
  <1>1. U \in Path /\ Reached(<<>>, U) = Reached(<<>>, w)
    BY UnaliasedReached
  <1>2. \A i \in 1 .. Len(U) : \A q \in Collapsed(U)[i] : Trimmed(q) \notin Aliases
    BY DEF NoAliasLater
  <1> HIDE DEF U
  <1>3. Len(U) \in Nat /\ MaxNames \in Nat
    BY <1>1, PathsFact DEF Path, PathsAssumption
  <1>4. Collapse(U) = Collapsed(U)[Len(U)] /\ Reached(<<>>, U) = Reaches(<<>>, U)[Len(U)]
    BY DEF Collapse, Reached
  <1>5. p \in Collapsed(U)[Len(U)]
    BY <1>4 DEF U
  <1>6. Shaped(p) /\ Clean(Trimmed(p)) /\ Trimmed(p) = Reached(<<>>, U)
    BY <1>1, <1>2, <1>3, <1>4, <1>5, ReadAsReached
  <1>7. /\ Collapsed(U) \in [0 .. Len(U) -> SUBSET Path] /\ Collapsed(U)[0] = {<<>>}
        /\ \A i \in 1 .. Len(U) :
             Collapsed(U)[i] = {q \in {Further(r, U[i]) : r \in Collapsed(U)[i - 1]} : Len(q) <= MaxNames}
    BY <1>1, CollapsedStep
  <1>8. Len(p) <= MaxNames
    <2>1. CASE Len(U) = 0
      <3>1. p = <<>>
        BY <1>5, <1>7, <2>1
      <3> QED
        BY <1>3, <3>1
    <2>2. CASE Len(U) # 0
      <3>1. Len(U) \in 1 .. Len(U)
        BY <1>3, <2>2
      <3> QED
        BY <1>5, <1>7, <3>1
    <2> QED
      BY <2>1, <2>2
  <1>9. p \in Path
    BY <1>3, <1>5, <1>7
  <1>10. Collapse(U) = {p}
    <2>1. \A q \in Collapsed(U)[Len(U)] : q = p
      BY <1>1, <1>3, <1>5, CollapsedOnce
    <2> QED
      BY <1>4, <1>5, <2>1
  <1> QED
    BY <1>1, <1>6, <1>8, <1>9, <1>10 DEF IsLead, U

(* Collapsed text is not changed by being collapsed again, but for the     *)
(* slash.                                                                  *)
LEMMA LeadPlain ==
  ASSUME NEW p, NEW to, IsLead(p, to)
  PROVE  Unaliased(p) = p /\ Collapse(p) = {to} /\ to \in Path /\ Fits(p)
  <1>1. p \in Path /\ Shaped(p) /\ Clean(to) /\ to = Trimmed(p) /\ Len(p) <= MaxNames
    BY DEF IsLead
  <1>2. ASSUME NEW a \in Aliases, IsPrefix(a, p) PROVE FALSE
    <2>1. a \in Seq(ProperName) /\ a # <<>> /\ a \in Path
      BY StoragePaths, ProperPath
    <2>2. ~IsPrefix(a, to)
      BY <1>1 DEF Clean
    <2>3. p = Append(to, NoName) /\ to \in Path
      BY <1>1, <1>2, <2>2, TrimmedAt DEF Shaped
    <2>4. IsPrefix(a, to) \/ a = Append(to, NoName)
      <3> DEFINE S == STRING
      <3>1. to \in Seq(S) /\ a \in Seq(S) /\ NoName \in S
        BY <2>1, <2>3, NamesFact DEF Path
      <3> HIDE DEF S
      <3> QED
        BY <1>2, <2>3, <3>1, PrefixGrown
    <2>5. a = Append(to, NoName)
      BY <2>2, <2>4
    <2>6. Len(a) = Len(to) + 1 /\ a[Len(to) + 1] = NoName /\ Len(to) \in Nat
      BY <2>3, <2>5, Slashed
    <2>7. a[Len(to) + 1] \in ProperName
      <3>1. Len(to) + 1 \in 1 .. Len(a)
        BY <2>6
      <3> QED
        BY <2>1, <3>1
    <2> QED
      BY <2>6, <2>7, ProperFacts
  <1>3. Unaliased(p) = p
    BY <1>2 DEF Unaliased
  <1>4. to \in Seq(ProperName)
    BY <1>1 DEF Clean
  <1>5. /\ PlainTo(p, Len(to)) /\ SubSeq(p, 1, Len(to)) = to
        /\ Len(to) <= Len(p) /\ Len(to) \in Nat /\ Len(p) \in Nat
    BY <1>1, <1>4, ShapedPlain
  <1>6. Len(to) <= MaxNames
    BY <1>1, <1>5, PathsFact DEF PathsAssumption
  <1>7. Collapse(p) = {to}
    BY <1>5, <1>6, PlainCollapses
  <1> QED
    BY <1>1, <1>3, <1>4, <1>7, ProperPath DEF Fits

(* The parts of an absolute spelling. *)
LEMMA Absolutes ==
  ASSUME NEW p
  PROVE  /\ Absolute(p).absolute = TRUE /\ Absolute(p).names = p
         /\ Absolute(p) # Spelling(FALSE, <<>>)
  <1>1. Absolute(p).absolute = TRUE /\ Absolute(p).names = p
    BY DEF Absolute, Spelling
  <1>2. Spelling(FALSE, <<>>).absolute = FALSE
    BY DEF Spelling
  <1> QED
    BY <1>1, <1>2

(* Read again, it is what it was. *)
LEMMA LeadRead ==
  ASSUME NEW p, NEW to, IsLead(p, to)
  PROVE  /\ fm_normalize_path(Absolute(p)) = {Absolute(to)}
         /\ NormalizeRulePath(Absolute(p)) = {to}
         /\ fm_normalize_rule_path(Absolute(p)) = {to}
  <1>1. Unaliased(p) = p /\ Collapse(p) = {to} /\ Fits(p) /\ Trimmed(p) = to
    BY LeadPlain DEF IsLead
  <1>2. fm_normalize_path(Absolute(p)) = {Absolute(to)}
    <2>1. fm_normalize_path(Absolute(p)) = {Absolute(q) : q \in Collapse(p)}
      BY <1>1, Absolutes DEF fm_normalize_path
    <2> QED
      BY <1>1, <2>1
  <1>3. {n.names : n \in fm_normalize_path(Absolute(p))} = {to}
    BY <1>2, Absolutes
  <1>4. fm_normalize_rule_path(Absolute(p)) = {to}
    BY <1>3, Absolutes DEF fm_normalize_rule_path
  <1>5. NormalizeRulePath(Absolute(p)) = {to}
    BY <1>1, <1>3, Absolutes DEF NormalizeRulePath
  <1> QED
    BY <1>2, <1>4, <1>5

(* fm_normalize_path of the text of a path, unless it fails. *)
LEMMA WrittenLeads ==
  ASSUME NEW w \in Path, NoAliasLater(w), fm_normalize_path(Absolute(w)) # {}
  PROVE  \E p : IsLead(p, Reached(<<>>, w)) /\ fm_normalize_path(Absolute(w)) = {Absolute(p)}
  <1>1. \/ fm_normalize_path(Absolute(w)) = {Absolute(p) : p \in {}}
        \/ fm_normalize_path(Absolute(w)) = {Absolute(p) : p \in Collapse(Unaliased(w))}
    BY Absolutes DEF fm_normalize_path
  <1>2. fm_normalize_path(Absolute(w)) = {Absolute(p) : p \in Collapse(Unaliased(w))}
    BY <1>1
  <1>3. PICK p \in Collapse(Unaliased(w)) : TRUE
    BY <1>2
  <1>4. IsLead(p, Reached(<<>>, w)) /\ Collapse(Unaliased(w)) = {p}
    BY CollapseLeads
  <1> QED
    BY <1>2, <1>4

(* What is written plainly below /storage/emulated/0 leads where it says. *)
LEMMA PlainlyReached ==
  ASSUME NEW w \in Path, IsPrefix(ExternalPrimary, w), IsPlainly(Trimmed(w))
  PROVE  Trimmed(w) = Reached(<<>>, w)
  <1> DEFINE E == ExternalPrimary
             q == Trimmed(w)
  <1>1. PICK k \in 0 .. Len(w) :
           /\ EndsAt(w, k) /\ q = SubSeq(w, 1, k) /\ q \in Path /\ Len(q) = k
           /\ \A i \in 1 .. k : q[i] = w[i]
    BY TrimmedAt
  <1>2. Len(w) \in Nat /\ E \in Path /\ E \in Seq(ProperName) /\ Len(E) \in Nat
    BY StoragePaths, ProperPath DEF Path
  <1>3. q \in Seq(ProperName)
    <2>1. \A i \in 1 .. k : q[i] \in ProperName
      <3>1. q \in Path /\ Len(q) = k
        BY <1>1
      <3>2. IsPlainly(q)
        OBVIOUS
      <3> HIDE DEF q
      <3>3. DOMAIN q = 1 .. k
        BY <3>1 DEF Path
      <3> QED
        BY <3>2, <3>3 DEF IsPlainly
    <2> QED
      BY <1>1, <2>1, ProperSequence
  <1>4. PlainTo(w, k)
    <2>1. \A j \in 1 .. Len(w) : k < j => w[j] \in NotDirectories
      BY <1>1, ProperFacts DEF EndsAt
    <2> QED
      BY <1>1, <1>3, <2>1 DEF PlainTo
  <1> HIDE DEF q, E
  <1>5. IsPrefix(E, w) /\ Len(E) \in 0 .. Len(w) /\ \A i \in 1 .. Len(E) : E[i] = w[i]
    <2>1. IsPrefix(E, w) /\ Len(E) \in 0 .. Len(w)
      BY <1>2 DEF E, IsPrefix
    <2> QED
      BY <2>1, CutAt DEF IsPrefix, Path
  <1>6. Len(E) <= k
    <2> SUFFICES ASSUME k < Len(E) PROVE FALSE
      BY <1>1, <1>2
    <2>1. Len(E) \in 1 .. Len(E) /\ Len(E) \in 1 .. Len(w)
      BY <1>1, <1>2, <1>5
    <2>2. w[Len(E)] = NoName
      BY <1>1, <2>1 DEF EndsAt
    <2>3. E[Len(E)] \in ProperName
      BY <1>2, <2>1
    <2> QED
      BY <1>5, <2>1, <2>2, <2>3, ProperFacts
  <1>7. \A a \in Aliases : ~IsPrefix(a, q)
    <2> SUFFICES ASSUME NEW a \in Aliases, IsPrefix(a, q) PROVE FALSE
      OBVIOUS
    <2>1. a \in Seq(ProperName) /\ Len(a) \in Nat /\ Len(a) <= k /\ Len(a) \in 0 .. k
      BY <1>1, StoragePaths DEF IsPrefix
    <2>2. \A i \in 1 .. Len(a) : a[i] = w[i]
      <3>1. \A i \in 1 .. Len(a) : a[i] = q[i]
        BY <1>1, <1>3, <2>1, CutAt DEF IsPrefix
      <3> QED
        BY <1>1, <2>1, <3>1
    <2>3. CASE Len(a) <= Len(E)
      <3>1. IsPrefix(a, E)
        BY <1>2, <1>5, <2>1, <2>2, <2>3, PrefixByNames
      <3> QED
        BY <3>1, PathsFact DEF PathsAssumption, E
    <2>4. CASE Len(E) <= Len(a)
      <3>1. IsPrefix(E, a)
        BY <1>2, <1>5, <2>1, <2>2, <2>4, PrefixByNames
      <3> QED
        BY <3>1, PathsFact DEF PathsAssumption, E
    <2> QED
      BY <1>2, <2>1, <2>3, <2>4
  <1>8. Clean(SubSeq(w, 1, k))
    BY <1>1, <1>3, <1>7 DEF Clean
  <1>9. \A i \in 0 .. Len(w) : Reaches(<<>>, w)[i] = SubSeq(w, 1, IF i <= k THEN i ELSE k)
    BY <1>4, <1>8, PlainReaches
  <1>10. Reaches(<<>>, w)[Len(w)] = SubSeq(w, 1, k)
    <2>1. Len(w) \in 0 .. Len(w) /\ (Len(w) <= k => Len(w) = k)
      BY <1>1, <1>2
    <2> QED
      BY <1>9, <2>1
  <1> QED
    BY <1>1, <1>10 DEF Reached, q

-----------------------------------------------------------------------------
(* What is read is a path. *)

WrittenPath == [absolute : BOOLEAN, names : Path]

(* An absolute spelling of a path is a spelling of one. *)
LEMMA AbsoluteTyped ==
  ASSUME NEW p \in Path
  PROVE  Absolute(p) \in WrittenPath
  BY DEF Absolute, Spelling, WrittenPath

(* The root, the storage and paths in a row are paths. *)
LEMMA PathsTyped ==
  /\ <<>> \in Path /\ ExternalPrimary \in Path
  /\ \A p, q \in Path : p \o q \in Path
  <1>1. ExternalPrimary \in Path
    BY StoragePaths, ProperPath
  <1>2. <<>> \in Path
    BY DEF Path
  <1>3. \A p, q \in Path : p \o q \in Path
    BY Concatenated DEF Path
  <1> QED
    BY <1>1, <1>2, <1>3

(* What fm_normalize_path returns is the spelling of a path. *)
LEMMA NormalizeTyped ==
  ASSUME NEW s \in WrittenPath
  PROVE  fm_normalize_path(s) \subseteq WrittenPath /\ NormalizedInPlace(s) \subseteq WrittenPath
  <1> SUFFICES fm_normalize_path(s) \subseteq WrittenPath
    BY PathsTyped, AbsoluteTyped DEF NormalizedInPlace
  <1>1. s.names \in Path
    BY DEF WrittenPath
  <1>2. CASE s.absolute
    <2>1. Unaliased(s.names) \in Path
      BY <1>1, UnaliasedReached
    <2>2. Collapse(Unaliased(s.names)) \subseteq Path
      <3> DEFINE U == Unaliased(s.names)
      <3>1. Len(U) \in 0 .. Len(U)
        BY <2>1 DEF Path
      <3> HIDE DEF U
      <3>2. Collapsed(U) \in [0 .. Len(U) -> SUBSET Path]
        BY <2>1, CollapsedStep DEF U
      <3>3. Collapsed(U)[Len(U)] \subseteq Path
        BY <3>1, <3>2
      <3> QED
        BY <3>3 DEF Collapse, U
    <2>3. \A n \in fm_normalize_path(s) : \E p \in Collapse(Unaliased(s.names)) : n = Absolute(p)
      BY <1>2 DEF fm_normalize_path
    <2> QED
      BY <2>2, <2>3, AbsoluteTyped
  <1>3. CASE ~s.absolute
    <2>1. \A n \in fm_normalize_path(s) : n = Spelling(FALSE, Trimmed(s.names))
      BY <1>3 DEF fm_normalize_path
    <2>2. Trimmed(s.names) \in Path
      BY <1>1, TrimmedAt
    <2>3. Spelling(FALSE, Trimmed(s.names)) \in WrittenPath
      BY <2>2 DEF Spelling, WrittenPath
    <2> QED
      BY <2>1, <2>3
  <1> QED
    BY <1>2, <1>3

(* So is what fm_try_resolve_at_path returns. *)
LEMMA ResolvedTyped ==
  ASSUME NEW s \in WrittenPath, NEW dir, dir = AtCwd \/ dir \in Path
  PROVE  fm_try_resolve_at_path(dir, s) \subseteq WrittenPath
  <1>1. ASSUME NEW base \in WrittenPath PROVE fm_join_path(base, s) \subseteq WrittenPath
    <2>1. CASE s.absolute
      BY <2>1, NormalizeTyped DEF fm_join_path
    <2>2. CASE ~s.absolute
      <3>1. \A n \in fm_join_path(base, s) : \E b \in fm_normalize_path(base) :
              n \in NormalizedInPlace(Absolute(b.names \o s.names))
        BY <2>2 DEF fm_join_path
      <3>2. ASSUME NEW b \in fm_normalize_path(base) PROVE Absolute(b.names \o s.names) \in WrittenPath
        <4>1. b.names \in Path /\ s.names \in Path
          BY NormalizeTyped DEF WrittenPath
        <4> QED
          BY <4>1, PathsTyped, AbsoluteTyped
      <3> QED
        BY <3>1, <3>2, NormalizeTyped
    <2> QED
      BY <2>1, <2>2
  <1>2. CASE s.absolute \/ dir = AtCwd
    BY <1>2, NormalizeTyped DEF fm_try_resolve_at_path, fm_resolve_fd_path
  <1>3. CASE ~(s.absolute \/ dir = AtCwd)
    <2>1. \A n \in fm_try_resolve_at_path(dir, s) :
            \E base \in NormalizedInPlace(Absolute(dir)) : n \in fm_join_path(base, s)
      BY <1>3 DEF fm_try_resolve_at_path, fm_resolve_fd_path
    <2>2. NormalizedInPlace(Absolute(dir)) \subseteq WrittenPath
      BY <1>3, AbsoluteTyped, NormalizeTyped
    <2> QED
      BY <1>1, <2>1, <2>2
  <1> QED
    BY <1>2, <1>3

(* What is searched for and what is forgotten are paths. *)
LEMMA RulePathsTyped ==
  ASSUME NEW s \in WrittenPath
  PROVE  NormalizeRulePath(s) \subseteq Path /\ fm_normalize_rule_path(s) \subseteq Path
  <1> DEFINE r == IF s.absolute THEN s ELSE Absolute(ExternalPrimary \o s.names)
  <1>1. s.names \in Path
    BY DEF WrittenPath
  <1>2. r \in WrittenPath
    BY <1>1, PathsTyped, AbsoluteTyped
  <1>3. {n.names : n \in fm_normalize_path(r)} \subseteq Path
    <2> HIDE DEF r
    <2> QED
      BY <1>2, NormalizeTyped DEF WrittenPath
  <1>4. fm_normalize_rule_path(s) \subseteq Path
    BY <1>3 DEF fm_normalize_rule_path
  <1>5. {Trimmed(s.names)} \subseteq Path
    BY <1>1, TrimmedAt
  <1>6. NormalizeRulePath(s) \subseteq Path
    <2> HIDE DEF r
    <2>1. \/ NormalizeRulePath(s) = {}
          \/ NormalizeRulePath(s) = {Trimmed(s.names)}
          \/ NormalizeRulePath(s) = {n.names : n \in fm_normalize_path(r)}
      BY DEF NormalizeRulePath, r
    <2> QED
      BY <1>3, <1>5, <2>1
  <1> QED
    BY <1>4, <1>6
=============================================================================
