----------------------------- MODULE HooksProofs -----------------------------
(***************************************************************************)
(* Any number of threads, calls and sections: a call is refused or made as *)
(* rules say that were in force while it ran.  The invariant relates what  *)
(* a call has been told so far to the rules and the gate there have been   *)
(* since it began, and the flags a call looks at without the lock to the   *)
(* rules they stand for.                                                   *)
(*                                                                         *)
(* MatchPath always answers, and a listing loses no entry: the chunk is    *)
(* what comes next in the directory, and what is behind it was shown, or   *)
(* hidden by rules that were in force.                                     *)
(*                                                                         *)
(* The path a call asks about leads where the kernel acts (ReadableJudged, *)
(* from what PathMapperProofs has of the text of paths).  With what a call *)
(* has forgotten so far (Traced) and the types of its fields that gives    *)
(* the remaining three properties.                                         *)
(***************************************************************************)
EXTENDS Hooks, PathMapperProofs, FiniteSetTheorems

(* A record with the fields of a call, whatever they hold. *)
Holding(S) ==
  [pc : S, op : S, call : S, asked : S, leads : S, says : S, to : S, refused : S, acts : S,
   removed : S, forgot : S, dir : S, next : S, chunk : S, shown : S, some : S, during : S,
   gates : S]

IsCall(c) == \E S : c \in Holding(S)

IsSequence(s) == \E S : s \in Seq(S)

Asking == {"flags", "ask", "act"}
Open == {"flags", "ask", "act", "forget", "take", "filter"}

(* Each answer is one that rules gave which were in force, and what a call *)
(* would be redirected to is part of the last.                             *)
AnsweredRight(c) ==
  \A i \in 1 .. Len(c.says) : \E o \in SaidOf(c, i) :
    o.decision = c.says[i] /\ (i = Len(c.says) => o.to = c.to)

(* How far a call is. *)
Counted(c) ==
  /\ IsSequence(c.says) /\ IsSequence(c.asked)
  /\ c.pc \in {"flags", "ask"} => Len(c.says) < Len(c.asked)
  /\ c.pc = "act" => Len(c.says) = Len(c.asked)
  /\ c.op \in TwoPaths \/ Len(c.asked) = 1

CallRight(c) ==
  /\ IsCall(c)
  /\ c.pc \in Asking => AnsweredRight(c) /\ Counted(c)
  /\ c.pc = "ask" => TRUE \in c.gates
  /\ c.pc \in Open => c.refused = "no"
  /\ c.pc \in {"take", "filter"} => c.asked = <<>>
  /\ c.pc \in {"forget", "done"} => DoneAsSaid(c)

(* A call has met the rules and the gate there are. *)
Met(c) == c.pc \in Open => policy \in c.during /\ replaced \subseteq c.during /\ gate \in c.gates

(* Without hooks there are no rules, or there were none before the reload  *)
(* that is about to set the flag.                                          *)
FlagStands ==
  /\ {shouldHook, gate, marker, watched} \subseteq BOOLEAN
  /\ ~shouldHook => IF reload = "flag" THEN NoPolicy \in replaced ELSE policy = NoPolicy

Inv ==
  /\ FlagStands
  /\ calls = [t \in Thread |-> calls[t]]
  /\ \A t \in Thread : CallRight(calls[t]) /\ Met(calls[t])
-----------------------------------------------------------------------------
(* What is left of a call that is changed in some of its fields. *)
LEMMA Turned ==
  ASSUME NEW c, IsCall(c), NEW pc
  PROVE  LET n == [c EXCEPT !.pc = pc] IN
         /\ IsCall(n) /\ n.op = c.op /\ n.asked = c.asked /\ n.leads = c.leads
         /\ n.says = c.says /\ n.to = c.to /\ n.refused = c.refused
         /\ n.acts = c.acts /\ n.during = c.during /\ n.gates = c.gates
         /\ n.call = c.call /\ n.removed = c.removed /\ n.forgot = c.forgot
         /\ n.pc = pc
         /\ n.dir = c.dir /\ n.next = c.next /\ n.chunk = c.chunk /\ n.shown = c.shown
  <1>1. PICK S : c \in Holding(S)
    BY DEF IsCall
  <1> DEFINE n == [c EXCEPT !.pc = pc]
  <1>2. n \in Holding(S \cup {pc})
    BY <1>1 DEF Holding
  <1>3. IsCall(n)
    BY <1>2 DEF IsCall
  <1> QED
    BY <1>1, <1>3 DEF Holding

MetCall(c, during, gates) ==
  [c EXCEPT !.during = during, !.gates = gates]

LEMMA Extended ==
  ASSUME NEW c, IsCall(c), NEW during, NEW gates
  PROVE  LET n == MetCall(c, during, gates) IN
         /\ IsCall(n) /\ n.op = c.op /\ n.asked = c.asked /\ n.leads = c.leads
         /\ n.says = c.says /\ n.to = c.to /\ n.refused = c.refused
         /\ n.acts = c.acts /\ n.during = during /\ n.gates = gates
         /\ n.call = c.call /\ n.removed = c.removed /\ n.forgot = c.forgot
         /\ n.pc = c.pc
         /\ n.dir = c.dir /\ n.next = c.next /\ n.chunk = c.chunk /\ n.shown = c.shown
  <1>1. PICK S : c \in Holding(S)
    BY DEF IsCall
  <1> DEFINE n == MetCall(c, during, gates)
  <1>2. n \in Holding(S \cup {during, gates})
    BY <1>1 DEF Holding, MetCall
  <1>3. IsCall(n)
    BY <1>2 DEF IsCall
  <1> QED
    BY <1>1, <1>3 DEF Holding, MetCall

BegunCall(c, op, call, asked, leads, during, gates) ==
  [c EXCEPT !.pc = "flags", !.op = op, !.call = call, !.asked = asked,
            !.leads = leads, !.during = during, !.gates = gates]

LEMMA Begun ==
  ASSUME NEW c, IsCall(c), NEW op, NEW call, NEW asked, NEW leads,
         NEW during, NEW gates
  PROVE  LET n == BegunCall(c, op, call, asked, leads, during, gates) IN
         /\ IsCall(n) /\ n.op = op /\ n.asked = asked /\ n.leads = leads
         /\ n.says = c.says /\ n.to = c.to /\ n.refused = c.refused
         /\ n.acts = c.acts /\ n.during = during /\ n.gates = gates
         /\ n.call = call /\ n.removed = c.removed /\ n.forgot = c.forgot
         /\ n.pc = "flags"
  <1>1. PICK S : c \in Holding(S)
    BY DEF IsCall
  <1> DEFINE n == BegunCall(c, op, call, asked, leads, during, gates)
  <1>2. n \in Holding(S \cup {"flags", op, call, asked, leads, during, gates})
    BY <1>1 DEF Holding, BegunCall
  <1>3. IsCall(n)
    BY <1>2 DEF IsCall
  <1> QED
    BY <1>1, <1>3 DEF Holding, BegunCall

OpenedCall(c, op, dir, during, gates) ==
  [c EXCEPT !.pc = "take", !.op = op, !.dir = dir,
            !.during = during, !.gates = gates]

LEMMA Opened ==
  ASSUME NEW c, IsCall(c), NEW op, NEW dir, NEW during, NEW gates
  PROVE  LET n == OpenedCall(c, op, dir, during, gates) IN
         /\ IsCall(n) /\ n.op = op /\ n.asked = c.asked /\ n.leads = c.leads
         /\ n.says = c.says /\ n.to = c.to /\ n.refused = c.refused
         /\ n.acts = c.acts /\ n.during = during /\ n.gates = gates
         /\ n.call = c.call /\ n.removed = c.removed /\ n.forgot = c.forgot
         /\ n.pc = "take"
         /\ n.dir = dir /\ n.next = c.next /\ n.chunk = c.chunk /\ n.shown = c.shown
  <1>1. PICK S : c \in Holding(S)
    BY DEF IsCall
  <1> DEFINE n == OpenedCall(c, op, dir, during, gates)
  <1>2. n \in Holding(S \cup {"take", op, dir, during, gates})
    BY <1>1 DEF Holding, OpenedCall
  <1>3. IsCall(n)
    BY <1>2 DEF IsCall
  <1> QED
    BY <1>1, <1>3 DEF Holding, OpenedCall

LEMMA Told ==
  ASSUME NEW c, IsCall(c), NEW what, NEW to
  PROVE  LET n == Said(c, what, to) IN
         /\ IsCall(n) /\ n.op = c.op /\ n.asked = c.asked /\ n.leads = c.leads
         /\ n.says = Append(c.says, what) /\ n.to = to /\ n.refused = c.refused
         /\ n.acts = c.acts /\ n.during = c.during /\ n.gates = c.gates
         /\ n.call = c.call /\ n.removed = c.removed /\ n.forgot = c.forgot
         /\ n.pc = IF Len(c.says) + 1 < Len(c.asked) THEN "flags" ELSE "act"
  <1>1. PICK S : c \in Holding(S)
    BY DEF IsCall
  <1> DEFINE n == Said(c, what, to)
  <1>2. n \in Holding(S \cup {Append(c.says, what), to, "flags", "act"})
    BY <1>1 DEF Holding, Said
  <1>3. IsCall(n)
    BY <1>2 DEF IsCall
  <1> QED
    BY <1>1, <1>3 DEF Holding, Said

RefusedCall(c, errno) ==
  [c EXCEPT !.pc = "done", !.refused = errno]

LEMMA Refused ==
  ASSUME NEW c, IsCall(c), NEW errno
  PROVE  LET n == RefusedCall(c, errno) IN
         /\ IsCall(n) /\ n.op = c.op /\ n.asked = c.asked /\ n.leads = c.leads
         /\ n.says = c.says /\ n.to = c.to /\ n.refused = errno
         /\ n.acts = c.acts /\ n.during = c.during /\ n.gates = c.gates
         /\ n.call = c.call /\ n.removed = c.removed /\ n.forgot = c.forgot
         /\ n.pc = "done"
  <1>1. PICK S : c \in Holding(S)
    BY DEF IsCall
  <1> DEFINE n == RefusedCall(c, errno)
  <1>2. n \in Holding(S \cup {"done", errno})
    BY <1>1 DEF Holding, RefusedCall
  <1>3. IsCall(n)
    BY <1>2 DEF IsCall
  <1> QED
    BY <1>1, <1>3 DEF Holding, RefusedCall

MadeCall(c, pc, removed, acts) ==
  [c EXCEPT !.pc = pc, !.removed = removed, !.acts = acts]

LEMMA Made ==
  ASSUME NEW c, IsCall(c), NEW pc, NEW removed, NEW acts
  PROVE  LET n == MadeCall(c, pc, removed, acts) IN
         /\ IsCall(n) /\ n.op = c.op /\ n.asked = c.asked /\ n.leads = c.leads
         /\ n.says = c.says /\ n.to = c.to /\ n.refused = c.refused
         /\ n.acts = acts /\ n.during = c.during /\ n.gates = c.gates
         /\ n.call = c.call /\ n.removed = removed /\ n.forgot = c.forgot
         /\ n.pc = pc
  <1>1. PICK S : c \in Holding(S)
    BY DEF IsCall
  <1> DEFINE n == MadeCall(c, pc, removed, acts)
  <1>2. n \in Holding(S \cup {pc, removed, acts})
    BY <1>1 DEF Holding, MadeCall
  <1>3. IsCall(n)
    BY <1>2 DEF IsCall
  <1> QED
    BY <1>1, <1>3 DEF Holding, MadeCall

ForgottenCall(c, pc, forgot) ==
  [c EXCEPT !.forgot = forgot, !.pc = pc]

LEMMA Forgot ==
  ASSUME NEW c, IsCall(c), NEW pc, NEW forgot
  PROVE  LET n == ForgottenCall(c, pc, forgot) IN
         /\ IsCall(n) /\ n.op = c.op /\ n.asked = c.asked /\ n.leads = c.leads
         /\ n.says = c.says /\ n.to = c.to /\ n.refused = c.refused
         /\ n.acts = c.acts /\ n.during = c.during /\ n.gates = c.gates
         /\ n.call = c.call /\ n.removed = c.removed /\ n.forgot = forgot
         /\ n.pc = pc
  <1>1. PICK S : c \in Holding(S)
    BY DEF IsCall
  <1> DEFINE n == ForgottenCall(c, pc, forgot)
  <1>2. n \in Holding(S \cup {pc, forgot})
    BY <1>1 DEF Holding, ForgottenCall
  <1>3. IsCall(n)
    BY <1>2 DEF IsCall
  <1> QED
    BY <1>1, <1>3 DEF Holding, ForgottenCall

LEMMA ForgotOne ==
  ASSUME NEW c, IsCall(c), NEW forgot
  PROVE  LET n == [c EXCEPT !.forgot = forgot] IN
         /\ IsCall(n) /\ n.op = c.op /\ n.asked = c.asked /\ n.leads = c.leads
         /\ n.says = c.says /\ n.to = c.to /\ n.refused = c.refused
         /\ n.acts = c.acts /\ n.during = c.during /\ n.gates = c.gates
         /\ n.call = c.call /\ n.removed = c.removed /\ n.forgot = forgot
         /\ n.pc = c.pc
  <1>1. PICK S : c \in Holding(S)
    BY DEF IsCall
  <1> DEFINE n == [c EXCEPT !.forgot = forgot]
  <1>2. n \in Holding(S \cup {forgot})
    BY <1>1 DEF Holding
  <1>3. IsCall(n)
    BY <1>2 DEF IsCall
  <1> QED
    BY <1>1, <1>3 DEF Holding

TakenCall(c, next, chunk) ==
  [c EXCEPT !.pc = "filter", !.next = next, !.some = FALSE, !.chunk = chunk]

LEMMA Taken ==
  ASSUME NEW c, IsCall(c), NEW next, NEW chunk
  PROVE  LET n == TakenCall(c, next, chunk) IN
         /\ IsCall(n) /\ n.op = c.op /\ n.asked = c.asked /\ n.leads = c.leads
         /\ n.says = c.says /\ n.to = c.to /\ n.refused = c.refused
         /\ n.acts = c.acts /\ n.during = c.during /\ n.gates = c.gates
         /\ n.call = c.call /\ n.removed = c.removed /\ n.forgot = c.forgot
         /\ n.pc = "filter"
         /\ n.dir = c.dir /\ n.next = next /\ n.chunk = chunk /\ n.shown = c.shown
  <1>1. PICK S : c \in Holding(S)
    BY DEF IsCall
  <1> DEFINE n == TakenCall(c, next, chunk)
  <1>2. n \in Holding(S \cup {"filter", next, FALSE, chunk})
    BY <1>1 DEF Holding, TakenCall
  <1>3. IsCall(n)
    BY <1>2 DEF IsCall
  <1> QED
    BY <1>1, <1>3 DEF Holding, TakenCall

WentCall(c, chunk, some, shown, pc) ==
  [c EXCEPT !.chunk = chunk, !.some = some, !.shown = shown, !.pc = pc]

LEMMA Went ==
  ASSUME NEW c, IsCall(c), NEW chunk, NEW some, NEW shown, NEW pc
  PROVE  LET n == WentCall(c, chunk, some, shown, pc) IN
         /\ IsCall(n) /\ n.op = c.op /\ n.asked = c.asked /\ n.leads = c.leads
         /\ n.says = c.says /\ n.to = c.to /\ n.refused = c.refused
         /\ n.acts = c.acts /\ n.during = c.during /\ n.gates = c.gates
         /\ n.call = c.call /\ n.removed = c.removed /\ n.forgot = c.forgot
         /\ n.pc = pc
         /\ n.dir = c.dir /\ n.next = c.next /\ n.chunk = chunk /\ n.shown = shown
  <1>1. PICK S : c \in Holding(S)
    BY DEF IsCall
  <1> DEFINE n == WentCall(c, chunk, some, shown, pc)
  <1>2. n \in Holding(S \cup {chunk, some, shown, pc})
    BY <1>1 DEF Holding, WentCall
  <1>3. IsCall(n)
    BY <1>2 DEF IsCall
  <1> QED
    BY <1>1, <1>3 DEF Holding, WentCall


LEMMA NoCallFacts ==
  /\ IsCall(NoCall) /\ NoCall.pc = "idle" /\ NoCall.says = <<>> /\ NoCall.asked = <<>>
  /\ NoCall.refused = "no" /\ NoCall.op \notin Listings
  /\ NoCall.next = 1 /\ NoCall.chunk = <<>> /\ NoCall.shown = {}
  /\ NoCall.removed = FALSE /\ NoCall.forgot = <<>>
  <1> DEFINE S == {"idle", "none", "no", <<>>, FALSE, 1, {}}
  <1>1. NoCall \in Holding(S)
    BY DEF NoCall, Holding
  <1> QED
    BY <1>1 DEF IsCall, NoCall, Listings

LEMMA Appended ==
  ASSUME NEW s, IsSequence(s), NEW x
  PROVE  /\ IsSequence(Append(s, x)) /\ Len(s) \in Nat /\ Len(Append(s, x)) = Len(s) + 1
         /\ Append(s, x)[Len(s) + 1] = x
         /\ \A i \in 1 .. Len(s) : Append(s, x)[i] = s[i]
  <1>1. PICK S : s \in Seq(S)
    BY DEF IsSequence
  <1> DEFINE T == S \cup {x}
  <1>2. s \in Seq(T) /\ x \in T
    BY <1>1
  <1> HIDE DEF T
  <1>3. Append(s, x) \in Seq(T)
    BY <1>2
  <1> QED
    BY <1>2, <1>3 DEF IsSequence

LEMMA Sequences ==
  ASSUME NEW s, IsSequence(s)
  PROVE  Len(s) \in Nat /\ DOMAIN s = 1 .. Len(s)
  BY DEF IsSequence

(* Rules and gates that are met later add to what may be said. *)
LEMMA SaidMore ==
  ASSUME NEW c, NEW d, d.asked = c.asked, c.during \subseteq d.during, c.gates \subseteq d.gates
  PROVE  \A i : SaidOf(c, i) \subseteq SaidOf(d, i)
  <1>1. Moments(c) \subseteq Moments(d)
    BY DEF Moments
  <1> QED
    BY <1>1 DEF SaidOf

LEMMA CallGrows ==
  ASSUME NEW c, NEW d, CallRight(c), IsCall(d), d.pc = c.pc, d.op = c.op, d.asked = c.asked,
         d.leads = c.leads, d.says = c.says, d.to = c.to, d.refused = c.refused,
         d.acts = c.acts, c.during \subseteq d.during, c.gates \subseteq d.gates
  PROVE  CallRight(d)
  <1>1. \A i : SaidOf(c, i) \subseteq SaidOf(d, i)
    BY SaidMore
  <1>2. AnsweredRight(c) => AnsweredRight(d)
    BY <1>1 DEF AnsweredRight
  <1>3. DoneAsSaid(c) => DoneAsSaid(d)
    BY <1>1 DEF DoneAsSaid
  <1>4. Counted(c) => Counted(d)
    BY DEF Counted
  <1> QED
    BY <1>2, <1>3, <1>4 DEF CallRight
-----------------------------------------------------------------------------
(* A step of one thread under the rules in force. *)
LEMMA OneCall ==
  ASSUME Inv, NEW t \in Thread, NEW c, Now(t, c), UNCHANGED shared, CallRight(c), Met(c)
  PROVE  Inv'
  <1>1. calls'[t] = c /\ \A u \in Thread \ {t} : calls'[u] = calls[u]
    BY DEF Inv, Now
  <1>2. calls' = [u \in Thread |-> calls'[u]]
    BY DEF Inv, Now
  <1>3. FlagStands'
    BY DEF Inv, FlagStands, shared
  <1>4. ASSUME NEW u \in Thread PROVE (CallRight(calls[u]) /\ Met(calls[u]))'
    <2>1. CallRight(calls'[u]) /\ Met(calls'[u])
      BY <1>1 DEF Inv
    <2>2. Met(calls[u])'
      BY <2>1 DEF Met, shared
    <2>3. CallRight(calls[u])'
      BY <2>1
    <2> QED
      BY <2>2, <2>3
  <1> QED
    BY <1>2, <1>3, <1>4 DEF Inv
-----------------------------------------------------------------------------
(* An answer that may be given goes on record as one. *)
LEMMA ToldRight ==
  ASSUME NEW c, CallRight(c), c.pc \in {"flags", "ask"},
         NEW o, o \in SaidOf(c, Len(c.says) + 1)
  PROVE  CallRight(Said(c, o.decision, o.to))
  <1> DEFINE n == Said(c, o.decision, o.to)
  <1>1. IsCall(c) /\ AnsweredRight(c) /\ Counted(c) /\ c.refused = "no"
    BY DEF CallRight, Asking, Open
  <1>2. /\ IsCall(n) /\ n.op = c.op /\ n.asked = c.asked /\ n.to = o.to
        /\ n.says = Append(c.says, o.decision) /\ n.refused = c.refused
        /\ n.during = c.during /\ n.gates = c.gates
        /\ n.pc = IF Len(c.says) + 1 < Len(c.asked) THEN "flags" ELSE "act"
    BY <1>1, Told
  <1>3. /\ IsSequence(c.says) /\ Len(c.asked) \in Nat /\ Len(c.says) < Len(c.asked)
        /\ IsSequence(c.asked)
    BY <1>1, Sequences DEF Counted
  <1> HIDE DEF n
  <1>4. /\ IsSequence(n.says) /\ Len(c.says) \in Nat /\ Len(n.says) = Len(c.says) + 1
        /\ n.says[Len(c.says) + 1] = o.decision
        /\ \A i \in 1 .. Len(c.says) : n.says[i] = c.says[i]
    BY <1>2, <1>3, Appended
  <1>5. \A i : SaidOf(n, i) = SaidOf(c, i)
    BY <1>2 DEF SaidOf, Moments
  <1>6. AnsweredRight(n)
    <2> SUFFICES ASSUME NEW i \in 1 .. Len(n.says)
                 PROVE  \E p \in SaidOf(n, i) :
                          p.decision = n.says[i] /\ (i = Len(n.says) => p.to = n.to)
      BY DEF AnsweredRight
    <2>1. CASE i = Len(c.says) + 1
      BY <1>2, <1>4, <1>5, <2>1
    <2>2. CASE i # Len(c.says) + 1
      <3>1. i \in 1 .. Len(c.says) /\ i # Len(n.says)
        BY <1>4, <2>2
      <3>2. PICK p \in SaidOf(c, i) : p.decision = c.says[i]
        BY <1>1, <3>1 DEF AnsweredRight
      <3> QED
        BY <1>4, <1>5, <3>1, <3>2
    <2> QED
      BY <2>1, <2>2
  <1>7. Counted(n)
    BY <1>1, <1>2, <1>3, <1>4 DEF Counted
  <1> QED
    BY <1>1, <1>2, <1>6, <1>7 DEF CallRight, Asking, Open, n

LEMMA BeginInv == ASSUME Inv, NEW t \in Thread, Begin(t) PROVE Inv'
  <1>1. PICK c \in Asked :
          Now(t, [NoCall EXCEPT !.pc = "flags", !.op = c.op, !.call = <<c>>,
                                !.asked = [i \in DOMAIN c.paths |-> Judged(c, i)],
                                !.leads = [i \in DOMAIN c.paths |-> ActedOn(c, i)],
                                !.during = {policy} \cup replaced, !.gates = {gate}])
    BY DEF Begin
  <1>2. PICK m \in {1, 2} : DOMAIN c.paths = 1 .. m /\ (m = 2 => c.op \in TwoPaths)
    BY CallsFact DEF CallsAssumption
  <1> DEFINE asked == [i \in DOMAIN c.paths |-> Judged(c, i)]
             leads == [i \in DOMAIN c.paths |-> ActedOn(c, i)]
             during == {policy} \cup replaced
             call == <<c>>
             gates == {gate}
             op == c.op
             n == BegunCall(NoCall, op, call, asked, leads, during, gates)
  <1>3. IsSequence(asked) /\ Len(asked) = m
    <2> DEFINE S == {Judged(c, i) : i \in 1 .. m}
    <2>1. asked = [i \in 1 .. m |-> Judged(c, i)]
      BY <1>2
    <2>2. asked \in [1 .. m -> S]
      BY <2>1
    <2> HIDE DEF S, asked
    <2>3. asked \in Seq(S) /\ Len(asked) = m
      BY <1>2, <2>2
    <2> QED
      BY <2>3 DEF IsSequence
  <1>4. policy \in during /\ replaced \subseteq during
    OBVIOUS
  <1>5. Now(t, n) /\ UNCHANGED shared
    BY <1>1 DEF Begin, BegunCall
  <1> HIDE DEF asked, leads, during, call, gates, op
  <1>6. /\ IsCall(n) /\ n.pc = "flags" /\ n.op = op /\ n.asked = asked
        /\ n.says = NoCall.says /\ n.refused = NoCall.refused
        /\ n.during = during /\ n.gates = gates
    BY NoCallFacts, Begun
  <1> HIDE DEF n
  <1>7. CallRight(n)
    <2>1. IsSequence(n.says) /\ Len(n.says) = 0
      <3>1. <<>> \in Seq({})
        OBVIOUS
      <3> QED
        BY <1>6, <3>1, NoCallFacts DEF IsSequence
    <2>2. AnsweredRight(n)
      BY <2>1 DEF AnsweredRight
    <2>3. Counted(n)
      BY <1>2, <1>3, <1>6, <2>1 DEF Counted, op
    <2> QED
      BY <1>6, <2>2, <2>3, NoCallFacts DEF CallRight, Asking, Open
  <1>8. Met(n)
    BY <1>4, <1>6 DEF Met, gates
  <1> QED
    BY <1>5, <1>7, <1>8, OneCall

(* A call that is not over has met the rules in force, and the gate. *)
LEMMA Facts ==
  ASSUME Inv, NEW t \in Thread
  PROVE  /\ CallRight(calls[t]) /\ Met(calls[t]) /\ IsCall(calls[t])
         /\ {shouldHook, gate} \subseteq BOOLEAN
         /\ calls[t].pc \in Open =>
              /\ policy \in calls[t].during /\ gate \in calls[t].gates
              /\ ~shouldHook => NoPolicy \in calls[t].during
  BY DEF Inv, CallRight, Met, FlagStands

LEMMA ReadFlagsInv == ASSUME Inv, NEW t \in Thread, ReadFlags(t) PROVE Inv'
  <1> DEFINE c == calls[t]
  <1>1. c.pc = "flags" /\ CallRight(c) /\ Met(c) /\ IsCall(c) /\ {shouldHook, gate} \subseteq BOOLEAN
        /\ gate \in c.gates /\ (~shouldHook => NoPolicy \in c.during) /\ UNCHANGED shared
        /\ c.pc \in Open
    BY Facts DEF ReadFlags, Open
  <1>2. CASE shouldHook /\ gate
    <2> DEFINE n == [c EXCEPT !.pc = "ask"]
    <2>1. Now(t, n)
      BY <1>2 DEF ReadFlags
    <2>2. /\ IsCall(n) /\ n.pc = "ask" /\ n.op = c.op /\ n.asked = c.asked /\ n.says = c.says
          /\ n.to = c.to /\ n.refused = c.refused /\ n.during = c.during /\ n.gates = c.gates
      BY <1>1, Turned
    <2> HIDE DEF n, c
    <2>3. TRUE \in n.gates
      BY <1>1, <1>2, <2>2
    <2>4. AnsweredRight(n) /\ Counted(n) /\ n.refused = "no"
      <3>1. AnsweredRight(c) /\ Counted(c) /\ c.refused = "no"
        BY <1>1 DEF CallRight, Asking, Open
      <3>2. \A i : SaidOf(n, i) = SaidOf(c, i)
        BY <2>2 DEF SaidOf, Moments
      <3>3. AnsweredRight(n)
        BY <2>2, <3>1, <3>2 DEF AnsweredRight
      <3>4. Counted(n)
        BY <1>1, <2>2, <3>1 DEF Counted
      <3> QED
        BY <2>2, <3>1, <3>3, <3>4
    <2>5. CallRight(n)
      BY <2>2, <2>3, <2>4 DEF CallRight
    <2>6. Met(n)
      BY <1>1, <2>2 DEF Met
    <2> QED
      BY <1>1, <2>1, <2>5, <2>6, OneCall
  <1>3. CASE ~(shouldHook /\ gate)
    <2> DEFINE o == [decision |-> "unset", to |-> <<>>]
               n == Said(c, o.decision, o.to)
    <2>1. Now(t, n)
      BY <1>3 DEF ReadFlags
    <2> HIDE DEF c
    <2>2. NoPolicy \in Moments(c)
      BY <1>1, <1>3 DEF Moments
    <2>3. \A i : o \in MaySay(NoPolicy, c.asked[i])
      BY DEF MaySay
    <2>4. o \in SaidOf(c, Len(c.says) + 1)
      BY <2>2, <2>3 DEF SaidOf
    <2> HIDE DEF o
    <2>5. CallRight(n)
      BY <1>1, <2>4, ToldRight
    <2>6. Met(n)
      BY <1>1, Told DEF Met
    <2> QED
      BY <1>1, <2>1, <2>5, <2>6, OneCall
  <1> QED
    BY <1>2, <1>3

LEMMA AskInv == ASSUME Inv, NEW t \in Thread, Ask(t) PROVE Inv'
  <1> DEFINE c == calls[t]
             judged == c.asked[Len(c.says) + 1]
  <1>1. c.pc = "ask" /\ CallRight(c) /\ Met(c) /\ IsCall(c) /\ policy \in c.during
        /\ UNCHANGED shared /\ c.pc \in Open
    BY Facts DEF Ask, Open
  <1>2. PICK o \in MaySay(policy, judged) : Now(t, Said(c, o.decision, o.to))
    <2>1. CASE policy = NoPolicy /\ Now(t, Said(c, "unset", <<>>))
      BY <2>1 DEF MaySay
    <2>2. CASE policy # NoPolicy /\ judged = {} /\ Now(t, Said(c, "allow", <<>>))
      BY <2>2 DEF MaySay
    <2>3. CASE /\ policy # NoPolicy
               /\ \E path \in judged : \E o \in Outcomes(policy, path) :
                    Now(t, Said(c, o.decision, o.to))
      <3>1. PICK path \in judged : \E o \in Outcomes(policy, path) :
                                     Now(t, Said(c, o.decision, o.to))
        BY <2>3
      <3>2. judged # {} /\ \A o \in Outcomes(policy, path) : o \in MaySay(policy, judged)
        BY <2>3, <3>1 DEF MaySay
      <3> QED
        BY <3>1, <3>2
    <2> QED
      BY <2>1, <2>2, <2>3 DEF Ask
  <1> HIDE DEF c
  <1>3. policy \in Moments(c)
    BY <1>1 DEF CallRight, Moments
  <1>4. o \in SaidOf(c, Len(c.says) + 1)
    BY <1>2, <1>3 DEF SaidOf
  <1> DEFINE n == Said(c, o.decision, o.to)
  <1>5. CallRight(n)
    BY <1>1, <1>4, ToldRight
  <1>6. Met(n)
    BY <1>1, Told DEF Met
  <1> QED
    BY <1>1, <1>2, <1>5, <1>6, OneCall

(* What is refused some rules refuse; what is made is made as they say. *)
LEMMA RefuseInv == ASSUME Inv, NEW t \in Thread, Refuse(t) PROVE Inv'
  <1> DEFINE c == calls[t]
             errno == Errno(c.op)
             n == RefusedCall(c, errno)
  <1>1. c.pc = "act" /\ CallRight(c) /\ IsCall(c) /\ UNCHANGED shared /\ Now(t, n)
    BY Facts DEF Refuse, RefusedCall
  <1>2. PICK i \in DOMAIN c.says :
          c.says[i] \in IF c.op \in TwoPaths THEN {"block", "unset"} ELSE {"block"}
    BY DEF Refuse
  <1>3. errno # "no"
    BY DEF Errno
  <1> HIDE DEF c, errno
  <1>4. AnsweredRight(c) /\ Counted(c)
    BY <1>1 DEF CallRight, Asking
  <1>5. i \in 1 .. Len(c.says) /\ i \in DOMAIN c.asked
    BY <1>1, <1>2, <1>4, Sequences DEF Counted
  <1>6. PICK o \in SaidOf(c, i) : o.decision = c.says[i]
    BY <1>4, <1>5 DEF AnsweredRight
  <1>7. /\ IsCall(n) /\ n.pc = "done" /\ n.op = c.op /\ n.asked = c.asked
        /\ n.refused = errno /\ n.during = c.during /\ n.gates = c.gates
    BY <1>1, Refused
  <1> HIDE DEF n
  <1>8. o \in SaidOf(n, i)
    BY <1>7 DEF SaidOf, Moments
  <1>9. DoneAsSaid(n)
    BY <1>2, <1>3, <1>5, <1>6, <1>7, <1>8 DEF DoneAsSaid
  <1>10. CallRight(n) /\ Met(n)
    BY <1>7, <1>9 DEF CallRight, Met, Asking, Open
  <1> QED
    BY <1>1, <1>10, OneCall

LEMMA MakeInv == ASSUME Inv, NEW t \in Thread, Make(t) PROVE Inv'
  <1> DEFINE c == calls[t]
             acts == IF IsRedirected(c) THEN <<c.to>> ELSE c.leads
             pc(removed) == IF removed THEN "forget" ELSE "done"
  <1>1. c.pc = "act" /\ CallRight(c) /\ Met(c) /\ IsCall(c) /\ UNCHANGED shared /\ c.pc \in Open
        /\ \A i \in DOMAIN c.says : c.says[i] # "block"
    BY Facts DEF Make, Open
  <1>2. PICK removed \in BOOLEAN :
          Now(t, [c EXCEPT !.pc = pc(removed), !.removed = removed, !.acts = acts])
    BY DEF Make
  <1> DEFINE to == pc(removed)
             n == MadeCall(c, to, removed, acts)
  <1>3. to \in {"forget", "done"}
    BY <1>2
  <1>4. Now(t, n)
    BY <1>2 DEF MadeCall
  <1> HIDE DEF c, to
  <1>5. AnsweredRight(c) /\ Counted(c) /\ c.refused = "no"
    BY <1>1 DEF CallRight, Asking, Open
  <1>6. /\ IsSequence(c.says) /\ Len(c.says) = Len(c.asked) /\ Len(c.says) \in Nat
        /\ DOMAIN c.says = 1 .. Len(c.says) /\ DOMAIN c.asked = 1 .. Len(c.says)
    BY <1>1, <1>5, Sequences DEF Counted
  <1>7. ASSUME NEW i \in 1 .. Len(c.says), NEW o, o.decision = c.says[i],
               i = Len(c.says) => o.to = c.to
        PROVE  acts[i] = IF o.decision = "redirect" /\ c.op \notin NotRedirected
                         THEN o.to ELSE c.leads[i]
    <2>1. CASE c.op \in NotRedirected
      BY <2>1 DEF IsRedirected
    <2>2. CASE c.op \notin NotRedirected
      <3>1. Len(c.says) = 1
        BY <1>5, <1>6, <2>2 DEF Counted, NotRedirected
      <3>2. i = 1 /\ o.to = c.to
        BY <1>7, <3>1
      <3>3. c.says[1] = "redirect" => c.says = <<"redirect">>
        <4>1. PICK S : c.says \in Seq(S)
          BY <1>6 DEF IsSequence
        <4> QED
          BY <3>1, <4>1
      <3>4. IsRedirected(c) <=> o.decision = "redirect"
        BY <1>7, <2>2, <3>2, <3>3 DEF IsRedirected
      <3> QED
        BY <2>2, <3>2, <3>4
    <2> QED
      BY <2>1, <2>2
  <1> HIDE DEF acts
  <1>8. /\ IsCall(n) /\ n.pc = to /\ n.op = c.op /\ n.asked = c.asked /\ n.leads = c.leads
        /\ n.refused = c.refused /\ n.acts = acts /\ n.during = c.during /\ n.gates = c.gates
    BY <1>1, Made
  <1> HIDE DEF n
  <1>9. DoneAsSaid(n)
    <2> SUFFICES ASSUME NEW i \in 1 .. Len(c.says)
                 PROVE  \E o \in SaidOf(c, i) :
                          /\ o.decision # "block"
                          /\ acts[i] = IF o.decision = "redirect" /\ c.op \notin NotRedirected
                                       THEN o.to ELSE c.leads[i]
      <3>1. \A i : SaidOf(n, i) = SaidOf(c, i)
        BY <1>8 DEF SaidOf, Moments
      <3> QED
        BY <1>5, <1>6, <1>8, <3>1 DEF DoneAsSaid
    <2>1. PICK o \in SaidOf(c, i) : o.decision = c.says[i] /\ (i = Len(c.says) => o.to = c.to)
      BY <1>5 DEF AnsweredRight
    <2>2. c.says[i] # "block"
      BY <1>1, <1>6
    <2> QED
      BY <1>7, <2>1, <2>2
  <1>10. CallRight(n)
    BY <1>3, <1>5, <1>8, <1>9 DEF CallRight, Asking, Open
  <1>11. Met(n)
    BY <1>1, <1>8 DEF Met
  <1> QED
    BY <1>1, <1>4, <1>10, <1>11, OneCall

(* A change that leaves a call what it was to the properties. *)
LEMMA KeptRight ==
  ASSUME NEW c, CallRight(c), c.pc \in {"forget", "done"}, NEW n, IsCall(n),
         n.pc \in {"forget", "done"}, n.op = c.op, n.asked = c.asked, n.leads = c.leads,
         n.refused = c.refused, n.acts = c.acts, n.during = c.during, n.gates = c.gates,
         n.pc = "forget" => c.pc = "forget"
  PROVE  CallRight(n)
  <1>1. \A i : SaidOf(n, i) = SaidOf(c, i)
    BY DEF SaidOf, Moments
  <1>2. DoneAsSaid(n)
    BY <1>1 DEF CallRight, DoneAsSaid
  <1> QED
    BY <1>2 DEF CallRight, Asking, Open

LEMMA ForgetInv == ASSUME Inv, NEW t \in Thread, Forget(t) PROVE Inv'
  <1> DEFINE c == calls[t]
  <1>1. c.pc = "forget" /\ CallRight(c) /\ Met(c) /\ IsCall(c) /\ UNCHANGED shared
        /\ c.pc \in Open
    BY Facts DEF Forget, Open
  <1>2. CASE \E forgot : Now(t, [c EXCEPT !.forgot = forgot])
    <2>1. PICK forgot : Now(t, [c EXCEPT !.forgot = forgot])
      BY <1>2
    <2> HIDE DEF c
    <2> DEFINE n == [c EXCEPT !.forgot = forgot]
    <2>2. /\ IsCall(n) /\ n.pc = c.pc /\ n.op = c.op /\ n.asked = c.asked /\ n.leads = c.leads
          /\ n.refused = c.refused /\ n.acts = c.acts /\ n.during = c.during /\ n.gates = c.gates
      BY <1>1, ForgotOne
    <2> HIDE DEF n
    <2>3. CallRight(n) /\ Met(n)
      BY <1>1, <2>2, KeptRight DEF Met, Open
    <2> QED
      BY <1>1, <2>1, <2>3, OneCall DEF n
  <1>3. CASE \E forgot : Now(t, ForgottenCall(c, "done", forgot))
    <2>1. PICK forgot : Now(t, ForgottenCall(c, "done", forgot))
      BY <1>3
    <2> HIDE DEF c
    <2> DEFINE n == ForgottenCall(c, "done", forgot)
    <2>2. /\ IsCall(n) /\ n.pc = "done" /\ n.op = c.op /\ n.asked = c.asked /\ n.leads = c.leads
          /\ n.refused = c.refused /\ n.acts = c.acts /\ n.during = c.during /\ n.gates = c.gates
      BY <1>1, Forgot
    <2> HIDE DEF n
    <2>3. CallRight(n) /\ Met(n)
      BY <1>1, <2>2, KeptRight DEF Met, Open
    <2> QED
      BY <1>1, <2>1, <2>3, OneCall DEF n
  <1>4. \/ \E forgot : Now(t, [c EXCEPT !.forgot = forgot])
        \/ \E forgot : Now(t, ForgottenCall(c, "done", forgot))
    BY DEF Forget, ForgottenCall
  <1> QED
    BY <1>2, <1>3, <1>4

LEMMA ReturnInv == ASSUME Inv, NEW t \in Thread, Return(t) PROVE Inv'
  <1>1. Now(t, NoCall) /\ UNCHANGED shared
    BY DEF Return
  <1>2. CallRight(NoCall) /\ Met(NoCall)
    BY NoCallFacts DEF CallRight, Met, Asking, Open
  <1> QED
    BY <1>1, <1>2, OneCall

(* A listing asks about no path as a whole. *)
LEMMA ListingRight ==
  ASSUME NEW n, IsCall(n), n.pc \in {"take", "filter", "done"}, n.asked = <<>>, n.refused = "no"
  PROVE  CallRight(n)
  <1>1. DOMAIN n.asked = {}
    OBVIOUS
  <1>2. DoneAsSaid(n)
    BY <1>1 DEF DoneAsSaid
  <1> QED
    BY <1>2 DEF CallRight, Asking

LEMMA BeginListingInv == ASSUME Inv, NEW t \in Thread, BeginListing(t) PROVE Inv'
  <1>1. PICK op \in Listings, dir \in DOMAIN Entries :
          Now(t, [NoCall EXCEPT !.pc = "take", !.op = op, !.dir = dir,
                                !.during = {policy} \cup replaced, !.gates = {gate}])
    BY DEF BeginListing
  <1> DEFINE during == {policy} \cup replaced
             gates == {gate}
             n == OpenedCall(NoCall, op, dir, during, gates)
  <1>2. policy \in during /\ replaced \subseteq during /\ gate \in gates
    OBVIOUS
  <1>3. Now(t, n) /\ UNCHANGED shared
    BY <1>1 DEF BeginListing, OpenedCall
  <1> HIDE DEF during, gates
  <1>4. /\ IsCall(n) /\ n.pc = "take" /\ n.asked = NoCall.asked
        /\ n.refused = NoCall.refused /\ n.during = during /\ n.gates = gates
    BY NoCallFacts, Opened
  <1> HIDE DEF n
  <1>5. CallRight(n) /\ Met(n)
    BY <1>2, <1>4, NoCallFacts, ListingRight DEF Met
  <1> QED
    BY <1>3, <1>5, OneCall

LEMMA ListingStep ==
  ASSUME Inv, NEW t \in Thread, calls[t].pc \in {"take", "filter"}, UNCHANGED shared,
         NEW n, Now(t, n), IsCall(n), n.pc \in {"take", "filter", "done"},
         n.asked = calls[t].asked, n.refused = calls[t].refused,
         n.during = calls[t].during, n.gates = calls[t].gates
  PROVE  Inv'
  <1>1. CallRight(calls[t]) /\ Met(calls[t])
    BY Facts
  <1>2. CallRight(n)
    BY <1>1, ListingRight DEF CallRight, Open
  <1>3. Met(n)
    BY <1>1 DEF Met, Open
  <1> QED
    BY <1>2, <1>3, OneCall

LEMMA TakeInv == ASSUME Inv, NEW t \in Thread, Take(t) PROVE Inv'
  <1> DEFINE c == calls[t]
  <1>1. c.pc = "take" /\ IsCall(c) /\ UNCHANGED shared
    BY Facts DEF Take
  <1>2. CASE Now(t, [c EXCEPT !.pc = "done"])
    <2> DEFINE n == [c EXCEPT !.pc = "done"]
    <2> HIDE DEF c
    <2>1. /\ IsCall(n) /\ n.pc = "done" /\ n.asked = c.asked /\ n.refused = c.refused
          /\ n.during = c.during /\ n.gates = c.gates
      BY <1>1, Turned
    <2> HIDE DEF n
    <2> QED
      BY <1>1, <1>2, <2>1, ListingStep DEF c, n
  <1>3. CASE \E next, chunk : Now(t, TakenCall(c, next, chunk))
    <2>1. PICK next, chunk : Now(t, TakenCall(c, next, chunk))
      BY <1>3
    <2> DEFINE n == TakenCall(c, next, chunk)
    <2> HIDE DEF c
    <2>2. /\ IsCall(n) /\ n.pc = "filter" /\ n.asked = c.asked /\ n.refused = c.refused
          /\ n.during = c.during /\ n.gates = c.gates
      BY <1>1, Taken
    <2> HIDE DEF n
    <2> QED
      BY <1>1, <2>1, <2>2, ListingStep DEF c, n
  <1>4. \/ Now(t, [c EXCEPT !.pc = "done"])
        \/ \E next, chunk : Now(t, TakenCall(c, next, chunk))
    BY DEF Take, TakenCall
  <1> QED
    BY <1>2, <1>3, <1>4

LEMMA FilterInv == ASSUME Inv, NEW t \in Thread, Filter(t) PROVE Inv'
  <1> DEFINE c == calls[t]
  <1>1. c.pc = "filter" /\ IsCall(c) /\ UNCHANGED shared
    BY Facts DEF Filter
  <1>2. PICK hidden : Now(t, Passed(c, hidden))
    BY DEF Filter
  <1> DEFINE chunk == Tail(c.chunk)
             some == c.some \/ ~hidden
             shown == IF hidden THEN c.shown ELSE c.shown \cup {Head(c.chunk)}
             pc == IF chunk # <<>> THEN "filter"
                   ELSE IF c.op = "readdir" \/ c.some \/ ~hidden THEN "take" ELSE "done"
             n == WentCall(c, chunk, some, shown, pc)
  <1>3. Now(t, n)
    BY <1>2 DEF Passed, WentCall
  <1>4. pc \in {"take", "filter", "done"}
    OBVIOUS
  <1> HIDE DEF c, chunk, some, shown, pc
  <1>5. /\ IsCall(n) /\ n.pc = pc /\ n.asked = c.asked /\ n.refused = c.refused
        /\ n.during = c.during /\ n.gates = c.gates
    BY <1>1, Went
  <1> HIDE DEF n
  <1> QED
    BY <1>1, <1>3, <1>4, <1>5, ListingStep DEF c
-----------------------------------------------------------------------------
(* A reload that puts rules or a gate in force adds them to what the calls *)
(* under way have met.                                                     *)
LEMMA MeetingInv ==
  ASSUME Inv, NEW rules, NEW open, calls' = Meeting(rules, open), policy' = rules, gate' = open,
         replaced' \subseteq {policy}, FlagStands'
  PROVE  Inv'
  <1>1. calls' = [t \in Thread |->
                    IF calls[t].pc \in {"idle", "done"} THEN calls[t]
                    ELSE MetCall(calls[t], calls[t].during \cup {rules}, calls[t].gates \cup {open})]
    BY DEF Meeting, MetCall
  <1>2. ASSUME NEW t \in Thread PROVE (CallRight(calls[t]) /\ Met(calls[t]))'
    <2> DEFINE c == calls[t]
               during == c.during \cup {rules}
               gates == c.gates \cup {open}
               n == MetCall(c, during, gates)
    <2>1. CallRight(c) /\ Met(c) /\ IsCall(c)
      BY Facts
    <2>2. CASE c.pc \in {"idle", "done"}
      <3>1. calls'[t] = c
        BY <1>1, <2>2
      <3>2. CallRight(calls'[t]) /\ calls'[t].pc \notin Open
        BY <2>1, <2>2, <3>1 DEF Open
      <3>3. CallRight(calls[t])'
        BY <3>2
      <3> QED
        BY <3>2, <3>3 DEF Met
    <2>3. CASE c.pc \notin {"idle", "done"}
      <3>1. calls'[t] = n
        BY <1>1, <2>3
      <3>2. /\ c.during \subseteq during /\ rules \in during
            /\ c.gates \subseteq gates /\ open \in gates
            /\ c.pc \in Open => policy \in during
        BY <2>1 DEF Met
      <3> HIDE DEF c, during, gates
      <3>3. /\ IsCall(n) /\ n.pc = c.pc /\ n.op = c.op /\ n.asked = c.asked
            /\ n.leads = c.leads /\ n.says = c.says /\ n.to = c.to /\ n.refused = c.refused
            /\ n.acts = c.acts /\ n.during = during /\ n.gates = gates
        BY <2>1, Extended
      <3> HIDE DEF n
      <3>4. CallRight(n)
        BY <2>1, <3>2, <3>3, CallGrows
      <3>5. n.pc \in Open => rules \in n.during /\ {policy} \subseteq n.during /\ open \in n.gates
        BY <3>2, <3>3
      <3>6. CallRight(calls[t])'
        BY <3>1, <3>4
      <3>7. Met(calls[t])'
        BY <3>1, <3>5 DEF Met
      <3> QED
        BY <3>6, <3>7
    <2> QED
      BY <2>2, <2>3
  <1>3. calls' = [t \in Thread |-> calls'[t]]
    BY <1>1
  <1> QED
    BY <1>2, <1>3 DEF Inv

LEMMA ReloadRulesInv == ASSUME Inv, ReloadRules PROVE Inv'
  <1>1. calls' = Meeting(policy', gate') /\ replaced' = {policy}
    BY DEF ReloadRules
  <1>2. FlagStands'
    BY DEF ReloadRules, Inv, FlagStands
  <1> QED
    BY <1>1, <1>2, MeetingInv

LEMMA ReloadFlagInv == ASSUME Inv, ReloadFlag PROVE Inv'
  <1>1. FlagStands'
    BY DEF ReloadFlag, Inv, FlagStands
  <1>2. calls' = calls /\ policy' = policy /\ replaced' = replaced /\ gate' = gate
    BY DEF ReloadFlag
  <1> QED
    BY <1>1, <1>2 DEF Inv, Met

LEMMA ReloadGateInv == ASSUME Inv, ReloadGate PROVE Inv'
  <1>1. calls' = Meeting(policy', gate') /\ replaced' = {}
    BY DEF ReloadGate
  <1>2. FlagStands'
    BY DEF ReloadGate, Inv, FlagStands
  <1> QED
    BY <1>1, <1>2, MeetingInv

LEMMA InitInv == Init => Inv
  <1> SUFFICES ASSUME Init PROVE Inv
    OBVIOUS
  <1>1. FlagStands
    BY DEF Init, FlagStands
  <1>2. calls = [t \in Thread |-> NoCall]
    BY DEF Init
  <1>3. CallRight(NoCall) /\ Met(NoCall)
    BY NoCallFacts DEF CallRight, Met, Asking, Open
  <1>4. calls = [t \in Thread |-> calls[t]]
    BY <1>2
  <1>5. \A t \in Thread : calls[t] = NoCall
    BY <1>2
  <1> QED
    BY <1>1, <1>3, <1>4, <1>5 DEF Inv

LEMMA StepInv == ASSUME Inv, [Next]_vars PROVE Inv'
  <1>1. CASE ReloadRules
    BY <1>1, ReloadRulesInv
  <1>2. CASE ReloadFlag
    BY <1>2, ReloadFlagInv
  <1>3. CASE ReloadGate
    BY <1>3, ReloadGateInv
  <1>4. CASE SetMarker
    <2>1. FlagStands'
      BY <1>4 DEF SetMarker, Inv, FlagStands
    <2>2. calls' = calls /\ policy' = policy /\ replaced' = replaced /\ gate' = gate
      BY <1>4 DEF SetMarker
    <2> QED
      BY <2>1, <2>2 DEF Inv, Met
  <1>5. ASSUME NEW t \in Thread, Step(t) PROVE Inv'
    <2>1. CASE Begin(t)
      BY <2>1, BeginInv
    <2>2. CASE ReadFlags(t)
      BY <2>2, ReadFlagsInv
    <2>3. CASE Ask(t)
      BY <2>3, AskInv
    <2>4. CASE Refuse(t)
      BY <2>4, RefuseInv
    <2>5. CASE Make(t)
      BY <2>5, MakeInv
    <2>6. CASE Forget(t)
      BY <2>6, ForgetInv
    <2>7. CASE Return(t)
      BY <2>7, ReturnInv
    <2>8. CASE BeginListing(t)
      BY <2>8, BeginListingInv
    <2>9. CASE Take(t)
      BY <2>9, TakeInv
    <2>10. CASE Filter(t)
      BY <2>10, FilterInv
    <2> QED
      BY <1>5, <2>1, <2>2, <2>3, <2>4, <2>5, <2>6, <2>7, <2>8, <2>9, <2>10 DEF Step
  <1>6. CASE UNCHANGED vars
    <2>1. FlagStands'
      BY <1>6 DEF vars, Inv, FlagStands
    <2>2. calls' = calls /\ policy' = policy /\ replaced' = replaced /\ gate' = gate
      BY <1>6 DEF vars
    <2> QED
      BY <2>1, <2>2 DEF Inv, Met
  <1> QED
    BY <1>1, <1>2, <1>3, <1>4, <1>5, <1>6 DEF Next

(* DoneAsSomeRulesSay, for any number of threads, of calls and of rules:   *)
(* reading the flags before the lock, and two paths under two locks, never *)
(* makes of a call what no rules in force while it ran would have made of  *)
(* it.                                                                     *)
THEOREM DoneAsRulesSay == Spec => []DoneAsSomeRulesSay
  <1>1. Inv => DoneAsSomeRulesSay
    BY DEF Inv, CallRight, DoneAsSomeRulesSay
  <1> QED
    BY <1>1, InitInv, StepInv, PTL DEF Spec
-----------------------------------------------------------------------------
(* Of finitely many things that are ordered, something comes first. *)
LEMMA FirstExists ==
  ASSUME NEW S, IsFiniteSet(S), S # {}, NEW R,
         \A x \in S : <<x, x>> \notin R,
         \A x, y, z \in S : <<x, y>> \in R /\ <<y, z>> \in R => <<x, z>> \in R
  PROVE  \E x \in S : \A y \in S : <<y, x>> \notin R
  <1> SUFFICES ASSUME \A x \in S : \E y \in S : <<y, x>> \in R PROVE FALSE
    OBVIOUS
  <1> DEFINE Unbounded(X) == X # {} /\ \A x \in X : \E y \in X : <<y, x>> \in R
             T == {X \in SUBSET S : Unbounded(X)}
  <1>1. FiniteSubsetsOf(S) = SUBSET S
    BY FS_FiniteSubsetsOfFinite
  <1>2. IsWellFoundedOn(StrictSubsetOrdering(S), SUBSET S)
    BY <1>1, FS_StrictSubsetOrderingWellFounded
  <1>3. S \in T
    OBVIOUS
  <1>4. PICK X \in T : \A Y \in T : <<Y, X>> \notin StrictSubsetOrdering(S)
    <2>1. T \subseteq SUBSET S /\ T # {}
      BY <1>3
    <2> HIDE DEF T
    <2> QED
      BY <1>2, <2>1, WFMin
  <1>5. PICK x \in X : \E y \in X : <<y, x>> \in R
    BY <1>4
  <1> DEFINE Y == {y \in X : <<y, x>> \in R}
  <1>6. Y \in T
    <2>1. Y \in SUBSET S /\ Y # {}
      BY <1>4, <1>5
    <2>2. ASSUME NEW y \in Y PROVE \E z \in Y : <<z, y>> \in R
      <3>1. PICK z \in X : <<z, y>> \in R
        BY <1>4
      <3>2. <<z, x>> \in R
        BY <1>4, <1>5, <3>1
      <3> QED
        BY <3>1, <3>2
    <2> QED
      BY <2>1, <2>2
  <1>7. Y \subseteq X /\ x \notin Y /\ X \in SUBSET S
    BY <1>4
  <1>8. <<Y, X>> \in StrictSubsetOrdering(S)
    BY <1>5, <1>7 DEF StrictSubsetOrdering
  <1> QED
    BY <1>4, <1>6, <1>8

(* Sequences of six numbers in the order of Before. *)
Lower(f, g) ==
  \E i \in 1 .. 6 : f[i] > g[i] /\ \A j \in 1 .. i - 1 : f[j] = g[j]

LEMMA LowerTransitive ==
  ASSUME NEW f, NEW g, NEW h, \A i \in 1 .. 6 : f[i] \in Int /\ g[i] \in Int /\ h[i] \in Int,
         Lower(f, g), Lower(g, h)
  PROVE  Lower(f, h)
  <1>1. PICK i \in 1 .. 6 : f[i] > g[i] /\ \A j \in 1 .. i - 1 : f[j] = g[j]
    BY DEF Lower
  <1>2. PICK k \in 1 .. 6 : g[k] > h[k] /\ \A j \in 1 .. k - 1 : g[j] = h[j]
    BY DEF Lower
  <1>3. CASE i < k
    <2>1. i \in 1 .. k - 1 /\ \A j \in 1 .. i - 1 : j \in 1 .. k - 1
      BY <1>3
    <2>2. f[i] > h[i] /\ \A j \in 1 .. i - 1 : f[j] = h[j]
      BY <1>1, <1>2, <2>1
    <2> QED
      BY <2>2 DEF Lower
  <1>4. CASE i = k
    <2>1. f[i] > h[i] /\ \A j \in 1 .. i - 1 : f[j] = h[j]
      BY <1>1, <1>2, <1>4
    <2> QED
      BY <2>1 DEF Lower
  <1>5. CASE k < i
    <2>1. k \in 1 .. i - 1 /\ \A j \in 1 .. k - 1 : j \in 1 .. i - 1
      BY <1>5
    <2>2. f[k] > h[k] /\ \A j \in 1 .. k - 1 : f[j] = h[j]
      BY <1>1, <1>2, <2>1
    <2> QED
      BY <2>2 DEF Lower
  <1> QED
    BY <1>3, <1>4, <1>5

(* A compiled rule. *)
Compiled(c) ==
  /\ c.kind \in Kind
  /\ c.rule.action \in {"allow", "deny", "redirect", "dynamic"}
  /\ c.rule.glob \in {"none", "name", "path"}
  /\ c.rule.path \in Seq(STRING) /\ c.rule.base \in Seq(STRING)
  /\ c.rule.size \in Nat /\ c.rule.line \in Nat

LEMMA RankInt ==
  ASSUME NEW c, Compiled(c)
  PROVE  \A i \in 1 .. 6 : Rank(c)[i] \in Int
  <1>1. /\ KindPriority[c.kind] \in Int /\ ActionPriority[c.rule.action] \in Int
        /\ GlobRank[c.rule.glob] \in Int
    BY DEF Compiled, KindPriority, ActionPriority, GlobRank, Kind
  <1> DEFINE k == KindPriority[c.kind]
             a == ActionPriority[c.rule.action]
             g == GlobRank[c.rule.glob]
             n == IF c.rule.types = AnyType THEN 0 ELSE 1
  <1>2. k \in Int /\ a \in Int /\ g \in Int /\ n \in Int /\ c.rule.size \in Int
        /\ 0 - c.rule.line \in Int
    BY <1>1 DEF Compiled
  <1>3. Rank(c) = <<c.rule.size, k, a, g, n, 0 - c.rule.line>>
    BY DEF Rank
  <1> HIDE DEF k, a, g, n
  <1> QED
    BY <1>2, <1>3

LEMMA BucketLength ==
  ASSUME NEW c, Compiled(c)
  PROVE  Len(BucketKey(c)) \in Nat
  <1>1. BucketPath(c) \in Seq(STRING)
    BY DEF BucketPath, Compiled
  <1> DEFINE p == BucketPath(c)
  <1>2. Len(p) > 3 => SubSeq(p, 1, 3) \in Seq(STRING)
    BY <1>1
  <1> QED
    BY <1>1, <1>2 DEF BucketKey

LEMMA SoonerOrders ==
  ASSUME NEW p, NEW q, NEW r, NEW s, Compiled(q), Compiled(r), Compiled(s)
  PROVE  /\ ~Sooner(q, q, p)
         /\ Sooner(q, r, p) /\ Sooner(r, s, p) => Sooner(q, s, p)
  <1>1. \A x, y : Before(x, y) <=> Lower(Rank(x), Rank(y))
    BY DEF Before, Lower
  <1>2. ~Before(q, q)
    BY <1>1, RankInt DEF Lower
  <1>3. Before(q, r) /\ Before(r, s) => Before(q, s)
    <2>1. \A i \in 1 .. 6 : Rank(q)[i] \in Int /\ Rank(r)[i] \in Int /\ Rank(s)[i] \in Int
      BY RankInt
    <2> QED
      BY <1>1, <2>1, LowerTransitive
  <1> DEFINE n(x) == Len(BucketKey(x))
             b(x, y) == Before(x, y)
             e == IsExternalPath(p)
  <1>4. n(q) \in Nat /\ n(r) \in Nat /\ n(s) \in Nat
    BY BucketLength
  <1>5. \A x, y : Sooner(x, y, p) <=>
          \/ e /\ n(x) > n(y)
          \/ /\ e => n(x) = n(y)
             /\ b(x, y)
    BY DEF Sooner
  <1>6. ~b(q, q) /\ (b(q, r) /\ b(r, s) => b(q, s))
    BY <1>2, <1>3
  <1> HIDE DEF n, b, e
  <1> QED
    BY <1>4, <1>5, <1>6

(* The rules of a policy are compiled, and there are finitely many. *)
Ruled(p) == IsFiniteSet(p.rules) /\ \A c \in p.rules : Compiled(c)

LEMMA PolicyRuled == ASSUME NEW p \in MayHold, p # NoPolicy PROVE Ruled(p)
  <1>1. PICK s \in Section : p = Compile(s)
    BY DEF MayHold
  <1>2. IsFiniteSet(s.rules) /\ \A r \in s.rules :
          /\ r.action \in {"allow", "deny", "redirect", "dynamic", "delete"}
          /\ r.glob \in {"none", "name", "path"}
          /\ r.path \in Seq(STRING) /\ r.base \in Seq(STRING)
          /\ r.size \in Nat /\ r.line \in Nat
    BY RulesFact DEF RulesAssumption
  <1> DEFINE Q == {q \in s.rules : q.action # "delete"}
             One(r) == [rule |-> r, kind |-> InferCompiledRuleKind(r)]
  <1>3. p.rules = {One(r) : r \in Q}
    BY <1>1 DEF Compile
  <1>4. IsFiniteSet(Q)
    BY <1>2, FS_Subset
  <1>5. IsFiniteSet(p.rules)
    <2> HIDE DEF Q
    <2>1. IsFiniteSet({One(r) : r \in Q})
      <3> HIDE DEF One
      <3> DEFINE f == [r \in Q |-> One(r)]
                 T == {One(r) : r \in Q}
      <3>1. f \in Surjection(Q, T)
        BY DEF Surjection
      <3> HIDE DEF f, T
      <3>2. IsFiniteSet(T)
        BY <1>4, <3>1, FS_Surjection
      <3> QED
        BY <3>2 DEF T
    <2> QED
      BY <1>3, <2>1
  <1>6. ASSUME NEW c \in p.rules PROVE Compiled(c)
    <2>1. PICK r \in Q : c = One(r)
      BY <1>3
    <2>2. InferCompiledRuleKind(r) \in Kind
      BY DEF InferCompiledRuleKind, Kind
    <2>3. c.rule = r /\ c.kind \in Kind
      BY <2>1, <2>2
    <2> QED
      BY <1>2, <2>1, <2>3 DEF Compiled
  <1> QED
    BY <1>5, <1>6 DEF Ruled

(* MatchPath always answers: whatever the rules and whatever the kinds are *)
(* that are still to be settled, one of the rules that match is looked at  *)
(* first.                                                                  *)
THEOREM MatchPathAnswers ==
  \A p \in MayHold : p # NoPolicy => \A path : Outcomes(p, path) # {}
  <1> SUFFICES ASSUME NEW p \in MayHold, p # NoPolicy, NEW path PROVE Outcomes(p, path) # {}
    OBVIOUS
  <1>1. Ruled(p)
    BY PolicyRuled
  <1> DEFINE unknown == {c \in p.rules : c.kind = "auto"}
  <1>2. PICK k \in [unknown -> {"file", "directory"}] : TRUE
    <2>1. [c \in unknown |-> "file"] \in [unknown -> {"file", "directory"}]
      OBVIOUS
    <2> QED
      BY <2>1
  <1> DEFINE hits == {c \in Searched(p.rules, path) : Matches(c, KindUnder(c, k), path)}
             first == {d \in hits : \A e \in hits : ~Sooner(e, d, path)}
  <1>3. Answers(p, path, k) # {}
    <2>1. CASE hits = {}
      BY <2>1 DEF Answers
    <2>2. CASE hits # {}
      <3>1. hits \subseteq p.rules
        BY DEF Searched
      <3>2. IsFiniteSet(hits) /\ \A c \in hits : Compiled(c)
        BY <1>1, <3>1, FS_Subset DEF Ruled
      <3> DEFINE R == {x \in hits \X hits : Sooner(x[1], x[2], path)}
      <3>3. first # {}
        <4> HIDE DEF hits
        <4>1. \A x, y \in hits : <<x, y>> \in R <=> Sooner(x, y, path)
          OBVIOUS
        <4>2. /\ \A x \in hits : ~Sooner(x, x, path)
              /\ \A x, y, z \in hits :
                   Sooner(x, y, path) /\ Sooner(y, z, path) => Sooner(x, z, path)
          BY <3>2, SoonerOrders
        <4> HIDE DEF R
        <4>3. /\ \A x \in hits : <<x, x>> \notin R
              /\ \A x, y, z \in hits : <<x, y>> \in R /\ <<y, z>> \in R => <<x, z>> \in R
          BY <4>1, <4>2
        <4>4. \E x \in hits : \A y \in hits : <<y, x>> \notin R
          BY <2>2, <3>2, <4>3, FirstExists
        <4> QED
          BY <4>1, <4>4
      <3>4. PICK c \in first : TRUE
        BY <3>3
      <3>5. [decision |-> Decision[c.rule.action],
             to |-> IF c.rule.action = "redirect"
                    THEN BuildRedirectPath(c, KindUnder(c, k), path) ELSE <<>>]
              \in Answers(p, path, k)
        BY <2>2, <3>4 DEF Answers
      <3> QED
        BY <3>5
    <2> QED
      BY <2>1, <2>2
  <1> QED
    BY <1>2, <1>3 DEF Outcomes
-----------------------------------------------------------------------------
(* An entry of a directory is read to where the kernel gets to by it. *)
LEMMA EntryRead ==
  ASSUME NEW dir, Clean(dir), NEW e \in ProperName, Fits(Append(dir, e)),
         fm_normalize_path(Absolute(Append(dir, e))) # {}
  PROVE  NormalizeRulePath(Absolute(Append(dir, e))) = {Reached(dir, <<e>>)}
  <1> DEFINE w == Append(dir, e)
             E == ExternalPrimary
  <1>1. dir \in Seq(ProperName) /\ dir \in Path /\ Reached(<<>>, dir) = dir
    BY CleanReached DEF Clean
  <1>2. w \in Seq(ProperName) /\ w \in Path /\ Trimmed(w) = w
    BY <1>1, Grown, ProperPath
  <1>3. Reached(dir, <<e>>) = Reached(<<>>, w)
    <2>1. <<e>> \in Path /\ <<>> \in Path
      <3> DEFINE S == STRING
      <3>1. e \in S
        BY ProperFacts
      <3> HIDE DEF S
      <3>2. <<e>> \in Seq(S) /\ <<>> \in Seq(S)
        BY <3>1
      <3> QED
        BY <3>2 DEF Path, S
    <2>2. w = dir \o <<e>>
      BY <1>1
    <2> QED
      BY <1>1, <2>1, <2>2, ReachedOn
  <1>4. \A a \in Aliases : IsPrefix(a, w) => a = w
    <2>1. ASSUME NEW a \in Aliases, IsPrefix(a, w) PROVE a = w
      <3>1. a \in Seq(ProperName)
        BY StoragePaths
      <3>2. IsPrefix(a, dir) \/ a = w
        BY <1>1, <2>1, <3>1, PrefixGrown
      <3> QED
        BY <3>2 DEF Clean
    <2> QED
      BY <2>1
  <1>5. Len(w) <= MaxNames
    BY DEF Fits
  <1>6. CASE w \notin Aliases
    <2>1. Clean(w)
      BY <1>2, <1>4, <1>6 DEF Clean
    <2>2. IsLead(w, w)
      BY <1>2, <1>5, <2>1 DEF IsLead, Shaped
    <2>3. NormalizeRulePath(Absolute(w)) = {w} /\ Reached(<<>>, w) = w
      BY <2>1, <2>2, LeadRead, CleanReached
    <2> QED
      BY <1>3, <2>3
  <1>7. CASE w \in Aliases
    <2>1. Unaliased(w) = E
      <3>1. Len(w) \in Nat /\ IsPrefix(w, w)
        BY <1>2, WholePrefix DEF IsPrefix
      <3>2. (CHOOSE a \in Aliases : IsPrefix(a, w)) = w
        BY <1>4, <1>7, <3>1
      <3>3. Unaliased(w) = E \o Suffix(w, w)
        BY <1>7, <3>1, <3>2 DEF Unaliased
      <3>4. Suffix(w, w) = <<>>
        <4> DEFINE S == ProperName
        <4>1. w \in Seq(S)
          BY <1>2
        <4> HIDE DEF w, S
        <4> QED
          BY <4>1 DEF Suffix
      <3>5. E \in Seq(ProperName)
        BY StoragePaths
      <3> QED
        BY <3>3, <3>4, <3>5
    <2>2. IsMapped(w) /\ ~IsPrefix(E, w)
      <3>1. IsPrefix(w, w)
        BY <1>2, WholePrefix DEF IsPrefix
      <3> QED
        BY <1>7, <3>1, PathsFact DEF IsMapped, PathsAssumption
    <2>3. fm_normalize_path(Absolute(w)) =
            {Absolute(p) : p \in IF ~Fits(E) THEN {} ELSE Collapse(E)}
      BY <2>1, <2>2, Absolutes DEF fm_normalize_path
    <2>4. Fits(E)
      BY <2>3
    <2>5. IsLead(E, E)
      <3>1. E \in Path /\ Trimmed(E) = E
        BY StoragePaths, ProperPath
      <3> QED
        BY <2>4, <3>1, PrimaryClean DEF IsLead, Shaped, Fits
    <2>6. fm_normalize_path(Absolute(w)) = {Absolute(E)}
      BY <2>3, <2>4, <2>5, LeadPlain
    <2>7. NormalizeRulePath(Absolute(w)) = {E}
      BY <2>2, <2>6, Absolutes DEF NormalizeRulePath
    <2> QED
      BY <1>3, <1>7, <2>7, AliasReached
  <1> QED
    BY <1>6, <1>7

(* What an entry is judged by is where the kernel gets to by it, where the *)
(* code can tell.                                                          *)
LEMMA EntryJudged ==
  ASSUME NEW dir, IsResolved(dir), NEW e \in ProperName
  PROVE  Whereabouts(dir, e) = JudgedEntry(dir, e)
  <1> SUFFICES ASSUME Tellable(dir, e) PROVE JudgedEntry(dir, e) = {Key(Reached(dir, <<e>>))}
    BY DEF Whereabouts
  <1> DEFINE w == Append(dir, e)
  <1>1. Clean(dir) /\ dir \in Seq(ProperName) /\ dir \in Path /\ Trimmed(dir) = dir
    BY ProperPath DEF IsResolved, Clean
  <1>2. Fits(w) /\ fm_normalize_path(Absolute(w)) # {} /\ (dir = <<>> \/ IsPrefix(ExternalPrimary, dir))
    BY DEF Tellable
  <1>3. fm_resolve_fd_path(dir) = {Absolute(dir)}
    <2>1. CASE dir = <<>>
      <3>1. ASSUME NEW a \in Aliases \cup {ExternalPrimary} PROVE ~IsPrefix(a, <<>>)
        <4>1. a \in Seq(ProperName) /\ a # <<>>
          BY StoragePaths
        <4>2. Len(a) \in Nat /\ Len(a) # 0
          BY <4>1
        <4> QED
          BY <4>2 DEF IsPrefix
      <3>2. ~IsMapped(<<>>)
        BY <3>1 DEF IsMapped
      <3> QED
        BY <2>1, <3>2, Absolutes DEF fm_resolve_fd_path, NormalizedInPlace
    <2>2. CASE IsPrefix(ExternalPrimary, dir)
      <3>1. Len(dir) <= MaxNames
        <4>1. Len(w) = Len(dir) + 1 /\ Len(dir) \in Nat /\ MaxNames \in Nat
          BY <1>1, PathsFact DEF PathsAssumption
        <4> QED
          BY <1>2, <4>1 DEF Fits
      <3>2. IsLead(dir, dir)
        BY <1>1, <3>1 DEF IsLead, Shaped
      <3>3. IsMapped(dir)
        BY <2>2 DEF IsMapped
      <3> QED
        BY <3>2, <3>3, LeadRead, Absolutes DEF fm_resolve_fd_path, NormalizedInPlace
    <2> QED
      BY <1>2, <2>1, <2>2
  <1>4. {b \in {Trimmed(d.names) : d \in fm_resolve_fd_path(dir)} : Fits(Append(b, e))} = {dir}
    BY <1>1, <1>2, <1>3, Absolutes
  <1>5. NormalizeRulePath(Absolute(w)) = {Reached(dir, <<e>>)}
    BY <1>1, <1>2, EntryRead
  <1>6. JudgedEntry(dir, e) = {Key(p) : p \in UNION {NormalizeRulePath(Absolute(Append(b, e))) : b \in {dir}}}
    BY <1>4 DEF JudgedEntry
  <1> QED
    BY <1>5, <1>6

(* What rules that were in force during a listing say of an entry. *)
SaidOfEntry(c, e) == UNION {MaySay(p, Whereabouts(c.dir, e)) : p \in c.during}

(* The names in a directory that is listed. *)
EntryName == ProperName \cup {".", ".."}

LEMMA EntriesTyped ==
  ASSUME NEW dir \in DOMAIN Entries
  PROVE  IsResolved(dir) /\ Entries[dir] \in Seq(EntryName) /\ Entries[dir] \in Seq(STRING)
  <1>1. IsResolved(dir) /\ Entries[dir] \in Seq(EntryName)
    BY CallsFact DEF CallsAssumption, EntryName
  <1>2. EntryName \subseteq STRING
    BY NamesFact DEF EntryName, ProperName
  <1> QED
    BY <1>1, <1>2, Wider
HiddenBy(o, e) == o.decision = "block" /\ e \notin {".", ".."}

(* The entries a listing has behind it. *)
Behind(c) == 1 .. c.next - Len(c.chunk) - 1

(* The chunk is what comes next in the directory; what is behind was shown *)
(* or hidden by rules that were in force.                                  *)
InOrder(c) ==
  LET entry == Entries[c.dir]
      first == c.next - Len(c.chunk)
  IN  /\ c.chunk \in Seq(STRING) /\ first \in 1 .. Len(entry) + 1 /\ c.next <= Len(entry) + 1
      /\ \A j \in 1 .. Len(c.chunk) : c.chunk[j] = entry[first + j - 1]
      /\ \A i \in Behind(c) :
           entry[i] \in c.shown \/ \E o \in SaidOfEntry(c, entry[i]) : HiddenBy(o, entry[i])

ListingRuled(c) ==
  /\ c.pc \in {"take", "filter"} => c.op \in Listings
  /\ c.op \in Listings =>
       /\ c.pc \in {"take", "filter", "done"}
       /\ c.dir \in DOMAIN Entries /\ c.next \in Nat
       /\ InOrder(c)
       /\ c.pc = "filter" <=> c.chunk # <<>>
       /\ c.pc = "done" /\ c.op = "readdir" => c.next = Len(Entries[c.dir]) + 1
       /\ \A e \in c.shown : \E o \in SaidOfEntry(c, e) : ~HiddenBy(o, e)

ListingsRuled ==
  /\ policy \in MayHold
  /\ \A t \in Thread : ListingRuled(calls[t])

LEMMA OneListing ==
  ASSUME Inv, ListingsRuled, NEW t \in Thread, NEW c, Now(t, c), UNCHANGED shared,
         ListingRuled(c)
  PROVE  ListingsRuled'
  <1>1. calls'[t] = c /\ \A u \in Thread \ {t} : calls'[u] = calls[u]
    BY DEF Inv, Now
  <1>2. ASSUME NEW u \in Thread PROVE ListingRuled(calls[u])'
    <2>1. ListingRuled(calls'[u])
      BY <1>1 DEF ListingsRuled
    <2> QED
      BY <2>1
  <1> QED
    BY <1>2 DEF ListingsRuled, shared

(* A call that is no listing does not become one. *)
LEMMA NoListing ==
  ASSUME Inv, ListingsRuled, NEW t \in Thread, UNCHANGED shared, NEW n, Now(t, n),
         n.op \notin Listings, n.pc \notin {"take", "filter"}
  PROVE  ListingsRuled'
  <1>1. ListingRuled(n)
    BY DEF ListingRuled
  <1> QED
    BY <1>1, OneListing

LEMMA OtherCallsLists ==
  ASSUME Inv, ListingsRuled, NEW t \in Thread,
         Begin(t) \/ ReadFlags(t) \/ Ask(t) \/ Refuse(t) \/ Make(t) \/ Forget(t) \/ Return(t)
  PROVE  ListingsRuled'
  <1> DEFINE c == calls[t]
  <1>1. IsCall(c) /\ ListingRuled(c)
    BY Facts DEF ListingsRuled
  <1>2. ASSUME c.pc \in {"flags", "ask", "act", "forget"}, UNCHANGED shared, NEW n, Now(t, n),
               n.op = c.op, n.pc \notin {"take", "filter"}
        PROVE  ListingsRuled'
    <2>1. c.op \notin Listings
      BY <1>1, <1>2 DEF ListingRuled
    <2> HIDE DEF c
    <2> QED
      BY <1>2, <2>1, NoListing
  <1>3. CASE Begin(t)
    <2>1. PICK a \in Asked :
            Now(t, [NoCall EXCEPT !.pc = "flags", !.op = a.op, !.call = <<a>>,
                                  !.asked = [i \in DOMAIN a.paths |-> Judged(a, i)],
                                  !.leads = [i \in DOMAIN a.paths |-> ActedOn(a, i)],
                                  !.during = {policy} \cup replaced, !.gates = {gate}])
      BY <1>3 DEF Begin
    <2> DEFINE asked == [i \in DOMAIN a.paths |-> Judged(a, i)]
               leads == [i \in DOMAIN a.paths |-> ActedOn(a, i)]
               during == {policy} \cup replaced
               call == <<a>>
               gates == {gate}
               op == a.op
               n == BegunCall(NoCall, op, call, asked, leads, during, gates)
    <2>2. Now(t, n) /\ UNCHANGED shared
      BY <1>3, <2>1 DEF Begin, BegunCall
    <2> HIDE DEF asked, leads, during, call, gates
    <2>3. n.op = op /\ n.pc = "flags"
      BY NoCallFacts, Begun
    <2>4. op \notin Listings
      BY CallsFact DEF CallsAssumption
    <2> HIDE DEF n
    <2> QED
      BY <2>2, <2>3, <2>4, NoListing
  <1>4. CASE ReadFlags(t)
    <2>1. c.pc = "flags" /\ UNCHANGED shared
      BY <1>4 DEF ReadFlags
    <2>2. CASE Now(t, [c EXCEPT !.pc = "ask"])
      <3> DEFINE n == [c EXCEPT !.pc = "ask"]
      <3>1. n.op = c.op /\ n.pc = "ask"
        BY <1>1, Turned
      <3> HIDE DEF n
      <3> QED
        BY <1>2, <2>1, <2>2, <3>1 DEF n
    <2>3. CASE Now(t, Said(c, "unset", <<>>))
      <3> DEFINE n == Said(c, "unset", <<>>)
      <3>1. n.op = c.op /\ n.pc \in {"flags", "act"}
        BY <1>1, Told
      <3> HIDE DEF n
      <3> QED
        BY <1>2, <2>1, <2>3, <3>1 DEF n
    <2> QED
      BY <1>4, <2>2, <2>3 DEF ReadFlags
  <1>5. CASE Ask(t)
    <2>1. c.pc = "ask" /\ UNCHANGED shared
      BY <1>5 DEF Ask
    <2>2. PICK what, to : Now(t, Said(c, what, to))
      BY <1>5 DEF Ask
    <2> DEFINE n == Said(c, what, to)
    <2>3. n.op = c.op /\ n.pc \in {"flags", "act"}
      BY <1>1, Told
    <2> HIDE DEF n
    <2> QED
      BY <1>2, <2>1, <2>2, <2>3 DEF n
  <1>6. CASE Refuse(t)
    <2> DEFINE errno == Errno(c.op)
               n == RefusedCall(c, errno)
    <2>1. c.pc = "act" /\ UNCHANGED shared /\ Now(t, n)
      BY <1>6 DEF Refuse, RefusedCall
    <2> HIDE DEF errno
    <2>2. n.op = c.op /\ n.pc = "done"
      BY <1>1, Refused
    <2> HIDE DEF n
    <2> QED
      BY <1>2, <2>1, <2>2
  <1>7. CASE Make(t)
    <2> DEFINE acts == IF IsRedirected(c) THEN <<c.to>> ELSE c.leads
               pc(removed) == IF removed THEN "forget" ELSE "done"
    <2>1. c.pc = "act" /\ UNCHANGED shared
      BY <1>7 DEF Make
    <2>2. PICK removed \in BOOLEAN :
            Now(t, [c EXCEPT !.pc = pc(removed), !.removed = removed, !.acts = acts])
      BY <1>7 DEF Make
    <2> DEFINE to == pc(removed)
               n == MadeCall(c, to, removed, acts)
    <2>3. Now(t, n) /\ to \in {"forget", "done"}
      BY <2>2 DEF MadeCall
    <2> HIDE DEF acts, to
    <2>4. n.op = c.op /\ n.pc = to
      BY <1>1, Made
    <2> HIDE DEF n
    <2> QED
      BY <1>2, <2>1, <2>3, <2>4
  <1>8. CASE Forget(t)
    <2>1. c.pc = "forget" /\ UNCHANGED shared
      BY <1>8 DEF Forget
    <2>2. CASE \E forgot : Now(t, [c EXCEPT !.forgot = forgot])
      <3>1. PICK forgot : Now(t, [c EXCEPT !.forgot = forgot])
        BY <2>2
      <3> DEFINE n == [c EXCEPT !.forgot = forgot]
      <3>2. n.op = c.op /\ n.pc = c.pc
        BY <1>1, ForgotOne
      <3> HIDE DEF n
      <3> QED
        BY <1>2, <2>1, <3>1, <3>2 DEF n
    <2>3. CASE \E forgot : Now(t, ForgottenCall(c, "done", forgot))
      <3>1. PICK forgot : Now(t, ForgottenCall(c, "done", forgot))
        BY <2>3
      <3> DEFINE n == ForgottenCall(c, "done", forgot)
      <3>2. n.op = c.op /\ n.pc = "done"
        BY <1>1, Forgot
      <3> HIDE DEF n
      <3> QED
        BY <1>2, <2>1, <3>1, <3>2 DEF n
    <2>4. \/ \E forgot : Now(t, [c EXCEPT !.forgot = forgot])
          \/ \E forgot : Now(t, ForgottenCall(c, "done", forgot))
      BY <1>8 DEF Forget, ForgottenCall
    <2> QED
      BY <2>2, <2>3, <2>4
  <1>9. CASE Return(t)
    <2>1. Now(t, NoCall) /\ UNCHANGED shared
      BY <1>9 DEF Return
    <2> QED
      BY <2>1, NoCallFacts, NoListing
  <1> QED
    BY <1>3, <1>4, <1>5, <1>6, <1>7, <1>8, <1>9

LEMMA BeginListingLists ==
  ASSUME Inv, ListingsRuled, NEW t \in Thread, BeginListing(t)
  PROVE  ListingsRuled'
  <1>1. PICK op \in Listings, dir \in DOMAIN Entries :
          Now(t, [NoCall EXCEPT !.pc = "take", !.op = op, !.dir = dir,
                                !.during = {policy} \cup replaced, !.gates = {gate}])
    BY DEF BeginListing
  <1> DEFINE during == {policy} \cup replaced
             gates == {gate}
             n == OpenedCall(NoCall, op, dir, during, gates)
  <1>2. Now(t, n) /\ UNCHANGED shared
    BY <1>1 DEF BeginListing, OpenedCall
  <1> HIDE DEF during, gates
  <1>3. /\ n.pc = "take" /\ n.op = op /\ n.dir = dir /\ n.next = 1 /\ n.chunk = <<>>
        /\ n.shown = {}
    BY NoCallFacts, Opened
  <1> HIDE DEF n
  <1>4. Entries[dir] \in Seq(STRING)
    BY EntriesTyped
  <1>5. InOrder(n)
    <2>1. n.chunk \in Seq(STRING) /\ Len(n.chunk) = 0 /\ Len(Entries[dir]) \in Nat
      BY <1>3, <1>4
    <2>2. Behind(n) = {}
      BY <1>3, <2>1 DEF Behind
    <2> QED
      BY <1>3, <2>1, <2>2 DEF InOrder
  <1>6. ListingRuled(n)
    BY <1>3, <1>5 DEF ListingRuled
  <1> QED
    BY <1>2, <1>6, OneListing

(* Part of a sequence. *)
LEMMA PartOf ==
  ASSUME NEW S, NEW s \in Seq(S), NEW a \in Nat, NEW k \in Nat, a >= 1, a + k - 1 <= Len(s)
  PROVE  /\ SubSeq(s, a, a + k - 1) \in Seq(S) /\ Len(SubSeq(s, a, a + k - 1)) = k
         /\ \A j \in 1 .. k : SubSeq(s, a, a + k - 1)[j] = s[a + j - 1]
  OBVIOUS

(* What is behind, in order and known to be of the directory. *)
LEMMA ListingFacts ==
  ASSUME NEW c, ListingRuled(c), c.op \in Listings
  PROVE  LET entry == Entries[c.dir]
             first == c.next - Len(c.chunk)
         IN  /\ entry \in Seq(STRING) /\ c.chunk \in Seq(STRING) /\ c.next \in Nat
             /\ Len(entry) \in Nat /\ Len(c.chunk) \in Nat /\ DOMAIN entry = 1 .. Len(entry)
             /\ first \in 1 .. Len(entry) + 1 /\ c.next <= Len(entry) + 1
             /\ \A j \in 1 .. Len(c.chunk) : c.chunk[j] = entry[first + j - 1]
             /\ \A i \in Behind(c) : entry[i] \in c.shown
                                       \/ \E o \in SaidOfEntry(c, entry[i]) : HiddenBy(o, entry[i])
  <1>1. InOrder(c) /\ c.dir \in DOMAIN Entries /\ c.next \in Nat
    BY DEF ListingRuled
  <1>2. Entries[c.dir] \in Seq(STRING)
    BY <1>1, EntriesTyped
  <1> DEFINE entry == Entries[c.dir]
  <1>3. entry \in Seq(STRING) /\ DOMAIN entry = 1 .. Len(entry) /\ Len(entry) \in Nat
    BY <1>2
  <1>4. c.chunk \in Seq(STRING) /\ Len(c.chunk) \in Nat
    BY <1>1 DEF InOrder
  <1> QED
    BY <1>1, <1>3, <1>4 DEF InOrder

(* What is looked at is a name. *)
LEMMA NameNext ==
  ASSUME NEW c, ListingRuled(c), c.pc = "filter"
  PROVE  Head(c.chunk) \in EntryName
  <1> DEFINE entry == Entries[c.dir]
             first == c.next - Len(c.chunk)
  <1>1. c.op \in Listings /\ c.chunk # <<>> /\ c.dir \in DOMAIN Entries
    BY DEF ListingRuled
  <1>2. /\ entry \in Seq(EntryName) /\ c.chunk \in Seq(STRING) /\ Len(entry) \in Nat
        /\ first \in 1 .. Len(entry) + 1 /\ c.next <= Len(entry) + 1 /\ c.next \in Nat
        /\ Len(c.chunk) \in Nat
        /\ \A j \in 1 .. Len(c.chunk) : c.chunk[j] = entry[first + j - 1]
    BY <1>1, ListingFacts, EntriesTyped
  <1> HIDE DEF entry
  <1>3. Len(c.chunk) >= 1 /\ Head(c.chunk) = c.chunk[1]
    BY <1>1, <1>2
  <1>4. c.chunk[1] = entry[first] /\ first \in 1 .. Len(entry)
    BY <1>2, <1>3
  <1> QED
    BY <1>2, <1>3, <1>4

(* The kernel goes on where it was. *)
LEMMA TakeLists ==
  ASSUME Inv, ListingsRuled, NEW t \in Thread, Take(t)
  PROVE  ListingsRuled'
  <1> DEFINE c == calls[t]
             entry == Entries[c.dir]
             left == Len(entry) - c.next + 1
  <1>1. IsCall(c) /\ ListingRuled(c) /\ c.pc = "take" /\ UNCHANGED shared
    BY Facts DEF ListingsRuled, Take
  <1>2. c.op \in Listings /\ c.chunk = <<>> /\ c.dir \in DOMAIN Entries
        /\ \A e \in c.shown : \E o \in SaidOfEntry(c, e) : ~HiddenBy(o, e)
    BY <1>1 DEF ListingRuled
  <1>3. /\ entry \in Seq(STRING) /\ c.next \in Nat /\ Len(entry) \in Nat
        /\ c.next \in 1 .. Len(entry) + 1 /\ Behind(c) = 1 .. c.next - 1
        /\ \A i \in 1 .. c.next - 1 :
             entry[i] \in c.shown \/ \E o \in SaidOfEntry(c, entry[i]) : HiddenBy(o, entry[i])
    <2>1. Len(c.chunk) = 0
      BY <1>2
    <2> HIDE DEF c
    <2>2. c.next \in Nat => c.next - 0 = c.next
      OBVIOUS
    <2>3. Behind(c) = 1 .. c.next - Len(c.chunk) - 1
      BY DEF Behind
    <2>4. /\ entry \in Seq(STRING) /\ c.next \in Nat /\ Len(entry) \in Nat
          /\ c.next - Len(c.chunk) \in 1 .. Len(entry) + 1
          /\ \A i \in Behind(c) :
               entry[i] \in c.shown \/ \E o \in SaidOfEntry(c, entry[i]) : HiddenBy(o, entry[i])
      BY <1>1, <1>2, ListingFacts
    <2> QED
      BY <2>1, <2>2, <2>3, <2>4
  <1>4. CASE left = 0
    <2> DEFINE n == [c EXCEPT !.pc = "done"]
    <2>1. Now(t, n)
      BY <1>4 DEF Take
    <2> HIDE DEF c
    <2>2. /\ n.pc = "done" /\ n.op = c.op /\ n.dir = c.dir /\ n.next = c.next
          /\ n.chunk = c.chunk /\ n.shown = c.shown /\ n.during = c.during
      BY <1>1, Turned
    <2> HIDE DEF n
    <2>3. \A e : SaidOfEntry(n, e) = SaidOfEntry(c, e)
      BY <2>2 DEF SaidOfEntry
    <2>4. InOrder(n)
      BY <1>1, <1>2, <2>2, <2>3 DEF ListingRuled, InOrder, Behind
    <2>5. n.next = Len(Entries[n.dir]) + 1
      BY <1>3, <1>4, <2>2
    <2>6. ListingRuled(n)
      BY <1>2, <1>3, <2>2, <2>3, <2>4, <2>5 DEF ListingRuled
    <2> QED
      BY <1>1, <2>1, <2>6, OneListing
  <1>5. CASE left # 0
    <2>1. PICK k \in 1 .. IF c.op = "readdir" THEN 1 ELSE MaxChunk :
            /\ k <= left
            /\ Now(t, [c EXCEPT !.pc = "filter", !.next = c.next + k, !.some = FALSE,
                                !.chunk = SubSeq(Entries[c.dir], c.next, c.next + k - 1)])
      BY <1>5 DEF Take
    <2> DEFINE next == c.next + k
               chunk == SubSeq(entry, c.next, c.next + k - 1)
               n == TakenCall(c, next, chunk)
    <2>2. Now(t, n)
      BY <2>1 DEF TakenCall
    <2>3. k \in Nat /\ k >= 1
      BY CallsFact DEF CallsAssumption
    <2>4. /\ chunk \in Seq(STRING) /\ Len(chunk) = k
          /\ \A j \in 1 .. k : chunk[j] = entry[c.next + j - 1]
      <3> HIDE DEF entry, c
      <3>1. c.next >= 1 /\ c.next + k - 1 <= Len(entry)
        BY <1>3, <2>1, <2>3
      <3> QED
        BY <1>3, <2>3, <3>1, PartOf
    <2>5. next \in 1 .. Len(entry) + 1 /\ next - k = c.next
      BY <1>3, <2>1, <2>3
    <2> HIDE DEF c, next, chunk
    <2>6. /\ n.pc = "filter" /\ n.op = c.op /\ n.dir = c.dir /\ n.next = next
          /\ n.chunk = chunk /\ n.shown = c.shown /\ n.during = c.during
      BY <1>1, Taken
    <2> HIDE DEF n
    <2>7. \A e : SaidOfEntry(n, e) = SaidOfEntry(c, e)
      BY <2>6 DEF SaidOfEntry
    <2>8. n.next - Len(n.chunk) = c.next /\ Behind(n) = 1 .. c.next - 1
      BY <2>4, <2>5, <2>6 DEF Behind
    <2>9. InOrder(n)
      <3>1. Entries[n.dir] = entry
        BY <2>6
      <3> HIDE DEF entry
      <3>2. Len(n.chunk) = k /\ n.chunk \in Seq(STRING) /\ n.next = next
            /\ \A j \in 1 .. k : n.chunk[j] = entry[c.next + j - 1]
        BY <2>4, <2>6
      <3>3. next \in Int /\ next <= Len(entry) + 1
        BY <1>3, <2>5
      <3> QED
        BY <1>3, <2>6, <2>7, <2>8, <3>1, <3>2, <3>3 DEF InOrder
    <2>10. chunk # <<>> /\ next \in Nat
      BY <2>3, <2>4, <2>5
    <2>11. ListingRuled(n)
      BY <1>2, <2>6, <2>7, <2>9, <2>10 DEF ListingRuled
    <2> QED
      BY <1>1, <2>2, <2>11, OneListing
  <1> QED
    BY <1>4, <1>5

(* An entry that is shown some rules do not hide, one that is hidden some  *)
(* rules do.                                                               *)
LEMMA HidesAsSaid ==
  ASSUME Inv, ListingsRuled, NEW t \in Thread, calls[t].pc = "filter",
         NEW e \in EntryName, NEW hidden \in Hides(calls[t].dir, e)
  PROVE  /\ hidden \in BOOLEAN
         /\ \E o \in SaidOfEntry(calls[t], e) : HiddenBy(o, e) <=> hidden
  <1> DEFINE c == calls[t]
             judged == Whereabouts(c.dir, e)
  <1>1. policy \in c.during /\ policy \in MayHold /\ (~shouldHook => NoPolicy \in c.during)
    BY Facts DEF Open, ListingsRuled
  <1>2. NoPolicy \in c.during => [decision |-> "unset", to |-> <<>>] \in SaidOfEntry(c, e)
    BY DEF SaidOfEntry, MaySay
  <1>3. MaySay(policy, judged) \subseteq SaidOfEntry(c, e)
    BY <1>1 DEF SaidOfEntry
  <1>4. policy # NoPolicy /\ judged # {} =>
          MaySay(policy, judged) = UNION {Outcomes(policy, p) : p \in judged}
    BY DEF MaySay
  <1>5. CASE e \in {".", ".."}
    <2>1. hidden = FALSE
      BY <1>5 DEF Hides
    <2>2. MaySay(policy, judged) # {}
      <3>1. CASE policy = NoPolicy \/ judged = {}
        BY <3>1 DEF MaySay
      <3>2. CASE policy # NoPolicy /\ judged # {}
        <4>1. PICK p \in judged : TRUE
          BY <3>2
        <4>2. Outcomes(policy, p) # {}
          BY <1>1, <3>2, MatchPathAnswers
        <4> QED
          BY <1>4, <3>2, <4>1, <4>2
      <3> QED
        BY <3>1, <3>2
    <2> QED
      BY <1>3, <1>5, <2>1, <2>2 DEF HiddenBy
  <1>6. CASE e \notin {".", ".."} /\ (~shouldHook \/ policy = NoPolicy)
    <2>1. hidden = FALSE
      BY <1>6 DEF Hides
    <2>2. NoPolicy \in c.during
      BY <1>1, <1>6
    <2> QED
      BY <1>2, <2>1, <2>2 DEF HiddenBy
  <1>7. CASE ~(e \in {".", ".."} \/ ~shouldHook \/ policy = NoPolicy)
    <2>1. judged = JudgedEntry(c.dir, e)
      <3>1. c.dir \in DOMAIN Entries
        BY DEF ListingsRuled, ListingRuled
      <3>2. e \in ProperName /\ IsResolved(c.dir)
        BY <1>7, <3>1, EntriesTyped DEF EntryName
      <3> QED
        BY <3>2, EntryJudged
    <2> HIDE DEF judged
    <2>2. CASE judged = {}
      <3>1. hidden = FALSE
        BY <1>7, <2>1, <2>2 DEF Hides
      <3>2. [decision |-> "allow", to |-> <<>>] \in SaidOfEntry(c, e)
        BY <1>3, <1>7, <2>2 DEF MaySay
      <3> QED
        BY <3>1, <3>2 DEF HiddenBy
    <2>3. CASE judged # {}
      <3>1. PICK o \in UNION {Outcomes(policy, p) : p \in judged} : hidden = (o.decision = "block")
        BY <1>7, <2>1, <2>3 DEF Hides
      <3>2. o \in SaidOfEntry(c, e)
        BY <1>3, <1>4, <1>7, <2>3, <3>1
      <3> QED
        BY <1>7, <3>1, <3>2 DEF HiddenBy
    <2> QED
      BY <2>2, <2>3
  <1> QED
    BY <1>5, <1>6, <1>7

LEMMA FilterLists ==
  ASSUME Inv, ListingsRuled, NEW t \in Thread, Filter(t)
  PROVE  ListingsRuled'
  <1> DEFINE c == calls[t]
             entry == Entries[c.dir]
             e == Head(c.chunk)
  <1>1. IsCall(c) /\ ListingRuled(c) /\ c.pc = "filter" /\ UNCHANGED shared
    BY Facts DEF ListingsRuled, Filter
  <1>2. PICK hidden \in Hides(c.dir, e) : Now(t, Passed(c, hidden))
    BY DEF Filter
  <1>3. hidden \in BOOLEAN /\ \E o \in SaidOfEntry(c, e) : HiddenBy(o, e) <=> hidden
    <2>1. e \in EntryName
      BY <1>1, NameNext
    <2> QED
      BY <1>1, <1>2, <2>1, HidesAsSaid
  <1> DEFINE chunk == Tail(c.chunk)
             some == c.some \/ ~hidden
             shown == IF hidden THEN c.shown ELSE c.shown \cup {e}
             pc == IF chunk # <<>> THEN "filter"
                   ELSE IF c.op = "readdir" \/ c.some \/ ~hidden THEN "take" ELSE "done"
             n == WentCall(c, chunk, some, shown, pc)
             first == c.next - Len(c.chunk)
  <1>4. Now(t, n)
    BY <1>2 DEF Passed, WentCall
  <1>5. c.op \in Listings /\ c.chunk # <<>> /\ c.dir \in DOMAIN Entries
        /\ \A x \in c.shown : \E o \in SaidOfEntry(c, x) : ~HiddenBy(o, x)
    BY <1>1 DEF ListingRuled
  <1>6. /\ entry \in Seq(STRING) /\ c.chunk \in Seq(STRING) /\ c.next \in Nat
        /\ Len(entry) \in Nat /\ Len(c.chunk) \in Nat
        /\ first \in 1 .. Len(entry) + 1 /\ c.next <= Len(entry) + 1
        /\ \A j \in 1 .. Len(c.chunk) : c.chunk[j] = entry[first + j - 1]
        /\ \A i \in 1 .. first - 1 :
             entry[i] \in c.shown \/ \E o \in SaidOfEntry(c, entry[i]) : HiddenBy(o, entry[i])
    BY <1>1, <1>5, ListingFacts DEF Behind
  <1>7. /\ chunk \in Seq(STRING) /\ Len(chunk) = Len(c.chunk) - 1 /\ Len(c.chunk) >= 1
        /\ \A j \in 1 .. Len(chunk) : chunk[j] = c.chunk[j + 1]
        /\ e = c.chunk[1]
    <2> HIDE DEF c
    <2> QED
      BY <1>5, <1>6, TailOf
  <1>8. e = entry[first]
    BY <1>6, <1>7
  <1>9. pc \in {"filter", "take", "done"} /\ (pc = "filter" <=> chunk # <<>>)
        /\ ~(pc = "done" /\ c.op = "readdir")
    OBVIOUS
  <1>10. /\ c.shown \subseteq shown /\ shown \subseteq c.shown \cup {e}
         /\ ~hidden => e \in shown
         /\ hidden => shown = c.shown
    BY <1>3
  <1> HIDE DEF c, e, chunk, some, shown, pc
  <1>11. /\ n.pc = pc /\ n.op = c.op /\ n.dir = c.dir /\ n.next = c.next
         /\ n.chunk = chunk /\ n.shown = shown /\ n.during = c.during
    BY <1>1, Went
  <1> HIDE DEF n
  <1>12. \A x : SaidOfEntry(n, x) = SaidOfEntry(c, x)
    BY <1>11 DEF SaidOfEntry
  <1>13. n.next - Len(n.chunk) = first + 1 /\ Behind(n) = 1 .. first
    BY <1>6, <1>7, <1>11 DEF Behind
  <1>14. InOrder(n)
    <2>1. \A j \in 1 .. Len(chunk) : chunk[j] = entry[first + 1 + j - 1]
      <3> SUFFICES ASSUME NEW j \in 1 .. Len(chunk) PROVE chunk[j] = entry[first + 1 + j - 1]
        OBVIOUS
      <3>1. j + 1 \in 1 .. Len(c.chunk) /\ chunk[j] = c.chunk[j + 1]
        BY <1>6, <1>7
      <3>2. c.chunk[j + 1] = entry[first + (j + 1) - 1]
        BY <1>6, <3>1
      <3>3. first + (j + 1) - 1 = first + 1 + j - 1
        BY <1>6
      <3> QED
        BY <3>1, <3>2, <3>3
    <2>2. ASSUME NEW i \in 1 .. first
          PROVE  entry[i] \in shown \/ \E o \in SaidOfEntry(c, entry[i]) : HiddenBy(o, entry[i])
      <3>1. CASE i = first
        BY <1>3, <1>8, <1>10, <3>1
      <3>2. CASE i # first
        <4>1. i \in 1 .. first - 1
          BY <1>6, <3>2
        <4> QED
          BY <1>6, <1>10, <4>1
      <3> QED
        BY <3>1, <3>2
    <2>3. first + 1 \in 1 .. Len(entry) + 1
      BY <1>6, <1>7
    <2> QED
      BY <1>6, <1>7, <1>11, <1>12, <1>13, <2>1, <2>2, <2>3 DEF InOrder
  <1>15. \A x \in shown : \E o \in SaidOfEntry(c, x) : ~HiddenBy(o, x)
    BY <1>3, <1>5, <1>10
  <1>16. ListingRuled(n)
    BY <1>5, <1>6, <1>9, <1>11, <1>12, <1>14, <1>15 DEF ListingRuled
  <1> QED
    BY <1>1, <1>4, <1>16, OneListing

(* Rules that come into force add to what is said of the entries. *)
LEMMA ListingGrows ==
  ASSUME NEW c, NEW n, ListingRuled(c), n.pc = c.pc, n.op = c.op, n.dir = c.dir,
         n.next = c.next, n.chunk = c.chunk, n.shown = c.shown, c.during \subseteq n.during
  PROVE  ListingRuled(n)
  <1>1. \A e : SaidOfEntry(c, e) \subseteq SaidOfEntry(n, e)
    BY DEF SaidOfEntry
  <1>2. Behind(n) = Behind(c)
    BY DEF Behind
  <1>3. InOrder(c) => InOrder(n)
    BY <1>1, <1>2 DEF InOrder
  <1> QED
    BY <1>1, <1>3 DEF ListingRuled

LEMMA MeetingLists ==
  ASSUME Inv, ListingsRuled, NEW rules, NEW open, calls' = Meeting(rules, open),
         policy' \in MayHold
  PROVE  ListingsRuled'
  <1>1. calls' = [t \in Thread |->
                    IF calls[t].pc \in {"idle", "done"} THEN calls[t]
                    ELSE MetCall(calls[t], calls[t].during \cup {rules}, calls[t].gates \cup {open})]
    BY DEF Meeting, MetCall
  <1>2. ASSUME NEW t \in Thread PROVE ListingRuled(calls[t])'
    <2> DEFINE c == calls[t]
               during == c.during \cup {rules}
               gates == c.gates \cup {open}
               n == MetCall(c, during, gates)
    <2>1. ListingRuled(c) /\ IsCall(c)
      BY Facts DEF ListingsRuled
    <2>2. calls'[t] = c \/ calls'[t] = n
      BY <1>1
    <2>3. c.during \subseteq during
      OBVIOUS
    <2> HIDE DEF c, during, gates
    <2>4. /\ n.pc = c.pc /\ n.op = c.op /\ n.dir = c.dir /\ n.next = c.next
          /\ n.chunk = c.chunk /\ n.shown = c.shown /\ n.during = during
      BY <2>1, Extended
    <2> HIDE DEF n
    <2>5. ListingRuled(n)
      BY <2>1, <2>3, <2>4, ListingGrows
    <2>6. ListingRuled(calls'[t])
      BY <2>1, <2>2, <2>5
    <2> QED
      BY <2>6
  <1> QED
    BY <1>2 DEF ListingsRuled

LEMMA InitLists == Init => ListingsRuled
  <1> SUFFICES ASSUME Init PROVE ListingsRuled
    OBVIOUS
  <1>1. \A t \in Thread : calls[t] = NoCall
    BY DEF Init
  <1>2. ListingRuled(NoCall)
    BY NoCallFacts DEF ListingRuled
  <1> QED
    BY <1>1, <1>2 DEF ListingsRuled, Init

LEMMA StepLists == ASSUME Inv, ListingsRuled, [Next]_vars PROVE ListingsRuled'
  <1>1. CASE ReloadRules
    <2>1. policy' \in MayHold /\ calls' = Meeting(policy', gate)
      BY <1>1 DEF ReloadRules
    <2> QED
      BY <2>1, MeetingLists
  <1>2. CASE ReloadGate
    <2>1. policy' \in MayHold /\ calls' = Meeting(policy, gate')
      BY <1>2 DEF ReloadGate, ListingsRuled
    <2> QED
      BY <2>1, MeetingLists
  <1>3. CASE ReloadFlag \/ SetMarker \/ UNCHANGED vars
    <2>1. calls' = calls /\ policy' = policy
      BY <1>3 DEF ReloadFlag, SetMarker, vars
    <2> QED
      BY <2>1 DEF ListingsRuled
  <1>4. ASSUME NEW t \in Thread, Step(t) PROVE ListingsRuled'
    BY <1>4, OtherCallsLists, BeginListingLists, TakeLists, FilterLists DEF Step
  <1> QED
    BY <1>1, <1>2, <1>3, <1>4 DEF Next

(* ListingComplete, for any number of threads, directories and entries,    *)
(* chunks of any size and any rules: an entry that readdir hides or the    *)
(* end of a chunk that is full of such does not cost another entry its     *)
(* place, whatever rules a reload puts in force on the way, and in the     *)
(* root and in the storage each is judged by the place it leads to.        *)
THEOREM ListingsComplete == Spec => []ListingComplete
  <1>1. ListingsRuled => ListingComplete
    <2> SUFFICES ASSUME ListingsRuled, NEW t \in Thread, calls[t].pc = "done",
                        calls[t].op \in Listings, NEW i \in DOMAIN Entries[calls[t].dir]
                 PROVE  LET c == calls[t]
                            e == Entries[c.dir][i]
                            Said1 == SaidOfEntry(c, e)
                            Hidden == {o \in Said1 : HiddenBy(o, e)}
                        IN  /\ c.op = "readdir" /\ Hidden = {} => e \in c.shown
                            /\ Hidden = Said1 => e \notin c.shown
      BY DEF ListingComplete, SaidOfEntry, HiddenBy
    <2> DEFINE c == calls[t]
               e == Entries[c.dir][i]
    <2>1. ListingRuled(c)
      BY DEF ListingsRuled
    <2>2. c.chunk = <<>> /\ (c.op = "readdir" => c.next = Len(Entries[c.dir]) + 1)
          /\ \A x \in c.shown : \E o \in SaidOfEntry(c, x) : ~HiddenBy(o, x)
      BY <2>1 DEF ListingRuled
    <2>3. /\ DOMAIN Entries[c.dir] = 1 .. Len(Entries[c.dir]) /\ Len(Entries[c.dir]) \in Nat
          /\ \A j \in Behind(c) : Entries[c.dir][j] \in c.shown
               \/ \E o \in SaidOfEntry(c, Entries[c.dir][j]) : HiddenBy(o, Entries[c.dir][j])
      BY <2>1, ListingFacts
    <2>4. c.op = "readdir" => i \in Behind(c)
      <3>1. Len(c.chunk) = 0
        BY <2>2
      <3> QED
        BY <2>2, <2>3, <3>1 DEF Behind
    <2> HIDE DEF c
    <2> QED
      BY <2>2, <2>3, <2>4 DEF c
  <1>2. Init => Inv /\ ListingsRuled
    BY InitInv, InitLists
  <1>3. Inv /\ ListingsRuled /\ [Next]_vars => (Inv /\ ListingsRuled)'
    BY StepInv, StepLists
  <1> QED
    BY <1>1, <1>2, <1>3, PTL DEF Spec
-----------------------------------------------------------------------------
(* What a wrapper asks about. *)

(* The paths of a call. *)
LEMMA AskedPaths ==
  ASSUME NEW c \in Asked, NEW i \in DOMAIN c.paths
  PROVE  /\ c.paths[i] \in [absolute : BOOLEAN, names : Path]
         /\ c.dirs[i] = AtCwd \/ (c.op \in TakeDirectory /\ Clean(c.dirs[i]))
  BY CallsFact DEF CallsAssumption, IsResolved, Clean, Path

(* The path as it is written, with its directory. *)
Written(c, i) == IF c.paths[i].absolute THEN c.paths[i].names ELSE c.dirs[i] \o c.paths[i].names

(* Readable, in terms of what is written. *)
LEMMA ReadableMeans ==
  ASSUME NEW c, NEW i, Readable(c, i)
  PROVE  /\ c.paths[i].absolute \/ (/\ c.dirs[i] # AtCwd /\ IsPrefix(ExternalPrimary, c.dirs[i])
                                   /\ c.paths[i].names # <<>>)
         /\ Fits(Written(c, i)) /\ fm_normalize_path(Absolute(Written(c, i))) # {}
         /\ NoAliasLater(Written(c, i))
         /\ c.op \in TakeDirectory \/ ~EndsUp(Written(c, i))
         /\ c.op \notin TakeDirectory /\ IsPrefix(ExternalPrimary, Written(c, i))
              => IsPlainly(Trimmed(Written(c, i)))
  BY DEF Readable, Written

(* The kernel acts where what is written leads. *)
LEMMA WrittenActedOn ==
  ASSUME NEW c \in Asked, NEW i \in DOMAIN c.paths, Readable(c, i)
  PROVE  Written(c, i) \in Path /\ ActedOn(c, i) = Key(Reached(<<>>, Written(c, i)))
  <1> DEFINE s == c.paths[i]
             d == c.dirs[i]
  <1>1. s.absolute \in BOOLEAN /\ s.names \in Path
    BY AskedPaths
  <1>2. CASE s.absolute
    BY <1>1, <1>2 DEF Written, ActedOn
  <1>3. CASE ~s.absolute
    <2>1. d # AtCwd /\ Clean(d)
      BY <1>3, AskedPaths, ReadableMeans
    <2>2. d \in Path /\ Reached(<<>>, d) = d
      BY <2>1, CleanReached
    <2>3. <<>> \in Path
      BY DEF Path
    <2>4. Written(c, i) = d \o s.names /\ ActedOn(c, i) = Key(Reached(d, s.names))
      BY <1>3, <2>1 DEF Written, ActedOn
    <2> HIDE DEF s, d
    <2>5. d \o s.names \in Path /\ Reached(<<>>, d \o s.names) = Reached(Reached(<<>>, d), s.names)
      BY <1>1, <2>2, <2>3, ReachedOn
    <2> QED
      BY <2>2, <2>4, <2>5
  <1> QED
    BY <1>1, <1>2, <1>3

(* What a wrapper that takes a directory asks about. *)
LEMMA InputAt ==
  ASSUME NEW c \in Asked, NEW i \in DOMAIN c.paths, Readable(c, i), c.op \in TakeDirectory
  PROVE  Input(c, i) = fm_normalize_path(Absolute(Written(c, i)))
  <1> DEFINE s == c.paths[i]
             d == c.dirs[i]
             w == Written(c, i)
  <1>1. s \in [absolute : BOOLEAN, names : Path]
    BY AskedPaths
  <1>2. Fits(w) /\ fm_normalize_path(Absolute(w)) # {}
    BY ReadableMeans
  <1>3. SUFFICES fm_try_resolve_at_path(d, s) = fm_normalize_path(Absolute(w))
    BY <1>2 DEF Input
  <1>4. CASE s.absolute
    <2>1. w = s.names
      BY <1>4 DEF Written
    <2>2. s = [absolute |-> TRUE, names |-> s.names]
      BY <1>1, <1>4
    <2>3. Absolute(w) = s
      BY <2>1, <2>2 DEF Absolute, Spelling
    <2> QED
      BY <1>4, <2>3 DEF fm_try_resolve_at_path, fm_resolve_fd_path
  <1>5. CASE ~s.absolute
    <2>1. d # AtCwd /\ IsPrefix(ExternalPrimary, d) /\ s.names # <<>> /\ Clean(d) /\ s.names \in Path
      BY <1>1, <1>5, AskedPaths, ReadableMeans
    <2>2. w = d \o s.names
      BY <1>5 DEF Written
    <2>3. d \in Path /\ d \in Seq(ProperName)
      BY <2>1, CleanReached DEF Clean
    <2> HIDE DEF s, d
    <2>4. Len(d) <= MaxNames /\ Len(w) <= MaxNames
      <3>1. Len(w) = Len(d) + Len(s.names) /\ Len(d) \in Nat /\ Len(s.names) \in Nat
        BY <2>1, <2>2, <2>3, Concatenated DEF Path
      <3>2. Len(w) <= MaxNames /\ MaxNames \in Nat
        BY <1>2, PathsFact DEF Fits, PathsAssumption
      <3> QED
        BY <3>1, <3>2
    <2>5. IsLead(d, d)
      BY <2>1, <2>3, <2>4, ProperPath DEF IsLead, Shaped
    <2>6. fm_normalize_path(Absolute(d)) = {Absolute(d)}
      BY <2>5, LeadRead
    <2>7. IsMapped(d)
      BY <2>1 DEF IsMapped
    <2>8. NormalizedInPlace(Absolute(d)) = {Absolute(d)}
      BY <2>6, <2>7, Absolutes DEF NormalizedInPlace
    <2>9. IsPrefix(ExternalPrimary, w)
      <3>1. IsPrefix(d, w)
        BY <2>1, <2>2, <2>3, PrefixJoined DEF Path
      <3>2. ExternalPrimary \in Path /\ w \in Path
        BY PrimaryClean, CleanReached, WrittenActedOn
      <3> QED
        BY <2>1, <2>3, <3>1, <3>2, PrefixTrans DEF Path
    <2>10. NormalizedInPlace(Absolute(w)) = fm_normalize_path(Absolute(w))
      BY <2>9, Absolutes DEF NormalizedInPlace, IsMapped
    <2>11. {b \in fm_normalize_path(Absolute(d)) : s.names # <<>> /\ Fits(b.names \o s.names)}
             = {Absolute(d)}
      BY <1>2, <2>1, <2>2, <2>6, Absolutes
    <2>12. fm_join_path(Absolute(d), s) = NormalizedInPlace(Absolute(w))
      <3>1. fm_join_path(Absolute(d), s) =
              UNION {NormalizedInPlace(Absolute(b.names \o s.names)) :
                b \in {e \in fm_normalize_path(Absolute(d)) :
                         s.names # <<>> /\ Fits(e.names \o s.names)}}
        BY <1>5 DEF fm_join_path, s
      <3>2. fm_join_path(Absolute(d), s) = NormalizedInPlace(Absolute(Absolute(d).names \o s.names))
        BY <2>11, <3>1
      <3> QED
        BY <2>2, <3>2, Absolutes
    <2>13. fm_try_resolve_at_path(d, s) = fm_join_path(Absolute(d), s)
      <3>1. fm_try_resolve_at_path(d, s) = UNION {fm_join_path(b, s) : b \in NormalizedInPlace(Absolute(d))}
        BY <1>5, <2>1 DEF fm_try_resolve_at_path, fm_resolve_fd_path, s
      <3> QED
        BY <2>8, <3>1
    <2> QED
      BY <2>10, <2>12, <2>13
  <1> QED
    BY <1>1, <1>4, <1>5

(* The path that is judged is the one the kernel acts on, and so is the    *)
(* one that is forgotten: where the code can tell where a path leads,      *)
(* whichever of the wrappers it goes through.                              *)
THEOREM ReadableJudged ==
  ASSUME NEW c \in Asked, NEW i \in DOMAIN c.paths, Readable(c, i)
  PROVE  /\ {Key(p) : p \in UNION {NormalizeRulePath(s) : s \in Input(c, i)}} = {ActedOn(c, i)}
         /\ {Key(p) : p \in UNION {fm_normalize_rule_path(s) : s \in Input(c, i)}} = {ActedOn(c, i)}
  <1> DEFINE w == Written(c, i)
             to == Reached(<<>>, w)
  <1>1. w \in Path /\ ActedOn(c, i) = Key(to)
    BY WrittenActedOn
  <1>2. NoAliasLater(w) /\ fm_normalize_path(Absolute(w)) # {}
    BY ReadableMeans
  <1>3. PICK p : IsLead(p, to) /\ fm_normalize_path(Absolute(w)) = {Absolute(p)}
    BY <1>1, <1>2, WrittenLeads
  <1>4. SUFFICES /\ UNION {NormalizeRulePath(s) : s \in Input(c, i)} = {to}
                 /\ UNION {fm_normalize_rule_path(s) : s \in Input(c, i)} = {to}
    BY <1>1
  <1>5. CASE c.op \in TakeDirectory
    <2>1. Input(c, i) = {Absolute(p)}
      BY <1>3, <1>5, InputAt
    <2>2. NormalizeRulePath(Absolute(p)) = {to} /\ fm_normalize_rule_path(Absolute(p)) = {to}
      BY <1>3, LeadRead
    <2> QED
      BY <2>1, <2>2
  <1>6. CASE c.op \notin TakeDirectory
    <2> DEFINE s == c.paths[i]
    <2>1. c.dirs[i] = AtCwd /\ s \in [absolute : BOOLEAN, names : Path]
      BY <1>6, AskedPaths
    <2>2. s.absolute
      BY <2>1, ReadableMeans
    <2>3. s = Absolute(w)
      <3>1. w = s.names
        BY <2>2 DEF Written
      <3>2. s = [absolute |-> TRUE, names |-> s.names]
        BY <2>1, <2>2
      <3> QED
        BY <3>1, <3>2 DEF Absolute, Spelling
    <2>4. Input(c, i) = {Absolute(w)}
      BY <1>6, <2>3 DEF Input
    <2>5. p = to
      <3>1. ~EndsUp(w)
        BY <1>6, ReadableMeans
      <3>2. Absolute(p) \in fm_normalize_path(Absolute(w))
        BY <1>3
      <3>3. p = Trimmed(p)
        BY <3>1, <3>2, Absolutes DEF EndsUp
      <3> QED
        BY <1>3, <3>3 DEF IsLead
    <2>6. {n.names : n \in fm_normalize_path(Absolute(w))} = {to}
      BY <1>3, <2>5, Absolutes
    <2>7. fm_normalize_rule_path(Absolute(w)) = {to}
      BY <2>6, Absolutes DEF fm_normalize_rule_path
    <2>8. NormalizeRulePath(Absolute(w)) = {to}
      <3>1. CASE ~IsPrefix(ExternalPrimary, w)
        BY <2>6, <3>1, Absolutes DEF NormalizeRulePath
      <3>2. CASE IsPrefix(ExternalPrimary, w)
        <4>1. IsPlainly(Trimmed(w))
          BY <1>6, <3>2, ReadableMeans
        <4>2. Trimmed(w) = to
          BY <1>1, <3>2, <4>1, PlainlyReached
        <4> QED
          BY <3>2, <4>2, Absolutes DEF NormalizeRulePath
      <3> QED
        BY <3>1, <3>2
    <2> QED
      BY <2>4, <2>7, <2>8
  <1> QED
    BY <1>5, <1>6

-----------------------------------------------------------------------------
(* The paths of a call, its answers and where it is sent. *)

(* The name that stands for the storage is a path. *)
LEMMA RootTyped == <<ExternalRoot>> \in Path
  <1> DEFINE S == STRING
  <1>1. ExternalRoot \in S /\ Path = Seq(S)
    BY RootFact DEF Path
  <1> HIDE DEF S
  <1> QED
    BY <1>1

(* A path as the rules have it is a path. *)
LEMMA KeyTyped ==
  ASSUME NEW p \in Path
  PROVE  Key(p) \in Path
  <1>1. IsPrefix(ExternalPrimary, p) => Suffix(ExternalPrimary, p) \in Path
    BY PathsTyped, SuffixOf DEF Path
  <1> QED
    BY <1>1, PathsTyped, RootTyped DEF Key

(* A path as the kernel is given it is the spelling of one. *)
LEMMA SpelledTyped ==
  ASSUME NEW p \in Path
  PROVE  Spelled(p) \in WrittenPath
  <1>1. IsExternalPath(p) => Tail(p) \in Path
    BY TailOf DEF IsExternalPath, Path
  <1> QED
    BY <1>1, PathsTyped, AbsoluteTyped DEF Spelled

(* What the wrappers ask about is the spelling of a path. *)
LEMMA InputTyped ==
  ASSUME NEW c \in Asked, NEW i \in DOMAIN c.paths
  PROVE  Input(c, i) \subseteq WrittenPath
  <1>1. c.paths[i] \in WrittenPath
    BY AskedPaths DEF WrittenPath
  <1>2. c.dirs[i] = AtCwd \/ c.dirs[i] \in Path
    BY AskedPaths, CleanReached
  <1>3. fm_try_resolve_at_path(c.dirs[i], c.paths[i]) \subseteq WrittenPath
    BY <1>1, <1>2, ResolvedTyped
  <1> QED
    BY <1>1, <1>3 DEF Input

(* What a call asks about and where it leads are paths. *)
LEMMA AskedTyped ==
  ASSUME NEW c \in Asked, NEW i \in DOMAIN c.paths
  PROVE  Judged(c, i) \subseteq Path /\ ActedOn(c, i) \in Path
  <1>1. UNION {NormalizeRulePath(s) : s \in Input(c, i)} \subseteq Path
    BY InputTyped, RulePathsTyped
  <1>2. Judged(c, i) \subseteq Path
    BY <1>1, KeyTyped DEF Judged
  <1> DEFINE from == IF c.paths[i].absolute \/ c.dirs[i] = AtCwd THEN <<>> ELSE c.dirs[i]
  <1>3. from \in Path /\ c.paths[i].names \in Path
    BY AskedPaths, CleanReached, PathsTyped
  <1>4. Reached(from, c.paths[i].names) \in Path
    <2> HIDE DEF from
    <2> QED
      BY <1>3, ReachedOn
  <1>5. ActedOn(c, i) \in Path
    BY <1>4, KeyTyped DEF ActedOn
  <1> QED
    BY <1>2, <1>5

(* An answer of MatchPath is a decision and where it leads. *)
LEMMA OutcomesTyped ==
  ASSUME NEW p \in MayHold, p # NoPolicy, NEW path \in Path, NEW o \in Outcomes(p, path)
  PROVE  o.decision \in {"allow", "block", "redirect"} /\ o.to \in Path
  <1>1. PICK s \in Section : p = Compile(s)
    BY DEF MayHold
  <1>2. ASSUME NEW c \in p.rules
        PROVE  /\ c.rule.action \in {"allow", "deny", "redirect", "dynamic"}
               /\ c.rule.base \in Path /\ c.rule.path \in Path /\ c.rule.target \in Path
               /\ c.rule.glob = "name" => <<>> \notin c.rule.fits
               /\ c.rule.glob \in {"none", "name", "path"}
    <2>1. p.rules = {[rule |-> r, kind |-> InferCompiledRuleKind(r)] :
                       r \in {q \in s.rules : q.action # "delete"}}
      BY <1>1 DEF Compile
    <2>2. PICK r \in s.rules : r.action # "delete" /\ c.rule = r
      BY <2>1
    <2> QED
      BY <2>2, RulesFact DEF RulesAssumption, Path
  <1>3. PICK k : o \in Answers(p, path, k)
    BY DEF Outcomes
  <1> DEFINE hits == {c \in Searched(p.rules, path) : Matches(c, KindUnder(c, k), path)}
  <1>4. CASE hits = {}
    <2>1. o = [decision |-> DefaultDecision(p, path), to |-> <<>>]
      BY <1>3, <1>4 DEF Answers
    <2> QED
      BY <2>1, PathsTyped DEF DefaultDecision
  <1>5. CASE hits # {}
    <2>1. PICK c \in hits :
            o = [decision |-> Decision[c.rule.action],
                 to |-> IF c.rule.action = "redirect"
                        THEN BuildRedirectPath(c, KindUnder(c, k), path) ELSE <<>>]
      BY <1>3, <1>5 DEF Answers
    <2>2. c \in p.rules /\ Matches(c, KindUnder(c, k), path)
      BY DEF Searched
    <2>3. Decision[c.rule.action] \in {"allow", "block", "redirect"}
      BY <1>2, <2>2 DEF Decision
    <2>4. BuildRedirectPath(c, KindUnder(c, k), path) \in Path
      <3>1. Suffix(c.rule.base, path) \in Path /\ Suffix(c.rule.path, path) \in Path
        BY <1>2, <2>2, SuffixTyped DEF Path
      <3>2. c.rule.glob = "name" => Append(c.rule.target, Name(path)) \in Path
        <4> SUFFICES ASSUME c.rule.glob = "name" PROVE Append(c.rule.target, Name(path)) \in Path
          OBVIOUS
        <4>1. path # <<>>
          BY <1>2, <2>2 DEF Matches
        <4> DEFINE S == STRING
        <4>2. path \in Seq(S) /\ c.rule.target \in Seq(S)
          BY <1>2, <2>2 DEF Path
        <4> HIDE DEF S
        <4>3. Name(path) \in S
          <5>1. Len(path) \in 1 .. Len(path)
            BY <4>1, <4>2
          <5> QED
            BY <4>2, <5>1 DEF Name
        <4>4. Append(c.rule.target, Name(path)) \in Seq(S)
          BY <4>2, <4>3
        <4> QED
          BY <4>4 DEF S, Path
      <3>3. c.rule.target \in Path
        BY <1>2, <2>2
      <3> QED
        BY <3>1, <3>2, <3>3, PathsTyped DEF BuildRedirectPath
    <2> QED
      BY <2>1, <2>3, <2>4, PathsTyped
  <1> QED
    BY <1>4, <1>5

-----------------------------------------------------------------------------
(* What a call is and what it has forgotten so far. *)

(* The first path of a call, and where it was made instead, as the cache   *)
(* is to forget them.                                                      *)
First(c) == {Key(p) : p \in UNION {fm_normalize_rule_path(s) : s \in Input(c.call[1], 1)}}

Second(c) == {Key(p) : p \in UNION {fm_normalize_rule_path(s) : s \in {Spelled(c.to)}}}

(* What a call asks, and where it leads, are of the call that was made. *)
OfCall(c) ==
  \E a \in Asked :
    /\ c.call = <<a>>
    /\ c.asked = [i \in DOMAIN a.paths |-> Judged(a, i)]
    /\ c.leads = [i \in DOMAIN a.paths |-> ActedOn(a, i)]

(* Unless there were no rules at some time, each path is forgotten at its  *)
(* turn.                                                                   *)
Forgotten(c) ==
  NoPolicy \notin c.during =>
    c.forgot \in IF c.pc = "forget" THEN {<<>>, <<First(c)>>} ELSE {<<First(c), Second(c)>>}

(* Every call that asks or has removed anything is traced to what was      *)
(* asked for, and what it has removed is forgotten step by step.           *)
Traced(c) ==
  /\ c.asked # <<>> \/ c.pc \in Asking \/ c.removed => OfCall(c)
  /\ c.pc \in Asking => c.forgot = <<>>
  /\ c.pc = "forget" => c.removed
  /\ c.removed => c.pc \in {"forget", "done"} /\ Forgotten(c)

(* The types of the variables, and this: both need the other. *)
Wholes == TypeOK /\ \A t \in Thread : Traced(calls[t])

(* A step of one thread under the rules in force. *)
LEMMA OneWhole ==
  ASSUME Inv, Wholes, NEW t \in Thread, NEW c, Now(t, c), UNCHANGED shared,
         c \in CallRecord, Traced(c)
  PROVE  Wholes'
  <1>1. calls'[t] = c /\ \A u \in Thread \ {t} : calls'[u] = calls[u]
    BY DEF Inv, Now
  <1>2. calls' \in [Thread -> CallRecord]
    BY DEF Wholes, TypeOK, Now
  <1>3. TypeOK'
    BY <1>2 DEF Wholes, TypeOK, shared
  <1>4. ASSUME NEW u \in Thread PROVE Traced(calls[u])'
    <2>1. Traced(calls'[u])
      BY <1>1 DEF Wholes
    <2> QED
      BY <2>1
  <1> QED
    BY <1>3, <1>4 DEF Wholes

(* What is known of a call. *)
LEMMA WholeCall ==
  ASSUME Wholes, NEW t \in Thread
  PROVE  /\ calls[t] \in CallRecord /\ Traced(calls[t])
         /\ policy \in MayHold /\ replaced \subseteq MayHold /\ {shouldHook, gate} \subseteq BOOLEAN
  BY DEF Wholes, TypeOK

(* A thread without a call. *)
LEMMA NoCallWhole == NoCall \in CallRecord /\ Traced(NoCall)
  <1>1. NoCall \in CallRecord
    BY PathsTyped DEF NoCall, CallRecord
  <1>2. Traced(NoCall)
    BY DEF NoCall, Traced, Asking
  <1> QED
    BY <1>1, <1>2

(* A call that keeps what it asks and forgets is traced as before. *)
LEMMA TracedOn ==
  ASSUME NEW c, Traced(c), NEW n, n.call = c.call, n.asked = c.asked, n.leads = c.leads,
         n.to = c.to, n.removed = c.removed, n.forgot = c.forgot, c.during \subseteq n.during,
         n.pc = c.pc \/ (~c.removed /\ n.pc # "forget" /\ (n.pc \in Asking => c.pc \in Asking))
  PROVE  Traced(n)
  <1>1. OfCall(c) => OfCall(n)
    BY DEF OfCall
  <1>2. First(n) = First(c) /\ Second(n) = Second(c)
    BY DEF First, Second
  <1> QED
    BY <1>1, <1>2 DEF Traced, Forgotten, Asking

(* One step after the other. *)
LEMMA BeginWhole == ASSUME Inv, Wholes, NEW t \in Thread, Begin(t) PROVE Wholes'
  <1>1. PICK c \in Asked :
          Now(t, [NoCall EXCEPT !.pc = "flags", !.op = c.op, !.call = <<c>>,
                                !.asked = [i \in DOMAIN c.paths |-> Judged(c, i)],
                                !.leads = [i \in DOMAIN c.paths |-> ActedOn(c, i)],
                                !.during = {policy} \cup replaced, !.gates = {gate}])
    BY DEF Begin
  <1>2. PICK m \in {1, 2} : DOMAIN c.paths = 1 .. m
    BY CallsFact DEF CallsAssumption
  <1> DEFINE asked == [i \in DOMAIN c.paths |-> Judged(c, i)]
             leads == [i \in DOMAIN c.paths |-> ActedOn(c, i)]
             during == {policy} \cup replaced
             call == <<c>>
             gates == {gate}
             op == c.op
             n == BegunCall(NoCall, op, call, asked, leads, during, gates)
  <1>3. asked \in Seq(SUBSET Path) /\ leads \in Seq(Path)
    <2> DEFINE S == SUBSET Path
    <2>1. \A i \in 1 .. m : Judged(c, i) \in S /\ ActedOn(c, i) \in Path
      BY <1>2, AskedTyped
    <2> HIDE DEF S
    <2>2. asked \in [1 .. m -> S] /\ leads \in [1 .. m -> Path]
      BY <1>2, <2>1
    <2> HIDE DEF asked, leads
    <2>3. asked \in Seq(S) /\ leads \in Seq(Path)
      BY <2>2, <1>2
    <2> QED
      BY <2>3 DEF S
  <1>4. during \subseteq MayHold /\ gates \subseteq BOOLEAN
    BY WholeCall
  <1>5. call \in {<<>>} \cup {<<a>> : a \in Asked}
        /\ op \in {"none"} \cup Listings \cup {a.op : a \in Asked}
    OBVIOUS
  <1>6. Now(t, n) /\ UNCHANGED shared
    BY <1>1 DEF Begin, BegunCall
  <1>7. asked = [i \in DOMAIN c.paths |-> Judged(c, i)]
        /\ leads = [i \in DOMAIN c.paths |-> ActedOn(c, i)] /\ call = <<c>>
    OBVIOUS
  <1> HIDE DEF asked, leads, during, call, gates, op
  <1>8. /\ IsCall(n) /\ n.pc = "flags" /\ n.asked = asked /\ n.leads = leads /\ n.call = call
        /\ n.removed = NoCall.removed /\ n.forgot = NoCall.forgot
    BY NoCallFacts, Begun
  <1>9. n \in CallRecord
    <2>1. NoCall \in CallRecord
      BY NoCallWhole
    <2> QED
      BY <1>3, <1>4, <1>5, <2>1 DEF CallRecord, BegunCall
  <1> HIDE DEF n
  <1>10. Traced(n)
    <2>1. OfCall(n)
      BY <1>7, <1>8 DEF OfCall
    <2> QED
      BY <1>8, <2>1, NoCallFacts DEF Traced, Asking
  <1> QED
    BY <1>6, <1>9, <1>10, OneWhole

(* An answer leaves the call what it is. *)
LEMMA SaidWhole ==
  ASSUME NEW c, c \in CallRecord, IsCall(c), Traced(c), c.pc \in {"flags", "ask"},
         NEW what \in {"unset", "allow", "block", "redirect"}, NEW to \in Path
  PROVE  Said(c, what, to) \in CallRecord /\ Traced(Said(c, what, to))
  <1> DEFINE n == Said(c, what, to)
             pc == IF Len(c.says) + 1 < Len(c.asked) THEN "flags" ELSE "act"
  <1>1. pc \in {"flags", "act"}
    OBVIOUS
  <1>2. n = [c EXCEPT !.says = Append(@, what), !.to = to, !.pc = pc]
    BY DEF Said
  <1>3. /\ n.call = c.call /\ n.asked = c.asked /\ n.leads = c.leads /\ n.pc = pc
        /\ n.removed = c.removed /\ n.forgot = c.forgot
    BY Told
  <1> HIDE DEF n, pc
  <1>4. n \in CallRecord
    <2> DEFINE S == {"unset", "allow", "block", "redirect"}
    <2>1. c.says \in Seq(S) /\ what \in S
      BY DEF CallRecord
    <2> HIDE DEF S
    <2>2. Append(c.says, what) \in Seq(S)
      BY <2>1
    <2> DEFINE says == Append(c.says, what)
    <2>3. n = [c EXCEPT !.says = says, !.to = to, !.pc = pc]
      BY <1>2
    <2> HIDE DEF says
    <2>4. says \in Seq({"unset", "allow", "block", "redirect"})
      BY <2>2 DEF says, S
    <2> QED
      BY <1>1, <2>3, <2>4 DEF CallRecord
  <1>5. ~c.removed /\ c.pc \in Asking
    BY DEF Traced, Asking
  <1>6. OfCall(n)
    BY <1>3, <1>5 DEF Traced, OfCall
  <1>7. Traced(n)
    BY <1>1, <1>3, <1>5, <1>6 DEF Traced, Asking
  <1> QED
    BY <1>4, <1>7 DEF n

LEMMA ReadFlagsWhole == ASSUME Inv, Wholes, NEW t \in Thread, ReadFlags(t) PROVE Wholes'
  <1> DEFINE c == calls[t]
  <1>1. c.pc = "flags" /\ IsCall(c) /\ c \in CallRecord /\ Traced(c) /\ UNCHANGED shared
    BY Facts, WholeCall DEF ReadFlags
  <1>2. CASE Now(t, [c EXCEPT !.pc = "ask"])
    <2> DEFINE n == [c EXCEPT !.pc = "ask"]
    <2> HIDE DEF c
    <2>1. n \in CallRecord
      BY <1>1 DEF CallRecord
    <2>2. /\ n.pc = "ask" /\ n.call = c.call /\ n.asked = c.asked /\ n.leads = c.leads
          /\ n.to = c.to /\ n.removed = c.removed /\ n.forgot = c.forgot /\ n.during = c.during
      BY <1>1, Turned
    <2> HIDE DEF n
    <2>3. Traced(n)
      BY <1>1, <2>2, TracedOn DEF Traced, Asking
    <2> QED
      BY <1>1, <1>2, <2>1, <2>3, OneWhole DEF n
  <1>3. CASE Now(t, Said(c, "unset", <<>>))
    <2> HIDE DEF c
    <2> QED
      BY <1>1, <1>3, PathsTyped, SaidWhole, OneWhole
  <1> QED
    BY <1>2, <1>3 DEF ReadFlags

LEMMA AskWhole == ASSUME Inv, Wholes, NEW t \in Thread, Ask(t) PROVE Wholes'
  <1> DEFINE c == calls[t]
             judged == c.asked[Len(c.says) + 1]
  <1>1. c.pc = "ask" /\ IsCall(c) /\ c \in CallRecord /\ Traced(c) /\ UNCHANGED shared
        /\ policy \in MayHold /\ CallRight(c)
    BY Facts, WholeCall DEF Ask
  <1>2. PICK what \in {"unset", "allow", "block", "redirect"}, to \in Path :
          Now(t, Said(c, what, to))
    <2>1. CASE Now(t, Said(c, "unset", <<>>)) \/ Now(t, Said(c, "allow", <<>>))
      BY <2>1, PathsTyped
    <2>2. CASE /\ policy # NoPolicy
               /\ \E path \in judged : \E o \in Outcomes(policy, path) :
                    Now(t, Said(c, o.decision, o.to))
      <3>1. judged \subseteq Path
        <4> HIDE DEF c
        <4>1. Len(c.says) \in Nat /\ Len(c.says) < Len(c.asked)
          BY <1>1, Sequences DEF CallRight, Counted, Asking
        <4> DEFINE S == SUBSET Path
        <4>2. c.asked \in Seq(S)
          BY <1>1 DEF CallRecord
        <4> HIDE DEF S
        <4>3. c.asked[Len(c.says) + 1] \in S
          BY <4>1, <4>2
        <4> QED
          BY <4>3 DEF S
      <3>2. PICK path \in judged : \E o \in Outcomes(policy, path) :
                                     Now(t, Said(c, o.decision, o.to))
        BY <2>2
      <3>3. PICK o \in Outcomes(policy, path) : Now(t, Said(c, o.decision, o.to))
        BY <3>2
      <3>4. o.decision \in {"allow", "block", "redirect"} /\ o.to \in Path
        BY <1>1, <2>2, <3>1, OutcomesTyped
      <3> QED
        BY <3>3, <3>4
    <2> QED
      BY <2>1, <2>2 DEF Ask
  <1> HIDE DEF c
  <1>3. Said(c, what, to) \in CallRecord /\ Traced(Said(c, what, to))
    BY <1>1, SaidWhole
  <1> QED
    BY <1>1, <1>2, <1>3, OneWhole

LEMMA RefuseWhole == ASSUME Inv, Wholes, NEW t \in Thread, Refuse(t) PROVE Wholes'
  <1> DEFINE c == calls[t]
             errno == Errno(c.op)
             n == RefusedCall(c, errno)
  <1>1. c.pc = "act" /\ IsCall(c) /\ c \in CallRecord /\ Traced(c) /\ UNCHANGED shared /\ Now(t, n)
    BY Facts, WholeCall DEF Refuse, RefusedCall
  <1>2. errno \in {"no", "ENOENT", "EACCES"}
    BY DEF Errno
  <1> HIDE DEF c, errno
  <1>3. n \in CallRecord
    BY <1>1, <1>2 DEF CallRecord, RefusedCall
  <1>4. /\ n.pc = "done" /\ n.call = c.call /\ n.asked = c.asked /\ n.leads = c.leads
        /\ n.to = c.to /\ n.removed = c.removed /\ n.forgot = c.forgot /\ n.during = c.during
    BY <1>1, Refused
  <1> HIDE DEF n
  <1>5. Traced(n)
    BY <1>1, <1>4, TracedOn DEF Traced, Asking
  <1> QED
    BY <1>1, <1>3, <1>5, OneWhole

LEMMA MakeWhole == ASSUME Inv, Wholes, NEW t \in Thread, Make(t) PROVE Wholes'
  <1> DEFINE c == calls[t]
             acts == IF IsRedirected(c) THEN <<c.to>> ELSE c.leads
             pc(removed) == IF removed THEN "forget" ELSE "done"
  <1>1. c.pc = "act" /\ IsCall(c) /\ c \in CallRecord /\ Traced(c) /\ UNCHANGED shared
    BY Facts, WholeCall DEF Make
  <1>2. PICK removed \in BOOLEAN :
          Now(t, [c EXCEPT !.pc = pc(removed), !.removed = removed, !.acts = acts])
    BY DEF Make
  <1> DEFINE to == pc(removed)
             n == MadeCall(c, to, removed, acts)
  <1>3. to \in {"forget", "done"} /\ (to = "forget" <=> removed)
    OBVIOUS
  <1>4. Now(t, n)
    BY <1>2 DEF MadeCall
  <1>5. acts \in Seq(Path)
    <2> HIDE DEF c
    <2>1. c.to \in Path /\ c.leads \in Seq(Path)
      BY <1>1 DEF CallRecord
    <2> QED
      BY <2>1
  <1> HIDE DEF c, to, acts
  <1>6. n \in CallRecord
    BY <1>1, <1>3, <1>5 DEF CallRecord, MadeCall
  <1>7. /\ n.pc = to /\ n.call = c.call /\ n.asked = c.asked /\ n.leads = c.leads
        /\ n.removed = removed /\ n.forgot = c.forgot
    BY <1>1, Made
  <1> HIDE DEF n
  <1>8. OfCall(c) /\ c.forgot = <<>>
    BY <1>1 DEF Traced, Asking
  <1>9. OfCall(n)
    BY <1>7, <1>8 DEF OfCall
  <1>10. Traced(n)
    BY <1>3, <1>7, <1>8, <1>9 DEF Traced, Asking, Forgotten
  <1> QED
    BY <1>1, <1>4, <1>6, <1>10, OneWhole

(* With the flag set, what is forgotten is what the path is called. *)
LEMMA ErasedPaths ==
  ASSUME NEW S, S \subseteq WrittenPath
  PROVE  /\ Erased(S) \subseteq Path
         /\ shouldHook =>
              Erased(S) = {Key(p) : p \in UNION {fm_normalize_rule_path(s) : s \in S}}
  <1>1. UNION {fm_normalize_rule_path(s) : s \in S} \subseteq Path
    BY RulePathsTyped
  <1>2. {Key(p) : p \in UNION {fm_normalize_rule_path(s) : s \in S}} \subseteq Path
    BY <1>1, KeyTyped
  <1> QED
    BY <1>2 DEF Erased

(* A sequence of one member gets a second. *)
LEMMA Paired ==
  ASSUME NEW x, NEW y
  PROVE  Append(<<x>>, y) = <<x, y>>
  <1> DEFINE S == {x, y}
  <1>1. <<x>> \in Seq(S) /\ y \in S /\ Len(<<x>>) = 1
    OBVIOUS
  <1>2. <<x, y>> \in Seq(S) /\ Len(<<x, y>>) = 2
    OBVIOUS
  <1> HIDE DEF S
  <1>3. Append(<<x>>, y) \in Seq(S) /\ Len(Append(<<x>>, y)) = 2
    BY <1>1
  <1>4. Append(<<x>>, y)[1] = x /\ Append(<<x>>, y)[2] = y
    BY <1>1
  <1>5. \A i \in 1 .. 2 : Append(<<x>>, y)[i] = <<x, y>>[i]
    BY <1>4
  <1> QED
    BY <1>2, <1>3, <1>5, SameSequence

LEMMA ForgetWhole == ASSUME Inv, Wholes, NEW t \in Thread, Forget(t) PROVE Wholes'
  <1> DEFINE c == calls[t]
  <1>1. c.pc = "forget" /\ IsCall(c) /\ c \in CallRecord /\ Traced(c) /\ UNCHANGED shared
        /\ (~shouldHook => NoPolicy \in c.during)
    BY Facts, WholeCall DEF Forget, Open
  <1>2. PICK a \in Asked : c.call = <<a>> /\ c.asked = [i \in DOMAIN a.paths |-> Judged(a, i)]
                             /\ c.leads = [i \in DOMAIN a.paths |-> ActedOn(a, i)]
    BY <1>1 DEF Traced, OfCall
  <1>3. c.call[1] = a /\ 1 \in DOMAIN a.paths
    BY <1>2, CallsFact DEF CallsAssumption
  <1>4. c.removed = TRUE /\ Forgotten(c)
    <2> HIDE DEF c
    <2> QED
      BY <1>1 DEF Traced, CallRecord
  <1> DEFINE first == Erased(Input(c.call[1], 1))
             second == Erased({Spelled(c.to)})
  <1>5. first \subseteq Path /\ second \subseteq Path
        /\ (shouldHook => first = First(c) /\ second = Second(c))
    <2>1. Input(c.call[1], 1) \subseteq WrittenPath
      BY <1>3, InputTyped
    <2>2. {Spelled(c.to)} \subseteq WrittenPath
      <3>1. c.to \in Path
        BY <1>1 DEF CallRecord
      <3> QED
        BY <3>1, SpelledTyped
    <2> QED
      BY <2>1, <2>2, ErasedPaths DEF First, Second
  <1> DEFINE forgot == IF c.forgot = <<>> THEN <<first>> ELSE Append(c.forgot, second)
             pc == IF c.forgot = <<>> THEN "forget" ELSE "done"
             n == ForgottenCall(c, pc, forgot)
  <1>6. Now(t, n)
    <2>1. CASE c.forgot = <<>>
      <3>1. Now(t, [c EXCEPT !.forgot = <<first>>])
        BY <2>1 DEF Forget
      <3>2. [c EXCEPT !.forgot = <<first>>] = [c EXCEPT !.forgot = <<first>>, !.pc = "forget"]
        <4> HIDE DEF c, first
        <4> QED
          BY <1>1 DEF CallRecord
      <3> QED
        BY <2>1, <3>1, <3>2 DEF ForgottenCall
    <2>2. CASE c.forgot # <<>>
      BY <2>2 DEF Forget, ForgottenCall
    <2> QED
      BY <2>1, <2>2
  <1>7. forgot \in Seq(SUBSET Path)
    <2> DEFINE S == SUBSET Path
    <2>1. first \in S /\ second \in S
      BY <1>5
    <2>2. c.forgot \in Seq(S)
      <3> HIDE DEF c, S
      <3> QED
        BY <1>1 DEF CallRecord, S
    <2> HIDE DEF S, first, second, c
    <2>3. forgot \in Seq(S)
      BY <2>1, <2>2
    <2> QED
      BY <2>3 DEF S
  <1>8. pc \in {"forget", "done"}
    OBVIOUS
  <1>9. NoPolicy \notin c.during =>
          forgot = IF c.forgot = <<>> THEN <<First(c)>> ELSE <<First(c), Second(c)>>
    <2> SUFFICES ASSUME NoPolicy \notin c.during
                 PROVE  forgot = IF c.forgot = <<>> THEN <<First(c)>> ELSE <<First(c), Second(c)>>
      OBVIOUS
    <2>1. shouldHook /\ first = First(c) /\ second = Second(c)
      <3>1. shouldHook
        BY <1>1, WholeCall
      <3> QED
        BY <1>5, <3>1
    <2>2. c.forgot \in {<<>>, <<First(c)>>}
      BY <1>1, <1>4 DEF Forgotten
    <2>3. Append(<<First(c)>>, Second(c)) = <<First(c), Second(c)>>
      BY Paired
    <2> HIDE DEF first, second, c
    <2> QED
      BY <2>1, <2>2, <2>3
  <1>10. pc = IF c.forgot = <<>> THEN "forget" ELSE "done"
    OBVIOUS
  <1> HIDE DEF c, forgot, pc
  <1>11. n \in CallRecord
    BY <1>1, <1>7, <1>8 DEF CallRecord, ForgottenCall
  <1>12. /\ n.pc = pc /\ n.call = c.call /\ n.asked = c.asked /\ n.leads = c.leads
         /\ n.to = c.to /\ n.removed = c.removed /\ n.forgot = forgot /\ n.during = c.during
    BY <1>1, Forgot
  <1> HIDE DEF n
  <1>13. First(n) = First(c) /\ Second(n) = Second(c)
    BY <1>12 DEF First, Second
  <1>14. OfCall(n)
    BY <1>2, <1>12 DEF OfCall
  <1>15. Forgotten(n)
    BY <1>9, <1>10, <1>12, <1>13 DEF Forgotten
  <1>16. Traced(n)
    BY <1>4, <1>8, <1>12, <1>14, <1>15 DEF Traced, Asking
  <1> QED
    BY <1>1, <1>6, <1>11, <1>16, OneWhole

LEMMA ReturnWhole == ASSUME Inv, Wholes, NEW t \in Thread, Return(t) PROVE Wholes'
  <1>1. Now(t, NoCall) /\ UNCHANGED shared
    BY DEF Return
  <1> QED
    BY <1>1, NoCallWhole, OneWhole

LEMMA BeginListingWhole == ASSUME Inv, Wholes, NEW t \in Thread, BeginListing(t) PROVE Wholes'
  <1>1. PICK op \in Listings, dir \in DOMAIN Entries :
          Now(t, [NoCall EXCEPT !.pc = "take", !.op = op, !.dir = dir,
                                !.during = {policy} \cup replaced, !.gates = {gate}])
    BY DEF BeginListing
  <1> DEFINE during == {policy} \cup replaced
             gates == {gate}
             n == OpenedCall(NoCall, op, dir, during, gates)
  <1>2. during \subseteq MayHold /\ gates \subseteq BOOLEAN
    BY WholeCall
  <1>3. Now(t, n) /\ UNCHANGED shared
    BY <1>1 DEF BeginListing, OpenedCall
  <1>4. dir \in Path
    BY EntriesTyped, ProperPath DEF IsResolved
  <1> HIDE DEF during, gates
  <1>5. /\ n.pc = "take" /\ n.asked = NoCall.asked
        /\ n.removed = NoCall.removed /\ n.forgot = NoCall.forgot
    BY NoCallFacts, Opened
  <1>6. n \in CallRecord
    <2>1. NoCall \in CallRecord
      BY NoCallWhole
    <2> QED
      BY <1>2, <1>4, <2>1 DEF CallRecord, OpenedCall
  <1> HIDE DEF n
  <1>7. Traced(n)
    BY <1>5, NoCallFacts DEF Traced, Asking
  <1> QED
    BY <1>3, <1>6, <1>7, OneWhole

LEMMA TakeWhole == ASSUME Inv, Wholes, ListingsRuled, NEW t \in Thread, Take(t) PROVE Wholes'
  <1> DEFINE c == calls[t]
             left == Len(Entries[c.dir]) - c.next + 1
  <1>1. c.pc = "take" /\ IsCall(c) /\ c \in CallRecord /\ Traced(c) /\ UNCHANGED shared
        /\ ListingRuled(c)
    BY Facts, WholeCall DEF Take, ListingsRuled
  <1>2. ~c.removed
    BY <1>1 DEF Traced
  <1>3. ASSUME NEW n, Now(t, n), n \in CallRecord, n.pc \in {"filter", "done"}, n.call = c.call,
               n.asked = c.asked, n.leads = c.leads, n.to = c.to, n.removed = c.removed,
               n.forgot = c.forgot, n.during = c.during
        PROVE  Wholes'
    <2>1. Traced(n)
      <3> HIDE DEF c
      <3> QED
        BY <1>1, <1>2, <1>3, TracedOn DEF Asking
    <2> QED
      BY <1>1, <1>3, <2>1, OneWhole
  <1>4. CASE Now(t, [c EXCEPT !.pc = "done"])
    <2> DEFINE n == [c EXCEPT !.pc = "done"]
    <2> HIDE DEF c
    <2>1. n \in CallRecord
      BY <1>1 DEF CallRecord
    <2>2. /\ n.pc = "done" /\ n.call = c.call /\ n.asked = c.asked /\ n.leads = c.leads
          /\ n.to = c.to /\ n.removed = c.removed /\ n.forgot = c.forgot /\ n.during = c.during
      BY <1>1, Turned
    <2> HIDE DEF n
    <2> QED
      BY <1>3, <1>4, <2>1, <2>2 DEF n
  <1>5. CASE ~Now(t, [c EXCEPT !.pc = "done"])
    <2>1. PICK k \in 1 .. IF c.op = "readdir" THEN 1 ELSE MaxChunk :
            /\ k <= left
            /\ Now(t, [c EXCEPT !.pc = "filter", !.next = c.next + k, !.some = FALSE,
                                !.chunk = SubSeq(Entries[c.dir], c.next, c.next + k - 1)])
      BY <1>5 DEF Take
    <2> DEFINE next == c.next + k
               chunk == SubSeq(Entries[c.dir], c.next, c.next + k - 1)
               n == TakenCall(c, next, chunk)
    <2>2. Now(t, n)
      BY <2>1 DEF TakenCall
    <2>3. k \in Nat /\ k >= 1
      BY CallsFact DEF CallsAssumption
    <2>4. /\ Entries[c.dir] \in Path /\ c.next \in Nat /\ Len(Entries[c.dir]) \in Nat
          /\ c.next \in 1 .. Len(Entries[c.dir]) + 1
      <3> HIDE DEF c
      <3>1. c.op \in Listings /\ c.chunk = <<>>
        BY <1>1 DEF ListingRuled
      <3>2. Len(c.chunk) = 0
        BY <3>1
      <3>3. /\ Entries[c.dir] \in Seq(STRING) /\ c.next \in Nat /\ Len(Entries[c.dir]) \in Nat
            /\ c.next - Len(c.chunk) \in 1 .. Len(Entries[c.dir]) + 1
        BY <1>1, <3>1, ListingFacts
      <3> QED
        BY <3>2, <3>3 DEF Path
    <2>5. chunk \in Path
      <3> DEFINE S == STRING
                 e == Entries[c.dir]
      <3>1. e \in Seq(S) /\ c.next >= 1 /\ c.next + k - 1 <= Len(e)
        BY <2>1, <2>3, <2>4 DEF Path
      <3> HIDE DEF c, e, S
      <3>2. SubSeq(e, c.next, c.next + k - 1) \in Seq(S)
        BY <2>3, <2>4, <3>1, PartOf
      <3> QED
        BY <3>2 DEF S, e, Path
    <2>6. next \in Nat
      BY <2>3, <2>4
    <2> HIDE DEF c, next, chunk
    <2>7. n \in CallRecord
      BY <1>1, <2>5, <2>6 DEF CallRecord, TakenCall
    <2>8. /\ n.pc = "filter" /\ n.call = c.call /\ n.asked = c.asked /\ n.leads = c.leads
          /\ n.to = c.to /\ n.removed = c.removed /\ n.forgot = c.forgot /\ n.during = c.during
      BY <1>1, Taken
    <2> HIDE DEF n
    <2> QED
      BY <1>3, <2>2, <2>7, <2>8
  <1> QED
    BY <1>4, <1>5

LEMMA FilterWhole ==
  ASSUME Inv, Wholes, ListingsRuled, NEW t \in Thread, Filter(t)
  PROVE  Wholes'
  <1> DEFINE c == calls[t]
  <1>1. c.pc = "filter" /\ IsCall(c) /\ c \in CallRecord /\ Traced(c) /\ UNCHANGED shared
        /\ ListingRuled(c)
    BY Facts, WholeCall DEF Filter, ListingsRuled
  <1>2. ~c.removed
    BY <1>1 DEF Traced
  <1>3. PICK hidden \in Hides(c.dir, Head(c.chunk)) : Now(t, Passed(c, hidden))
    BY DEF Filter
  <1>4. hidden \in BOOLEAN
    BY <1>1, <1>3, NameNext, HidesAsSaid
  <1> DEFINE chunk == Tail(c.chunk)
             some == c.some \/ ~hidden
             shown == IF hidden THEN c.shown ELSE c.shown \cup {Head(c.chunk)}
             pc == IF chunk # <<>> THEN "filter"
                   ELSE IF c.op = "readdir" \/ c.some \/ ~hidden THEN "take" ELSE "done"
             n == WentCall(c, chunk, some, shown, pc)
  <1>5. Now(t, n)
    BY <1>3 DEF Passed, WentCall
  <1>6. pc \in {"filter", "take", "done"} /\ some \in BOOLEAN
    OBVIOUS
  <1>7. chunk \in Path /\ Head(c.chunk) \in STRING
    <2> DEFINE S == STRING
    <2>1. c.op \in Listings /\ c.chunk # <<>>
      BY <1>1 DEF ListingRuled
    <2>2. c.chunk \in Seq(S)
      <3> HIDE DEF c
      <3> QED
        BY <1>1 DEF CallRecord, Path
    <2> HIDE DEF c, S
    <2>3. Tail(c.chunk) \in Seq(S) /\ Head(c.chunk) = c.chunk[1] /\ Len(c.chunk) \in Nat
          /\ Len(c.chunk) >= 1
      BY <2>1, <2>2, TailOf
    <2>4. c.chunk[1] \in S
      BY <2>2, <2>3
    <2> QED
      BY <2>3, <2>4 DEF S, Path
  <1>8. shown \in SUBSET STRING
    <2> HIDE DEF c
    <2>1. c.shown \in SUBSET STRING
      BY <1>1 DEF CallRecord
    <2> QED
      BY <1>7, <2>1
  <1> HIDE DEF c, chunk, some, shown, pc
  <1>9. n \in CallRecord
    BY <1>1, <1>6, <1>7, <1>8 DEF CallRecord, WentCall
  <1>10. /\ n.pc = pc /\ n.call = c.call /\ n.asked = c.asked /\ n.leads = c.leads
         /\ n.to = c.to /\ n.removed = c.removed /\ n.forgot = c.forgot /\ n.during = c.during
    BY <1>1, Went
  <1> HIDE DEF n
  <1>11. Traced(n)
    BY <1>1, <1>2, <1>6, <1>10, TracedOn DEF Asking
  <1> QED
    BY <1>1, <1>5, <1>9, <1>11, OneWhole

(* A reload adds to the rules and gates that were met. *)
LEMMA MeetingWhole ==
  ASSUME Inv, Wholes, NEW rules \in MayHold, NEW open \in BOOLEAN, calls' = Meeting(rules, open),
         policy' \in MayHold, replaced' \subseteq MayHold, reload' \in {"idle", "flag", "gate"},
         {shouldHook', gate', marker', watched'} \subseteq BOOLEAN
  PROVE  Wholes'
  <1>1. calls' = [t \in Thread |->
                    IF calls[t].pc \in {"idle", "done"} THEN calls[t]
                    ELSE MetCall(calls[t], calls[t].during \cup {rules}, calls[t].gates \cup {open})]
    BY DEF Meeting, MetCall
  <1>2. ASSUME NEW t \in Thread PROVE calls'[t] \in CallRecord /\ Traced(calls'[t])
    <2> DEFINE c == calls[t]
               during == c.during \cup {rules}
               gates == c.gates \cup {open}
               n == MetCall(c, during, gates)
    <2>1. c \in CallRecord /\ IsCall(c) /\ Traced(c)
      BY Facts, WholeCall
    <2>2. calls'[t] = c \/ calls'[t] = n
      BY <1>1
    <2>3. during \subseteq MayHold /\ gates \subseteq BOOLEAN /\ c.during \subseteq during
      <3> HIDE DEF c
      <3>1. c.during \subseteq MayHold /\ c.gates \subseteq BOOLEAN
        BY <2>1 DEF CallRecord
      <3> QED
        BY <3>1
    <2> HIDE DEF c, during, gates
    <2>4. n \in CallRecord
      BY <2>1, <2>3 DEF CallRecord, MetCall
    <2>5. /\ n.pc = c.pc /\ n.call = c.call /\ n.asked = c.asked /\ n.leads = c.leads
          /\ n.to = c.to /\ n.removed = c.removed /\ n.forgot = c.forgot /\ n.during = during
      BY <2>1, Extended
    <2> HIDE DEF n
    <2>6. Traced(n)
      BY <2>1, <2>3, <2>5, TracedOn
    <2> QED
      BY <2>1, <2>2, <2>4, <2>6
  <1>3. \A t \in Thread : Traced(calls[t])'
    <2>1. ASSUME NEW t \in Thread PROVE Traced(calls[t])'
      <3>1. Traced(calls'[t])
        BY <1>2
      <3> QED
        BY <3>1
    <2> QED
      BY <2>1
  <1>4. TypeOK'
    BY <1>1, <1>2 DEF TypeOK
  <1> QED
    BY <1>3, <1>4 DEF Wholes

LEMMA InitWhole == Init => Wholes
  <1> SUFFICES ASSUME Init PROVE Wholes
    OBVIOUS
  <1>1. \A t \in Thread : calls[t] = NoCall
    BY DEF Init
  <1>2. \A t \in Thread : Traced(calls[t])
    BY <1>1, NoCallWhole
  <1>3. calls \in [Thread -> CallRecord]
    BY NoCallWhole DEF Init
  <1>4. TypeOK
    BY <1>3 DEF Init, TypeOK
  <1> QED
    BY <1>2, <1>4 DEF Wholes

LEMMA StepWhole == ASSUME Inv, ListingsRuled, Wholes, [Next]_vars PROVE Wholes'
  <1>1. CASE ReloadRules
    <2>1. /\ policy' \in MayHold /\ replaced' = {policy} /\ reload' = "flag"
          /\ calls' = Meeting(policy', gate)
          /\ UNCHANGED <<shouldHook, gate, marker, watched>>
      BY <1>1 DEF ReloadRules
    <2>2. policy \in MayHold /\ {shouldHook, gate, marker, watched} \subseteq BOOLEAN
      BY DEF Wholes, TypeOK
    <2> QED
      BY <2>1, <2>2, MeetingWhole
  <1>2. CASE ReloadGate
    <2>1. /\ policy' = policy /\ replaced' = {} /\ reload' = "idle" /\ gate' = (watched => marker)
          /\ calls' = Meeting(policy, gate') /\ UNCHANGED <<shouldHook, marker, watched>>
      BY <1>2 DEF ReloadGate
    <2>2. policy \in MayHold /\ {shouldHook, gate, marker, watched} \subseteq BOOLEAN
      BY DEF Wholes, TypeOK
    <2> QED
      BY <2>1, <2>2, MeetingWhole
  <1>3. CASE ReloadFlag \/ SetMarker \/ UNCHANGED vars
    <2>1. calls' = calls
      BY <1>3 DEF ReloadFlag, SetMarker, vars
    <2>2. TypeOK'
      BY <1>3 DEF ReloadFlag, SetMarker, vars, Wholes, TypeOK
    <2> QED
      BY <2>1, <2>2 DEF Wholes
  <1>4. ASSUME NEW t \in Thread, Step(t) PROVE Wholes'
    BY <1>4, BeginWhole, ReadFlagsWhole, AskWhole, RefuseWhole, MakeWhole, ForgetWhole,
       ReturnWhole, BeginListingWhole, TakeWhole, FilterWhole DEF Step
  <1> QED
    BY <1>1, <1>2, <1>3, <1>4 DEF Next

(* The invariant that the three properties below follow from. *)
THEOREM AlwaysWhole == Spec => []Wholes
  <1>1. Init => Inv /\ ListingsRuled /\ Wholes
    BY InitInv, InitLists, InitWhole
  <1>2. Inv /\ ListingsRuled /\ Wholes /\ [Next]_vars => (Inv /\ ListingsRuled /\ Wholes)'
    BY StepInv, StepLists, StepWhole
  <1> QED
    BY <1>1, <1>2, PTL DEF Spec

(* TypeOK, for any number of threads, calls and sections: whatever a       *)
(* wrapper makes of a path, and whatever rules and reloads do to the call, *)
(* it is a call with paths, answers and an errno that the application can  *)
(* be given.                                                               *)
THEOREM TypeCorrect == Spec => []TypeOK
  <1>1. Wholes => TypeOK
    BY DEF Wholes
  <1> QED
    BY <1>1, AlwaysWhole, PTL

(* JudgedIsActedOn: whatever is between reading a path and acting on it,   *)
(* and whatever functions and descriptors it came by, the rules were asked *)
(* about the path the kernel acts on.                                      *)
THEOREM JudgedWhereItLeads == Spec => []JudgedIsActedOn
  <1>1. Wholes => JudgedIsActedOn
    <2> SUFFICES ASSUME Wholes, NEW t \in Thread, NEW i \in DOMAIN calls[t].asked,
                        Readable(calls[t].call[1], i)
                 PROVE  calls[t].asked[i] = {calls[t].leads[i]}
      BY DEF JudgedIsActedOn
    <2> DEFINE c == calls[t]
    <2>1. OfCall(c)
      <3>1. c.asked # <<>>
        OBVIOUS
      <3> QED
        BY <3>1 DEF Wholes, Traced
    <2>2. PICK a \in Asked : c.call = <<a>> /\ c.asked = [k \in DOMAIN a.paths |-> Judged(a, k)]
                               /\ c.leads = [k \in DOMAIN a.paths |-> ActedOn(a, k)]
      BY <2>1 DEF OfCall
    <2>3. c.call[1] = a /\ i \in DOMAIN a.paths
      BY <2>2
    <2>4. Judged(a, i) = {ActedOn(a, i)}
      BY <2>3, ReadableJudged DEF Judged
    <2> QED
      BY <2>2, <2>3, <2>4
  <1> QED
    BY <1>1, AlwaysWhole, PTL

(* The path a call was sent to reads back as itself. *)
LEMMA SpelledBack ==
  ASSUME NEW to \in Path
  PROVE  Key(Spelled(to).names) = Key(to)
  <1> DEFINE other == Spelled(to).names
  <1>1. CASE IsExternalPath(to)
    <2> DEFINE S == STRING
               rest == Tail(to)
    <2>1. to # <<>> /\ to[1] = ExternalRoot /\ to \in Seq(S)
      BY <1>1 DEF IsExternalPath, Path
    <2> HIDE DEF S
    <2>2. rest \in Seq(S) /\ Len(rest) = Len(to) - 1 /\ Len(to) \in Nat /\ Len(to) >= 1
          /\ \A j \in 1 .. Len(to) - 1 : rest[j] = to[j + 1]
      BY <2>1, TailOf
    <2>3. ExternalPrimary \in Seq(S) /\ ExternalPrimary # <<>> /\ ExternalRoot \in S
      BY PathsTyped, StoragePaths, RootFact DEF Path, S
    <2>4. other = ExternalPrimary \o rest
      BY <1>1 DEF Spelled, Absolute, Spelling
    <2> HIDE DEF rest, other
    <2>5. IsPrefix(ExternalPrimary, ExternalPrimary \o rest)
      BY <2>2, <2>3, PrefixJoined
    <2>6. /\ Suffix(ExternalPrimary, other) \in Seq(S)
          /\ other = ExternalPrimary \o Suffix(ExternalPrimary, other)
      <3>1. other \in Seq(S)
        BY <2>2, <2>3, <2>4, Concatenated
      <3>2. IsPrefix(ExternalPrimary, other)
        BY <2>4, <2>5
      <3> QED
        BY <2>3, <3>1, <3>2, SuffixOf
    <2>7. Suffix(ExternalPrimary, other) = rest
      <3> DEFINE x == Suffix(ExternalPrimary, other)
      <3>1. x \in Seq(S) /\ ExternalPrimary \o x = ExternalPrimary \o rest
        BY <2>4, <2>6
      <3> HIDE DEF x
      <3> DEFINE e == ExternalPrimary
      <3>2. /\ Len(e \o x) = Len(e) + Len(x) /\ Len(e) \in Nat /\ Len(x) \in Nat
            /\ \A i \in 1 .. Len(x) : (e \o x)[Len(e) + i] = x[i]
        BY <2>3, <3>1, Concatenated
      <3>3. /\ Len(e \o rest) = Len(e) + Len(rest) /\ Len(rest) \in Nat
            /\ \A i \in 1 .. Len(rest) : (e \o rest)[Len(e) + i] = rest[i]
        <4>1. rest \in Seq(S) /\ e \in Seq(S)
          BY <2>2, <2>3
        <4> HIDE DEF e
        <4> QED
          BY <4>1, Concatenated
      <3>4. Len(x) = Len(rest)
        BY <3>1, <3>2, <3>3
      <3>5. \A i \in 1 .. Len(x) : x[i] = rest[i]
        BY <3>1, <3>2, <3>3, <3>4
      <3>6. x = rest
        BY <2>2, <3>1, <3>4, <3>5, SameSequence
      <3> QED
        BY <3>6 DEF x
    <2>8. <<ExternalRoot>> \o rest = to
      <3> DEFINE r == <<ExternalRoot>>
      <3>1. r \in Seq(S) /\ Len(r) = 1 /\ r[1] = ExternalRoot
        BY <2>3
      <3> HIDE DEF r
      <3>2. /\ r \o rest \in Seq(S) /\ Len(r \o rest) = 1 + Len(rest) /\ (r \o rest)[1] = r[1]
            /\ \A i \in 1 .. Len(rest) : (r \o rest)[1 + i] = rest[i]
        <4>1. /\ r \o rest \in Seq(S) /\ Len(r \o rest) = Len(r) + Len(rest)
              /\ \A i \in 1 .. Len(r) : (r \o rest)[i] = r[i]
              /\ \A i \in 1 .. Len(rest) : (r \o rest)[Len(r) + i] = rest[i]
          <5>1. rest \in Seq(S) /\ r \in Seq(S)
            BY <2>2, <3>1
          <5> QED
            BY <5>1, Concatenated
        <4>2. 1 \in 1 .. Len(r)
          BY <3>1
        <4> QED
          BY <3>1, <4>1, <4>2
      <3>3. ASSUME NEW i \in 1 .. Len(to) PROVE (r \o rest)[i] = to[i]
        <4>1. CASE i = 1
          BY <2>1, <3>1, <3>2, <4>1
        <4>2. CASE i # 1
          <5>1. i - 1 \in 1 .. Len(to) - 1 /\ 1 + (i - 1) = i /\ (i - 1) + 1 = i
            BY <2>2, <4>2
          <5> QED
            BY <2>2, <3>2, <5>1
        <4> QED
          BY <4>1, <4>2
      <3>4. r \o rest = to
        BY <2>1, <2>2, <3>2, <3>3, SameSequence
      <3> QED
        BY <3>4 DEF r
    <2>9. Key(other) = to
      BY <2>4, <2>5, <2>7, <2>8 DEF Key
    <2>10. ~IsPrefix(ExternalPrimary, to)
      <3> SUFFICES ASSUME IsPrefix(ExternalPrimary, to) PROVE FALSE
        OBVIOUS
      <3>1. to = ExternalPrimary \o Suffix(ExternalPrimary, to)
            /\ Suffix(ExternalPrimary, to) \in Seq(S)
        BY <2>1, <2>3, SuffixOf
      <3>2. 1 \in 1 .. Len(ExternalPrimary)
        BY <2>3
      <3>3. to[1] = ExternalPrimary[1]
        BY <2>3, <3>1, <3>2, Concatenated
      <3> QED
        BY <2>1, <3>3, RootFact
    <2> QED
      BY <2>9, <2>10 DEF Key, other
  <1>2. CASE ~IsExternalPath(to)
    BY <1>2 DEF Spelled, Absolute, Spelling
  <1> QED
    BY <1>1, <1>2

(* ForgetsWhatItRemoved: a call that removed something under a name the    *)
(* rules changed has the kind of both names forgotten, although the lock   *)
(* is let go between the two and rules are reloaded meanwhile.             *)
THEOREM ForgottenByBothNames == Spec => []ForgetsWhatItRemoved
  <1>1. Wholes => ForgetsWhatItRemoved
    <2> SUFFICES ASSUME Wholes, NEW t \in Thread, calls[t].pc = "done", calls[t].removed,
                        NoPolicy \notin calls[t].during, Readable(calls[t].call[1], 1),
                        IsPlainly(Spelled(calls[t].to).names), Fits(Spelled(calls[t].to).names),
                        \A a \in Aliases : ~IsPrefix(a, Spelled(calls[t].to).names)
                 PROVE  UNION {calls[t].forgot[i] : i \in DOMAIN calls[t].forgot}
                          = {calls[t].leads[1], Key(calls[t].to)}
      BY DEF ForgetsWhatItRemoved
    <2> DEFINE c == calls[t]
               other == Spelled(c.to).names
    <2>1. OfCall(c) /\ c.forgot = <<First(c), Second(c)>> /\ c.to \in Path
      <3>1. c \in CallRecord /\ Traced(c) /\ c.removed = TRUE /\ c.pc = "done"
        BY WholeCall DEF CallRecord
      <3> QED
        BY <3>1 DEF Traced, Forgotten, CallRecord
    <2>2. PICK a \in Asked : c.call = <<a>> /\ c.asked = [k \in DOMAIN a.paths |-> Judged(a, k)]
                               /\ c.leads = [k \in DOMAIN a.paths |-> ActedOn(a, k)]
      BY <2>1 DEF OfCall
    <2>3. c.call[1] = a /\ 1 \in DOMAIN a.paths
      BY <2>2, CallsFact DEF CallsAssumption
    <2>4. First(c) = {c.leads[1]}
      BY <2>2, <2>3, ReadableJudged DEF First
    <2>5. Spelled(c.to) \in WrittenPath /\ Spelled(c.to) = Absolute(other) /\ other \in Path
      BY <2>1, SpelledTyped DEF Spelled, Absolute, Spelling, WrittenPath
    <2>6. IsLead(other, other)
      <3>1. other \in Seq(ProperName)
        BY <2>5, ProperSequence DEF IsPlainly
      <3>2. Trimmed(other) = other
        BY <3>1, ProperPath
      <3> QED
        BY <2>5, <3>1, <3>2 DEF IsLead, Shaped, Clean, Fits
    <2>7. fm_normalize_rule_path(Spelled(c.to)) = {other}
      BY <2>5, <2>6, LeadRead
    <2>8. Second(c) = {Key(c.to)}
      <3>1. UNION {fm_normalize_rule_path(s) : s \in {Spelled(c.to)}} = {other}
        BY <2>7
      <3>2. Second(c) = {Key(other)}
        BY <3>1 DEF Second
      <3> QED
        BY <2>1, <3>2, SpelledBack
    <2>9. UNION {c.forgot[i] : i \in DOMAIN c.forgot} = First(c) \cup Second(c)
      <3>1. c.forgot = <<First(c), Second(c)>>
        BY <2>1
      <3> QED
        BY <3>1
    <2> QED
      BY <2>4, <2>8, <2>9
  <1> QED
    BY <1>1, AlwaysWhole, PTL
=============================================================================
