--------------------------- MODULE PltHooksProofs ---------------------------
(***************************************************************************)
(* What dlopen returns with is hooked, for any number of threads and       *)
(* libraries and whatever commits fail.                                    *)
(*                                                                         *)
(* A library is tracked before it is committed, so the invariant follows   *)
(* each from the moment its device and inode are read: a thread looks only *)
(* at libraries that are mapped or have been, what it has registered is    *)
(* still registered or has come out of somebody's commit, and what its     *)
(* call brings is among what it has found, unless there is no room.        *)
(***************************************************************************)
EXTENDS PltHooks, FiniteSetTheorems, TLAPS

Known == loaded \cup unloaded
Settled == patched \cup spoilt \cup unloaded
Registering == {"register", "track", "commit"}

(* What threads deal with is or has been mapped; what dlopen brings stays. *)
OnlyKnown ==
  /\ tracked \subseteq Known
  /\ \A t \in Thread :
       /\ calls[t].found \cup calls[t].left \cup calls[t].mine \subseteq Known
       /\ calls[t].brings \subseteq loaded

(* What was registered is, or a commit has dealt with it. *)
RegisteredOrSettled ==
  \A t \in Thread : calls[t].mine \subseteq registered \cup Settled

(* What a call brings is on its way. *)
OnItsWay(t) ==
  /\ calls[t].pc = "select" => calls[t].brings \subseteq calls[t].found
  /\ calls[t].pc \in Registering =>
       calls[t].brings \subseteq tracked \cup calls[t].left \cup calls[t].mine
  /\ calls[t].pc = "commit" => calls[t].left = {}
  /\ calls[t].pc = "done" => calls[t].brings \subseteq tracked \cup Settled

MineOnly == \A t \in Thread : calls[t].pc \notin Registering => calls[t].mine = {}

Types ==
  /\ started \in BOOLEAN /\ loads \in 0 .. MaxLoads
  /\ patched \subseteq loaded
  /\ {loaded, registered, tracked, unloaded, spoilt} \subseteq SUBSET Library
  /\ calls \in [Thread -> CallRecord]

Room == Cardinality(tracked) <= MaxTargets

(* What a step of one thread has to keep. *)
Rest ==
  /\ OnlyKnown /\ RegisteredOrSettled /\ MineOnly /\ TrackedIsHooked
  /\ ~Crowded => \A t \in Thread : OnItsWay(t)

Inv == Types /\ Room /\ Rest

USE LibrariesAssumption
-----------------------------------------------------------------------------
LEMMA AtMostFacts ==
  ASSUME NEW n \in Int, NEW S \in SUBSET Library, NEW c \in AtMost(n, S)
  PROVE  /\ c \subseteq S /\ c \in SUBSET Library
         /\ Cardinality(S) <= n => c = S
         /\ n >= 0 => Cardinality(c) <= n
  <1>1. c \subseteq S /\ (Cardinality(S) <= n => c = S)
        /\ (~(Cardinality(S) <= n) => Cardinality(c) = n)
    BY DEF AtMost
  <1> QED
    BY <1>1

LEMMA CollectedFacts ==
  ASSUME Types, NEW c \in Collected
  PROVE  c \subseteq loaded /\ (~Crowded => c = loaded)
  <1>1. loaded \in SUBSET Library /\ unloaded \in SUBSET Library
    BY DEF Types
  <1>2. IsFiniteSet(loaded \cup unloaded)
    BY <1>1, FS_Subset
  <1>3. /\ Cardinality(loaded) <= Cardinality(loaded \cup unloaded)
        /\ Cardinality(loaded) \in Nat /\ Cardinality(loaded \cup unloaded) \in Nat
    BY <1>1, <1>2, FS_Subset, FS_CardinalityType
  <1>4. c \subseteq loaded /\ (Cardinality(loaded) <= MaxTargets => c = loaded)
    BY <1>1, AtMostFacts DEF Collected
  <1> QED
    BY <1>3, <1>4 DEF Crowded

LEMMA TrackedFacts ==
  ASSUME Types, NEW S \in SUBSET Library, NEW n \in Tracked(S)
  PROVE  /\ tracked \subseteq n /\ n \subseteq tracked \cup S /\ n \in SUBSET Library
         /\ Room => Cardinality(n) <= MaxTargets
  <1>1. PICK new \in AtMost(MaxTargets - Cardinality(tracked), S \ tracked) :
          n = tracked \cup new
    BY DEF Tracked
  <1>2. tracked \in SUBSET Library /\ S \ tracked \in SUBSET Library
    BY DEF Types
  <1>3. IsFiniteSet(tracked) /\ Cardinality(tracked) \in Nat
    BY <1>2, FS_Subset, FS_CardinalityType
  <1>4. /\ new \subseteq S \ tracked /\ new \in SUBSET Library
        /\ MaxTargets - Cardinality(tracked) >= 0
             => Cardinality(new) <= MaxTargets - Cardinality(tracked)
    BY <1>1, <1>2, <1>3, AtMostFacts
  <1>5. IsFiniteSet(new) /\ Cardinality(new) \in Nat
    BY <1>4, FS_Subset, FS_CardinalityType
  <1>6. tracked \cap new = {}
    BY <1>4
  <1>7. Cardinality(tracked \cup new)
          = Cardinality(tracked) + Cardinality(new) - Cardinality(tracked \cap new)
    BY <1>3, <1>5, FS_Union
  <1>8. Cardinality(tracked \cap new) = 0
    BY <1>6, FS_EmptySet
  <1> QED
    BY <1>1, <1>2, <1>3, <1>4, <1>5, <1>7, <1>8 DEF Room

(* More and more libraries have been mapped. *)
LEMMA CrowdedStays ==
  ASSUME Types, loaded \cup unloaded \subseteq loaded' \cup unloaded',
         loaded' \cup unloaded' \in SUBSET Library, Crowded
  PROVE  Crowded'
  <1>1. IsFiniteSet(loaded' \cup unloaded')
    BY FS_Subset
  <1>2. /\ Cardinality(loaded \cup unloaded) <= Cardinality(loaded' \cup unloaded')
        /\ Cardinality(loaded \cup unloaded) \in Nat
        /\ Cardinality(loaded' \cup unloaded') \in Nat
    BY <1>1, FS_Subset, FS_CardinalityType
  <1> QED
    BY <1>2 DEF Crowded

(* What a commit does to what was to be patched. *)
LEMMA CommitFacts ==
  ASSUME Types, NEW requested \in SUBSET Library, NEW committed \in BOOLEAN,
         Commit(requested, committed)
  PROVE  /\ patched \subseteq patched' /\ patched' \subseteq loaded
         /\ spoilt \subseteq spoilt' /\ spoilt' \in SUBSET Library
         /\ registered' \in SUBSET Library
         /\ requested \cap loaded \subseteq patched' \cup spoilt'
  BY DEF Commit, Types
-----------------------------------------------------------------------------
LEMMA NowFacts ==
  ASSUME Types, NEW t \in Thread, NEW c \in CallRecord, Now(t, c)
  PROVE  /\ calls' \in [Thread -> CallRecord]
         /\ calls'[t] = c
         /\ \A u \in Thread \ {t} : calls'[u] = calls[u]
  BY DEF Now, Types

(* What the steps of a call make of its record. *)
LEMMA Records ==
  ASSUME Types, NEW t \in Thread
  PROVE  /\ NoCall \in CallRecord /\ calls[t] \in CallRecord
         /\ \A s \in SUBSET Library :
              /\ [calls[t] EXCEPT !.pc = "collect", !.brings = s] \in CallRecord
              /\ [calls[t] EXCEPT !.pc = "select", !.found = s] \in CallRecord
              /\ \A next \in {"done", "register"} :
                   [calls[t] EXCEPT !.found = {}, !.left = s, !.pc = next] \in CallRecord
         /\ \A l \in Library :
              [calls[t] EXCEPT !.left = @ \ {l}, !.mine = @ \cup {l}, !.pc = "track"]
                \in CallRecord
         /\ \A next \in {"commit", "register"} : [calls[t] EXCEPT !.pc = next] \in CallRecord
         /\ [calls[t] EXCEPT !.mine = {}, !.pc = "done"] \in CallRecord
  <1>1. calls[t] \in CallRecord
    BY DEF Types
  <1> QED
    BY <1>1 DEF CallRecord, NoCall

(* Each step of a call, part by part. *)
LEMMA StepFacts ==
  ASSUME Types, NEW t \in Thread, Load(t) \/ Install(t)
  PROVE  /\ calls' \in [Thread -> CallRecord]
         /\ \A u \in Thread \ {t} : calls'[u] = calls[u]
         /\ Load(t) =>
              \/ /\ calls'[t] = calls[t]
                 /\ loaded \subseteq loaded' /\ loaded' \in SUBSET Library
              \/ /\ calls'[t].pc = "collect" /\ loaded' = loaded \cup calls'[t].brings
                 /\ calls'[t].found = calls[t].found /\ calls'[t].left = calls[t].left
                 /\ calls'[t].mine = calls[t].mine
         /\ Collect(t) =>
              /\ calls'[t].pc = "select" /\ calls'[t].found \in Collected
              /\ calls'[t].brings = calls[t].brings /\ calls'[t].left = calls[t].left
              /\ calls'[t].mine = calls[t].mine
         /\ Select(t) =>
              /\ calls'[t].pc = IF calls'[t].left = {} THEN "done" ELSE "register"
              /\ calls'[t].brings = calls[t].brings /\ calls'[t].found = {}
              /\ calls'[t].left = calls[t].found \ tracked
              /\ calls'[t].mine = calls[t].mine
         /\ Register(t) =>
              \E l \in calls[t].left :
                /\ registered' = registered \cup {l}
                /\ calls'[t].pc = "track" /\ calls'[t].found = calls[t].found
                /\ calls'[t].brings = calls[t].brings
                /\ calls'[t].left = calls[t].left \ {l}
                /\ calls'[t].mine = calls[t].mine \cup {l}
         /\ Track(t) =>
              /\ calls'[t].pc = IF calls[t].left = {} THEN "commit" ELSE "register"
              /\ calls'[t].brings = calls[t].brings /\ calls'[t].found = calls[t].found
              /\ calls'[t].left = calls[t].left /\ calls'[t].mine = calls[t].mine
         /\ CommitNew(t) =>
              /\ calls'[t].pc = "done" /\ calls'[t].mine = {}
              /\ calls'[t].brings = calls[t].brings /\ calls'[t].found = calls[t].found
              /\ calls'[t].left = calls[t].left
         /\ Return(t) => calls'[t] = NoCall
  <1>0. calls[t] \in CallRecord /\ loaded \in SUBSET Library
    BY DEF Types
  <1>1. CASE Load(t)
    <2>1. PICK caller \in loaded, brings \in (SUBSET Library) \ {{}} :
            /\ loaded' = loaded \cup brings
            /\ Now(t, IF caller \in patched
                      THEN [calls[t] EXCEPT !.pc = "collect", !.brings = brings] ELSE calls[t])
      BY <1>1 DEF Load
    <2>2. [calls[t] EXCEPT !.pc = "collect", !.brings = brings] \in CallRecord
      BY Records
    <2>3. CASE caller \in patched
      <3>1. /\ calls'[t] = [calls[t] EXCEPT !.pc = "collect", !.brings = brings]
            /\ calls' \in [Thread -> CallRecord] /\ \A u \in Thread \ {t} : calls'[u] = calls[u]
        BY <2>1, <2>2, <2>3, NowFacts
      <3>2. /\ calls'[t].pc = "collect" /\ calls'[t].brings = brings
            /\ calls'[t].found = calls[t].found /\ calls'[t].left = calls[t].left
            /\ calls'[t].mine = calls[t].mine
        BY <1>0, <3>1 DEF CallRecord
      <3> QED
        BY <1>1, <2>1, <3>1, <3>2 DEF Load, Collect, Select, Register, Track, CommitNew, Return
    <2>4. CASE caller \notin patched
      <3>1. Now(t, calls[t])
        BY <2>1, <2>4
      <3>2. /\ calls'[t] = calls[t] /\ calls' \in [Thread -> CallRecord]
            /\ \A u \in Thread \ {t} : calls'[u] = calls[u]
        BY <1>0, <3>1, NowFacts
      <3> QED
        BY <1>0, <1>1, <2>1, <3>2
        DEF Load, Collect, Select, Register, Track, CommitNew, Return
    <2> QED
      BY <2>3, <2>4
  <1>2. CASE Collect(t)
    <2>1. PICK found \in Collected : Now(t, [calls[t] EXCEPT !.pc = "select", !.found = found])
      BY <1>2 DEF Collect
    <2>2. [calls[t] EXCEPT !.pc = "select", !.found = found] \in CallRecord
      BY <1>0, Records, CollectedFacts
    <2>3. /\ calls'[t] = [calls[t] EXCEPT !.pc = "select", !.found = found]
          /\ calls' \in [Thread -> CallRecord] /\ \A u \in Thread \ {t} : calls'[u] = calls[u]
      BY <2>1, <2>2, NowFacts
    <2>4. /\ calls'[t].pc = "select" /\ calls'[t].found = found
          /\ calls'[t].brings = calls[t].brings /\ calls'[t].left = calls[t].left
          /\ calls'[t].mine = calls[t].mine
      BY <1>0, <2>3 DEF CallRecord
    <2> QED
      BY <1>2, <2>3, <2>4 DEF Load, Collect, Select, Register, Track, CommitNew, Return
  <1>3. CASE Select(t)
    <2> DEFINE new == calls[t].found \ tracked
               next == IF new = {} THEN "done" ELSE "register"
    <2>1. Now(t, [calls[t] EXCEPT !.found = {}, !.left = new, !.pc = next])
      BY <1>3 DEF Select
    <2>2. new \in SUBSET Library /\ next \in {"done", "register"}
      BY <1>0 DEF CallRecord
    <2> HIDE DEF next
    <2>3. [calls[t] EXCEPT !.found = {}, !.left = new, !.pc = next] \in CallRecord
      BY <2>2, Records
    <2>4. /\ calls'[t] = [calls[t] EXCEPT !.found = {}, !.left = new, !.pc = next]
          /\ calls' \in [Thread -> CallRecord] /\ \A u \in Thread \ {t} : calls'[u] = calls[u]
      BY <2>1, <2>3, NowFacts
    <2>5. /\ calls'[t].pc = next /\ calls'[t].left = new /\ calls'[t].found = {}
          /\ calls'[t].brings = calls[t].brings /\ calls'[t].mine = calls[t].mine
      BY <1>0, <2>4 DEF CallRecord
    <2> QED
      BY <1>3, <2>4, <2>5
      DEF next, Load, Collect, Select, Register, Track, CommitNew, Return
  <1>4. CASE Register(t)
    <2>1. PICK l \in calls[t].left :
            /\ registered' = registered \cup {l}
            /\ Now(t, [calls[t] EXCEPT !.left = @ \ {l}, !.mine = @ \cup {l}, !.pc = "track"])
      BY <1>4 DEF Register
    <2>2. [calls[t] EXCEPT !.left = @ \ {l}, !.mine = @ \cup {l}, !.pc = "track"] \in CallRecord
      <3> DEFINE left == calls[t].left \ {l}
                 mine == calls[t].mine \cup {l}
      <3>1. left \in SUBSET Library /\ mine \in SUBSET Library
        BY <1>0 DEF CallRecord
      <3> HIDE DEF left, mine
      <3>2. [calls[t] EXCEPT !.left = left, !.mine = mine, !.pc = "track"] \in CallRecord
        BY <1>0, <3>1 DEF CallRecord
      <3> QED
        BY <3>2 DEF left, mine
    <2>3. /\ calls'[t] = [calls[t] EXCEPT !.left = @ \ {l}, !.mine = @ \cup {l}, !.pc = "track"]
          /\ calls' \in [Thread -> CallRecord] /\ \A u \in Thread \ {t} : calls'[u] = calls[u]
      BY <2>1, <2>2, NowFacts
    <2>4. /\ calls'[t].pc = "track" /\ calls'[t].left = calls[t].left \ {l}
          /\ calls'[t].mine = calls[t].mine \cup {l}
          /\ calls'[t].brings = calls[t].brings /\ calls'[t].found = calls[t].found
      BY <1>0, <2>3 DEF CallRecord
    <2> QED
      BY <1>4, <2>1, <2>3, <2>4 DEF Load, Collect, Select, Register, Track, CommitNew, Return
  <1>5. CASE Track(t)
    <2> DEFINE next == IF calls[t].left = {} THEN "commit" ELSE "register"
    <2>1. Now(t, [calls[t] EXCEPT !.pc = next])
      BY <1>5 DEF Track
    <2>2. next \in {"commit", "register"}
      OBVIOUS
    <2> HIDE DEF next
    <2>3. [calls[t] EXCEPT !.pc = next] \in CallRecord
      BY <2>2, Records
    <2>4. /\ calls'[t] = [calls[t] EXCEPT !.pc = next]
          /\ calls' \in [Thread -> CallRecord] /\ \A u \in Thread \ {t} : calls'[u] = calls[u]
      BY <2>1, <2>3, NowFacts
    <2>5. /\ calls'[t].pc = next /\ calls'[t].left = calls[t].left
          /\ calls'[t].mine = calls[t].mine
          /\ calls'[t].brings = calls[t].brings /\ calls'[t].found = calls[t].found
      BY <1>0, <2>4 DEF CallRecord
    <2> QED
      BY <1>5, <2>4, <2>5
      DEF next, Load, Collect, Select, Register, Track, CommitNew, Return
  <1>6. CASE CommitNew(t)
    <2>1. Now(t, [calls[t] EXCEPT !.mine = {}, !.pc = "done"])
      BY <1>6 DEF CommitNew
    <2>2. [calls[t] EXCEPT !.mine = {}, !.pc = "done"] \in CallRecord
      BY Records
    <2>3. /\ calls'[t] = [calls[t] EXCEPT !.mine = {}, !.pc = "done"]
          /\ calls' \in [Thread -> CallRecord] /\ \A u \in Thread \ {t} : calls'[u] = calls[u]
      BY <2>1, <2>2, NowFacts
    <2>4. /\ calls'[t].pc = "done" /\ calls'[t].mine = {}
          /\ calls'[t].brings = calls[t].brings /\ calls'[t].found = calls[t].found
          /\ calls'[t].left = calls[t].left
      BY <1>0, <2>3 DEF CallRecord
    <2> QED
      BY <1>6, <2>3, <2>4 DEF Load, Collect, Select, Register, Track, CommitNew, Return
  <1>7. CASE Return(t)
    <2>1. calls'[t] = NoCall /\ calls' \in [Thread -> CallRecord]
          /\ \A u \in Thread \ {t} : calls'[u] = calls[u]
      BY <1>7, Records, NowFacts DEF Return
    <2> QED
      BY <1>7, <2>1 DEF Load, Collect, Select, Register, Track, CommitNew, Return
  <1> QED
    BY <1>1, <1>2, <1>3, <1>4, <1>5, <1>6, <1>7 DEF Install

LEMMA TypesNext == Types /\ [Next]_vars => Types'
  <1> SUFFICES ASSUME Types, [Next]_vars PROVE Types'
    OBVIOUS
  <1>1. CASE Start
    <2>1. PICK found \in Collected :
            /\ tracked' \in Tracked(found)
            /\ \E committed \in BOOLEAN : Commit(registered \cup found, committed)
      BY <1>1 DEF Start
    <2>2. found \subseteq loaded /\ found \in SUBSET Library /\ registered \in SUBSET Library
      BY <2>1, CollectedFacts DEF Types
    <2>3. tracked' \in SUBSET Library
      BY <2>1, <2>2, TrackedFacts
    <2>4. patched' \subseteq loaded /\ spoilt' \in SUBSET Library /\ registered' \in SUBSET Library
      BY <2>1, <2>2, CommitFacts
    <2> QED
      BY <1>1, <2>3, <2>4 DEF Start, Types
  <1>2. ASSUME NEW t \in Thread, Load(t) PROVE Types'
    <2>1. calls' \in [Thread -> CallRecord] /\ loaded \subseteq loaded' /\ loaded' \in SUBSET Library
      BY <1>2, StepFacts DEF CallRecord, Types
    <2> QED
      BY <1>2, <2>1 DEF Load, Types
  <1>0. ASSUME NEW t \in Thread, Install(t) PROVE calls' \in [Thread -> CallRecord]
    BY <1>0, StepFacts
  <1>3. ASSUME NEW t \in Thread, Collect(t) \/ Select(t) \/ Return(t) PROVE Types'
    <2>1. calls' \in [Thread -> CallRecord]
      BY <1>0, <1>3 DEF Install
    <2> QED
      BY <1>3, <2>1 DEF Collect, Select, Return, Types
  <1>4. ASSUME NEW t \in Thread, Register(t) PROVE Types'
    <2>1. registered' \in SUBSET Library
      BY <1>4 DEF Register, Types, CallRecord
    <2> QED
      <3>1. calls' \in [Thread -> CallRecord]
        BY <1>0, <1>4 DEF Install
      <3> QED
        BY <1>4, <2>1, <3>1 DEF Register, Types
  <1>5. ASSUME NEW t \in Thread, Track(t) PROVE Types'
    <2>1. calls[t].mine \in SUBSET Library
      BY DEF Types, CallRecord
    <2>2. tracked' \in SUBSET Library
      BY <1>5, <2>1, TrackedFacts DEF Track
    <2>3. calls' \in [Thread -> CallRecord]
      BY <1>0, <1>5 DEF Install
    <2> QED
      BY <1>5, <2>2, <2>3 DEF Track, Types
  <1>6. ASSUME NEW t \in Thread, CommitNew(t) PROVE Types'
    <2>1. calls[t].mine \in SUBSET Library /\ registered \in SUBSET Library
      BY DEF Types, CallRecord
    <2>2. PICK committed \in BOOLEAN :
            /\ Commit(registered, committed)
            /\ tracked' \in IF committed THEN Tracked(calls[t].mine) ELSE {tracked}
      BY <1>6 DEF CommitNew
    <2>3. tracked' \in SUBSET Library
      BY <2>1, <2>2, TrackedFacts DEF Types
    <2>4. patched' \subseteq loaded /\ spoilt' \in SUBSET Library /\ registered' \in SUBSET Library
      BY <2>1, <2>2, CommitFacts
    <2>5. calls' \in [Thread -> CallRecord]
      BY <1>0, <1>6 DEF Install
    <2> QED
      BY <1>6, <2>3, <2>4, <2>5 DEF CommitNew, Types
  <1>7. ASSUME NEW l \in Library, Unload(l) PROVE Types'
    BY <1>7 DEF Unload, Types
  <1>8. CASE UNCHANGED vars
    BY <1>8 DEF vars, Types
  <1> QED
    BY <1>1, <1>2, <1>3, <1>4, <1>5, <1>6, <1>7, <1>8 DEF Next, Install

LEMMA RoomNext == Types /\ Room /\ [Next]_vars => Room'
  <1> SUFFICES ASSUME Types, Room, [Next]_vars PROVE Room'
    OBVIOUS
  <1>1. \A t \in Thread : calls[t].mine \in SUBSET Library
    BY DEF Types, CallRecord
  <1>2. CASE Start
    <2>1. PICK found \in Collected : tracked' \in Tracked(found)
      BY <1>2 DEF Start
    <2>2. found \in SUBSET Library
      BY <2>1, CollectedFacts DEF Types
    <2> QED
      BY <2>1, <2>2, TrackedFacts DEF Room
  <1>3. ASSUME NEW t \in Thread, Track(t) PROVE Room'
    <2>1. tracked' \in Tracked(calls[t].mine)
      BY <1>3 DEF Track
    <2> QED
      BY <1>1, <2>1, TrackedFacts DEF Room
  <1>4. ASSUME NEW t \in Thread, CommitNew(t) PROVE Room'
    <2>1. tracked' = tracked \/ tracked' \in Tracked(calls[t].mine)
      BY <1>4 DEF CommitNew
    <2> QED
      BY <1>1, <2>1, TrackedFacts DEF Room
  <1>5. CASE tracked' = tracked
    BY <1>5 DEF Room
  <1> QED
    BY <1>2, <1>3, <1>4, <1>5
    DEF Next, Install, Load, Collect, Select, Register, Return, Unload, vars
-----------------------------------------------------------------------------
LEMMA RestLoad ==
  ASSUME Types, Rest, NEW t \in Thread, Load(t)
  PROVE  Rest'
  <1>1. /\ loaded \subseteq loaded' /\ loaded' \in SUBSET Library
        /\ UNCHANGED <<patched, registered, tracked, unloaded, spoilt>>
    BY StepFacts DEF Load, Types, CallRecord
  <1>2. /\ \A u \in Thread :
             /\ calls'[u].found = calls[u].found /\ calls'[u].left = calls[u].left
             /\ calls'[u].mine = calls[u].mine
        /\ \A u \in Thread \ {t} : calls'[u] = calls[u]
        /\ calls[t].pc = "idle"
        /\ calls'[t] = calls[t] \/ (calls'[t].pc = "collect" /\ loaded' = loaded \cup calls'[t].brings)
    BY StepFacts DEF Load
  <1>3. OnlyKnown'
    BY <1>1, <1>2 DEF Rest, OnlyKnown, Known
  <1>4. RegisteredOrSettled' /\ MineOnly'
    BY <1>1, <1>2 DEF Rest, RegisteredOrSettled, MineOnly, Settled, Registering
  <1>5. TrackedIsHooked'
    BY <1>1, <1>2 DEF Rest, OnlyKnown, Known, TrackedIsHooked, UnderWay
  <1>6. Crowded => Crowded'
    BY <1>1, CrowdedStays DEF Types
  <1>7. ASSUME ~Crowded', NEW u \in Thread PROVE OnItsWay(u)'
    BY <1>1, <1>2, <1>6, <1>7 DEF Rest, OnItsWay, Settled, Registering
  <1> QED
    BY <1>3, <1>4, <1>5, <1>7 DEF Rest

LEMMA RestCollect ==
  ASSUME Types, Rest, NEW t \in Thread, Collect(t)
  PROVE  Rest'
  <1>1. UNCHANGED <<loaded, patched, registered, tracked, unloaded, spoilt>>
    BY DEF Collect
  <1>2. /\ calls'[t].pc = "select" /\ calls'[t].found \in Collected
        /\ calls'[t].brings = calls[t].brings /\ calls'[t].left = calls[t].left
        /\ calls'[t].mine = calls[t].mine /\ calls[t].pc = "collect"
        /\ \A u \in Thread \ {t} : calls'[u] = calls[u]
    BY StepFacts DEF Install, Collect
  <1>3. calls'[t].found \subseteq loaded /\ (~Crowded => calls'[t].found = loaded)
    BY <1>2, CollectedFacts
  <1>4. OnlyKnown'
    BY <1>1, <1>2, <1>3 DEF Rest, OnlyKnown, Known
  <1>5. RegisteredOrSettled' /\ MineOnly'
    BY <1>1, <1>2 DEF Rest, RegisteredOrSettled, MineOnly, Settled, Registering
  <1>6. TrackedIsHooked'
    BY <1>1, <1>2 DEF Rest, TrackedIsHooked, UnderWay
  <1>7. ASSUME ~Crowded', NEW u \in Thread PROVE OnItsWay(u)'
    BY <1>1, <1>2, <1>3, <1>7 DEF Rest, Crowded, OnItsWay, OnlyKnown, Settled, Registering
  <1> QED
    BY <1>4, <1>5, <1>6, <1>7 DEF Rest

LEMMA RestSelect ==
  ASSUME Types, Rest, NEW t \in Thread, Select(t)
  PROVE  Rest'
  <1>1. UNCHANGED <<loaded, patched, registered, tracked, unloaded, spoilt>>
    BY DEF Select
  <1>2. /\ calls'[t].pc = IF calls'[t].left = {} THEN "done" ELSE "register"
        /\ calls'[t].brings = calls[t].brings /\ calls'[t].found = {}
        /\ calls'[t].left = calls[t].found \ tracked
        /\ calls'[t].mine = calls[t].mine /\ calls[t].pc = "select"
        /\ \A u \in Thread \ {t} : calls'[u] = calls[u]
    BY StepFacts DEF Install, Select
  <1>3. calls[t].mine = {}
    BY <1>2 DEF Rest, MineOnly, Registering
  <1>4. OnlyKnown'
    BY <1>1, <1>2 DEF Rest, OnlyKnown, Known
  <1>5. RegisteredOrSettled' /\ MineOnly'
    BY <1>1, <1>2, <1>3 DEF Rest, RegisteredOrSettled, MineOnly, Settled, Registering
  <1>6. TrackedIsHooked'
    BY <1>1, <1>2 DEF Rest, TrackedIsHooked, UnderWay
  <1>7. ASSUME ~Crowded', NEW u \in Thread PROVE OnItsWay(u)'
    BY <1>1, <1>2, <1>7 DEF Rest, Crowded, OnItsWay, Settled, Registering
  <1> QED
    BY <1>4, <1>5, <1>6, <1>7 DEF Rest

LEMMA RestRegister ==
  ASSUME Types, Rest, NEW t \in Thread, Register(t)
  PROVE  Rest'
  <1>1. UNCHANGED <<loaded, patched, tracked, unloaded, spoilt>>
    BY DEF Register
  <1>2. PICK l \in calls[t].left :
          /\ registered' = registered \cup {l}
          /\ calls'[t].pc = "track" /\ calls'[t].found = calls[t].found
          /\ calls'[t].brings = calls[t].brings
          /\ calls'[t].left = calls[t].left \ {l}
          /\ calls'[t].mine = calls[t].mine \cup {l}
    BY StepFacts DEF Install
  <1>3. calls[t].pc = "register" /\ \A u \in Thread \ {t} : calls'[u] = calls[u]
    BY StepFacts DEF Install, Register
  <1>4. OnlyKnown'
    BY <1>1, <1>2, <1>3 DEF Rest, OnlyKnown, Known
  <1>5. RegisteredOrSettled' /\ MineOnly'
    BY <1>1, <1>2, <1>3 DEF Rest, RegisteredOrSettled, MineOnly, Settled, Registering
  <1>6. TrackedIsHooked'
    <2>1. \A u \in Thread, k \in Library : UnderWay(u, k) => UnderWay(u, k)'
      BY <1>2, <1>3 DEF UnderWay
    <2> QED
      BY <1>1, <2>1 DEF Rest, TrackedIsHooked, Types
  <1>7. ASSUME ~Crowded', NEW u \in Thread PROVE OnItsWay(u)'
    BY <1>1, <1>2, <1>3, <1>7 DEF Rest, Crowded, OnItsWay, Settled, Registering
  <1> QED
    BY <1>4, <1>5, <1>6, <1>7 DEF Rest

LEMMA RestTrack ==
  ASSUME Types, Rest, NEW t \in Thread, Track(t)
  PROVE  Rest'
  <1>1. UNCHANGED <<loaded, patched, registered, unloaded, spoilt>>
    BY DEF Track
  <1>2. /\ calls'[t].pc = IF calls[t].left = {} THEN "commit" ELSE "register"
        /\ calls'[t].brings = calls[t].brings /\ calls'[t].found = calls[t].found
        /\ calls'[t].left = calls[t].left /\ calls'[t].mine = calls[t].mine
        /\ calls[t].pc = "track" /\ \A u \in Thread \ {t} : calls'[u] = calls[u]
    BY StepFacts DEF Install, Track
  <1>3. calls[t].mine \in SUBSET Library
    BY DEF Types, CallRecord
  <1>4. tracked \subseteq tracked' /\ tracked' \subseteq tracked \cup calls[t].mine
    BY <1>3, TrackedFacts DEF Track
  <1>5. OnlyKnown'
    BY <1>1, <1>2, <1>4 DEF Rest, OnlyKnown, Known
  <1>6. RegisteredOrSettled' /\ MineOnly'
    BY <1>1, <1>2 DEF Rest, RegisteredOrSettled, MineOnly, Settled, Registering
  <1>7. TrackedIsHooked'
    <2>1. \A u \in Thread, k \in Library : UnderWay(u, k) => UnderWay(u, k)'
      BY <1>2 DEF UnderWay
    <2>2. \A k \in calls[t].mine : UnderWay(t, k)'
      BY <1>2 DEF UnderWay
    <2> QED
      BY <1>1, <1>4, <2>1, <2>2 DEF Rest, TrackedIsHooked, Types
  <1>8. ASSUME ~Crowded', NEW u \in Thread PROVE OnItsWay(u)'
    BY <1>1, <1>2, <1>4, <1>8 DEF Rest, Crowded, OnItsWay, Settled, Registering
  <1> QED
    BY <1>5, <1>6, <1>7, <1>8 DEF Rest

LEMMA RestCommit ==
  ASSUME Types, Rest, NEW t \in Thread, CommitNew(t)
  PROVE  Rest'
  <1>1. UNCHANGED <<loaded, unloaded>>
    BY DEF CommitNew
  <1>2. /\ calls'[t].pc = "done" /\ calls'[t].mine = {}
        /\ calls'[t].brings = calls[t].brings /\ calls'[t].found = calls[t].found
        /\ calls'[t].left = calls[t].left
        /\ calls[t].pc = "commit" /\ \A u \in Thread \ {t} : calls'[u] = calls[u]
    BY StepFacts DEF Install, CommitNew
  <1>3. calls[t].mine \in SUBSET Library /\ registered \in SUBSET Library
    BY DEF Types, CallRecord
  <1>4. PICK committed \in BOOLEAN :
          /\ Commit(registered, committed)
          /\ tracked' \in IF committed THEN Tracked(calls[t].mine) ELSE {tracked}
    BY DEF CommitNew
  <1>5. tracked \subseteq tracked' /\ tracked' \subseteq tracked \cup calls[t].mine
    BY <1>3, <1>4, TrackedFacts
  <1>6. /\ patched \subseteq patched' /\ patched' \subseteq loaded /\ spoilt \subseteq spoilt'
        /\ registered \cap loaded \subseteq patched' \cup spoilt'
    BY <1>3, <1>4, CommitFacts
  <1>7. \A u \in Thread : calls[u].mine \subseteq Settled'
    BY <1>1, <1>6 DEF Rest, OnlyKnown, Known, RegisteredOrSettled, Settled
  <1>8. OnlyKnown'
    BY <1>1, <1>2, <1>5 DEF Rest, OnlyKnown, Known
  <1>9. RegisteredOrSettled' /\ MineOnly'
    BY <1>2, <1>7 DEF Rest, RegisteredOrSettled, MineOnly, Registering
  <1>10. TrackedIsHooked'
    <2>1. \A u \in Thread, k \in Library : UnderWay(u, k) => UnderWay(u, k)' \/ k \in Settled'
      BY <1>2, <1>7 DEF UnderWay
    <2> QED
      BY <1>1, <1>5, <1>6, <1>7, <2>1 DEF Rest, TrackedIsHooked, Types, Settled
  <1>11. ASSUME ~Crowded', NEW u \in Thread PROVE OnItsWay(u)'
    BY <1>1, <1>2, <1>5, <1>6, <1>7, <1>11
    DEF Rest, Crowded, OnItsWay, Settled, Registering
  <1> QED
    BY <1>8, <1>9, <1>10, <1>11 DEF Rest

LEMMA RestReturn ==
  ASSUME Types, Rest, NEW t \in Thread, Return(t)
  PROVE  Rest'
  <1>1. UNCHANGED <<loaded, patched, registered, tracked, unloaded, spoilt>>
    BY DEF Return
  <1>2. /\ calls'[t] = NoCall /\ calls[t].pc = "done"
        /\ \A u \in Thread \ {t} : calls'[u] = calls[u]
    BY StepFacts DEF Install, Return
  <1>3. OnlyKnown'
    BY <1>1, <1>2 DEF Rest, OnlyKnown, Known, NoCall
  <1>4. RegisteredOrSettled' /\ MineOnly'
    BY <1>1, <1>2 DEF Rest, RegisteredOrSettled, MineOnly, Settled, Registering, NoCall
  <1>5. TrackedIsHooked'
    BY <1>1, <1>2 DEF Rest, TrackedIsHooked, UnderWay
  <1>6. ASSUME ~Crowded', NEW u \in Thread PROVE OnItsWay(u)'
    BY <1>1, <1>2, <1>6 DEF Rest, Crowded, OnItsWay, Settled, Registering, NoCall
  <1> QED
    BY <1>3, <1>4, <1>5, <1>6 DEF Rest

LEMMA RestUnload ==
  ASSUME Types, Rest, NEW l \in Library, Unload(l)
  PROVE  Rest'
  <1>1. /\ loaded' = loaded \ {l} /\ patched' = patched \ {l} /\ unloaded' = unloaded \cup {l}
        /\ UNCHANGED <<registered, tracked, calls, spoilt>>
        /\ \A t \in Thread : l \notin calls[t].brings
    BY DEF Unload
  <1>2. OnlyKnown'
    BY <1>1 DEF Rest, OnlyKnown, Known
  <1>3. RegisteredOrSettled' /\ MineOnly'
    BY <1>1 DEF Rest, RegisteredOrSettled, MineOnly, Settled
  <1>4. TrackedIsHooked'
    BY <1>1 DEF Rest, TrackedIsHooked, UnderWay
  <1>5. loaded \cup unloaded \subseteq loaded' \cup unloaded' /\ loaded' \cup unloaded' \in SUBSET Library
    BY <1>1 DEF Types
  <1>6. Crowded => Crowded'
    BY <1>5, CrowdedStays
  <1>7. ASSUME ~Crowded', NEW u \in Thread PROVE OnItsWay(u)'
    BY <1>1, <1>6, <1>7 DEF Rest, OnItsWay, Settled
  <1> QED
    BY <1>2, <1>3, <1>4, <1>7 DEF Rest

LEMMA RestStart ==
  ASSUME Types, Rest, Start
  PROVE  Rest'
  <1>1. UNCHANGED <<loaded, calls, unloaded>>
    BY DEF Start
  <1>2. PICK found \in Collected :
          /\ tracked' \in Tracked(found)
          /\ \E committed \in BOOLEAN : Commit(registered \cup found, committed)
    BY DEF Start
  <1>3. /\ found \subseteq loaded /\ found \in SUBSET Library
        /\ registered \cup found \in SUBSET Library
    BY <1>2, CollectedFacts DEF Types
  <1>4. tracked \subseteq tracked' /\ tracked' \subseteq tracked \cup found
    BY <1>2, <1>3, TrackedFacts
  <1>5. /\ patched \subseteq patched' /\ patched' \subseteq loaded /\ spoilt \subseteq spoilt'
        /\ (registered \cup found) \cap loaded \subseteq patched' \cup spoilt'
    BY <1>2, <1>3, CommitFacts
  <1>6. \A u \in Thread : calls[u].mine \subseteq Settled'
    BY <1>1, <1>5 DEF Rest, OnlyKnown, Known, RegisteredOrSettled, Settled
  <1>7. OnlyKnown'
    BY <1>1, <1>3, <1>4 DEF Rest, OnlyKnown, Known
  <1>8. RegisteredOrSettled' /\ MineOnly'
    BY <1>1, <1>6 DEF Rest, RegisteredOrSettled, MineOnly
  <1>9. TrackedIsHooked'
    BY <1>1, <1>3, <1>4, <1>5 DEF Rest, TrackedIsHooked, UnderWay
  <1>10. ASSUME ~Crowded', NEW u \in Thread PROVE OnItsWay(u)'
    BY <1>1, <1>4, <1>5, <1>10 DEF Rest, Crowded, OnItsWay, Settled
  <1> QED
    BY <1>7, <1>8, <1>9, <1>10 DEF Rest
-----------------------------------------------------------------------------
LEMMA InvInit == Init => Inv
  <1> SUFFICES ASSUME Init PROVE Inv
    OBVIOUS
  <1> USE DEF Init
  <1>1. NoCall \in CallRecord
    BY DEF NoCall, CallRecord
  <1>2. Types
    <2>1. calls \in [Thread -> CallRecord]
      BY <1>1
    <2>2. loaded \in SUBSET Library /\ loads \in 0 .. MaxLoads
      OBVIOUS
    <2> QED
      BY <2>1, <2>2 DEF Types
  <1>3. Room
    BY FS_EmptySet DEF Room
  <1>4. Rest
    BY DEF Rest, OnlyKnown, RegisteredOrSettled, MineOnly, TrackedIsHooked, OnItsWay,
           Registering, NoCall
  <1> QED
    BY <1>2, <1>3, <1>4 DEF Inv

LEMMA InvNext == Inv /\ [Next]_vars => Inv'
  <1> SUFFICES ASSUME Inv, [Next]_vars PROVE Inv'
    OBVIOUS
  <1>1. Types' /\ Room'
    BY TypesNext, RoomNext DEF Inv
  <1>2. CASE UNCHANGED vars
    BY <1>1, <1>2
    DEF vars, Inv, Rest, OnlyKnown, Known, RegisteredOrSettled, Settled, MineOnly,
        TrackedIsHooked, UnderWay, Crowded, OnItsWay
  <1>3. CASE Next
    BY <1>1, <1>3, RestStart, RestLoad, RestCollect, RestSelect, RestRegister, RestTrack,
       RestCommit, RestReturn, RestUnload
    DEF Next, Install, Inv
  <1> QED
    BY <1>2, <1>3

(* The table of what is hooked, and the calls of dlopen, stay what they    *)
(* are declared to be.                                                     *)
THEOREM TypeCorrect == Spec => []TypeOK
  <1>1. Inv => TypeOK
    BY DEF Inv, Types, Room, TypeOK
  <1> QED
    BY <1>1, InvInit, InvNext, PTL DEF Spec

(* A library in the table is hooked, or about to be, or a commit of it     *)
(* failed, or it has been unmapped.                                        *)
THEOREM TrackedHooked == Spec => []TrackedIsHooked
  <1>1. Inv => TrackedIsHooked
    BY DEF Inv, Rest
  <1> QED
    BY <1>1, InvInit, InvNext, PTL DEF Spec

(* When dlopen returns what it has loaded is hooked or about to be, with   *)
(* the same exceptions, while there is room for all libraries.             *)
THEOREM ReturnsSafely == Spec => []ReturnsHooked
  <1>1. Inv => ReturnsHooked
    <2> SUFFICES ASSUME Inv, NEW t \in Thread, calls[t].pc = "done", ~Crowded,
                        NEW l \in calls[t].brings \ (spoilt \cup unloaded)
                 PROVE  l \in patched \/ \E u \in Thread \ {t} : UnderWay(u, l)
      BY DEF ReturnsHooked
    <2>1. l \in tracked \cup Settled /\ l \in loaded
      BY DEF Inv, Rest, OnItsWay, OnlyKnown
    <2>2. l \in patched \/ \E u \in Thread : UnderWay(u, l)
      BY <2>1 DEF Inv, Rest, TrackedIsHooked, Settled
    <2> QED
      BY <2>2 DEF UnderWay
  <1> QED
    BY <1>1, InvInit, InvNext, PTL DEF Spec
=============================================================================
