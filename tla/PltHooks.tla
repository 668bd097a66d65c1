------------------------------ MODULE PltHooks ------------------------------
(***************************************************************************)
(* Which libraries of an application call the wrappers.  Zygisk takes      *)
(* registrations of libraries, by device and inode, and a commit patches   *)
(* what is mapped of those that are registered.  When the application      *)
(* starts all that are mapped are registered; when a patched library calls *)
(* dlopen, those that are not tracked yet.                                 *)
(*                                                                         *)
(* Only files that are to be hooked count as libraries here.               *)
(***************************************************************************)
EXTENDS Integers, FiniteSets

CONSTANTS Thread, Library,
          Mapped,       \* the libraries that are mapped when the application starts
          MaxTargets,   \* FM_MAX_HOOK_TARGETS
          MaxLoads      \* bounds the calls of dlopen

ASSUME LibrariesAssumption ==
  IsFiniteSet(Library) /\ Mapped \subseteq Library /\ MaxTargets \in Nat /\ MaxLoads \in Nat

VARIABLES started,      \* postAppSpecialize is over
          loaded,       \* the libraries that are mapped
          patched,      \* those that call the wrappers
          registered,   \* what a commit is to patch
          tracked,      \* g_hooked_identities
          calls,        \* the call of dlopen each thread is in
          loads,        \* how many there have been
          unloaded,     \* libraries that have been unmapped (history)
          spoilt        \* those that a failed commit left out (history)

vars == <<started, loaded, patched, registered, tracked, calls, loads, unloaded, spoilt>>

(* brings are the libraries dlopen returns with, found those whose device  *)
(* and inode were read, left those still to register, mine those that were. *)
NoCall == [pc |-> "idle", brings |-> {}, found |-> {}, left |-> {}, mine |-> {}]

Now(t, call) == calls' = [calls EXCEPT ![t] = call]

AtMost(n, libraries) ==
  {c \in SUBSET libraries :
     IF Cardinality(libraries) <= n THEN c = libraries ELSE Cardinality(c) = n}

(* fm_collect_hook_targets: the first of the libraries, in whichever order *)
(* they are mapped.  Mutant: one less than there is room for.              *)
CollectedShort == AtMost(MaxTargets - 1, loaded)

Collected == AtMost(MaxTargets, loaded)

(* fm_track_hook_identity of each.  Mutants: without a limit; of all that  *)
(* is mapped.                                                              *)
TrackedBeyond(libraries) == {tracked \cup libraries}

TrackedUnseen(libraries) ==
  {tracked \cup new : new \in AtMost(MaxTargets - Cardinality(tracked), loaded \ tracked)}

Tracked(libraries) ==
  {tracked \cup new :
     new \in AtMost(MaxTargets - Cardinality(tracked), libraries \ tracked)}

(* pltHookCommit: what fails, and whether it is tried again by the next     *)
(* commit, is not known.                                                   *)
Commit(requested, committed) ==
  /\ \E p \in IF committed THEN {requested \cap loaded} ELSE SUBSET (requested \cap loaded) :
       /\ patched' = patched \cup p
       /\ spoilt' = spoilt \cup ((requested \cap loaded) \ p)
       /\ registered' \in {{}, requested \ p}
-----------------------------------------------------------------------------
(* fm_install_plt_hooks, before the application has another thread. *)
Start ==
  /\ ~started /\ started' = TRUE
  /\ \E found \in Collected :
       /\ tracked' \in Tracked(found)
       /\ \E committed \in BOOLEAN : Commit(registered \cup found, committed)
  /\ UNCHANGED <<loaded, calls, loads, unloaded>>

(* A library calls dlopen, which maps what it names and what that needs;   *)
(* it is the wrapper that is called if the library is patched.             *)
Load(t) ==
  /\ started /\ calls[t].pc = "idle" /\ loads < MaxLoads
  /\ loads' = loads + 1
  /\ \E caller \in loaded, brings \in (SUBSET Library) \ {{}} :
       /\ loaded' = loaded \cup brings
       /\ Now(t, IF caller \in patched
                 THEN [calls[t] EXCEPT !.pc = "collect", !.brings = brings] ELSE calls[t])
  /\ UNCHANGED <<started, patched, registered, tracked, unloaded, spoilt>>

Collect(t) ==
  /\ calls[t].pc = "collect"
  /\ \E found \in Collected : Now(t, [calls[t] EXCEPT !.pc = "select", !.found = found])
  /\ UNCHANGED <<started, loaded, patched, registered, tracked, loads, unloaded, spoilt>>

(* fm_collect_new_hook_targets *)
Select(t) ==
  LET new == calls[t].found \ tracked IN
  /\ calls[t].pc = "select"
  /\ Now(t, [calls[t] EXCEPT !.found = {}, !.left = new,
                              !.pc = IF new = {} THEN "done" ELSE "register"])
  /\ UNCHANGED <<started, loaded, patched, registered, tracked, loads, unloaded, spoilt>>

(* fm_register_hooks_for_identity tracks what it has registered. *)
Register(t) ==
  /\ calls[t].pc = "register"
  /\ \E l \in calls[t].left :
       /\ registered' = registered \cup {l}
       /\ Now(t, [calls[t] EXCEPT !.left = @ \ {l}, !.mine = @ \cup {l}, !.pc = "track"])
  /\ UNCHANGED <<started, loaded, patched, tracked, loads, unloaded, spoilt>>

Track(t) ==
  /\ calls[t].pc = "track"
  /\ tracked' \in Tracked(calls[t].mine)
  /\ Now(t, [calls[t] EXCEPT !.pc = IF calls[t].left = {} THEN "commit" ELSE "register"])
  /\ UNCHANGED <<started, loaded, patched, registered, loads, unloaded, spoilt>>

(* What was committed is tracked, as it is already if there was room. *)
CommitNew(t) ==
  /\ calls[t].pc = "commit"
  /\ \E committed \in BOOLEAN :
       /\ Commit(registered, committed)
       /\ tracked' \in IF committed THEN Tracked(calls[t].mine) ELSE {tracked}
  /\ Now(t, [calls[t] EXCEPT !.mine = {}, !.pc = "done"])
  /\ UNCHANGED <<started, loaded, loads, unloaded>>

Return(t) ==
  /\ calls[t].pc = "done"
  /\ Now(t, NoCall)
  /\ UNCHANGED <<started, loaded, patched, registered, tracked, loads, unloaded, spoilt>>

(* dlclose, which is not wrapped, unmaps what no call of dlopen holds. *)
Unload(l) ==
  /\ started /\ l \in loaded
  /\ \A t \in Thread : l \notin calls[t].brings
  /\ loaded' = loaded \ {l} /\ patched' = patched \ {l}
  /\ unloaded' = unloaded \cup {l}
  /\ UNCHANGED <<started, registered, tracked, calls, loads, spoilt>>

Init ==
  /\ started = FALSE /\ loaded = Mapped
  /\ patched = {} /\ registered = {} /\ tracked = {}
  /\ calls = [t \in Thread |-> NoCall]
  /\ loads = 0 /\ unloaded = {} /\ spoilt = {}

Install(t) == Collect(t) \/ Select(t) \/ Register(t) \/ Track(t) \/ CommitNew(t) \/ Return(t)

Next ==
  \/ Start
  \/ \E t \in Thread : Load(t) \/ Install(t)
  \/ \E l \in Library : Unload(l)

Spec == Init /\ [][Next]_vars

(* Whoever calls dlopen goes on, for it never waits for long. *)
LiveSpec == Spec /\ \A t \in Thread : WF_vars(Install(t))
-----------------------------------------------------------------------------
CallRecord ==
  [pc : {"idle", "collect", "select", "register", "track", "commit", "done"},
   brings : SUBSET Library, found : SUBSET Library, left : SUBSET Library,
   mine : SUBSET Library]

TypeOK ==
  /\ started \in BOOLEAN /\ loads \in 0 .. MaxLoads
  /\ patched \subseteq loaded
  /\ {loaded, registered, tracked, unloaded, spoilt} \subseteq SUBSET Library
  /\ Cardinality(tracked) <= MaxTargets
  /\ calls \in [Thread -> CallRecord]

(* The call has registered the library, or is about to, and has not        *)
(* committed it.                                                           *)
UnderWay(t, l) ==
  calls[t].pc \in {"register", "track", "commit"} /\ l \in calls[t].mine

(* A library that is tracked, and so never registered again, is hooked or  *)
(* a commit of it is to come, unless a commit of it has failed or it has   *)
(* been unmapped since.                                                    *)
TrackedIsHooked ==
  \A l \in (tracked \cap loaded) \ (spoilt \cup unloaded) :
    l \in patched \/ \E t \in Thread : UnderWay(t, l)

(* More libraries have been mapped than are looked at. *)
Crowded == Cardinality(loaded \cup unloaded) > MaxTargets

(* When dlopen returns what it has loaded is hooked, or another thread is  *)
(* about to do it; with the same exceptions, and as long as all libraries  *)
(* have been looked at.                                                    *)
ReturnsHooked ==
  \A t \in Thread :
    calls[t].pc = "done" /\ ~Crowded =>
      \A l \in calls[t].brings \ (spoilt \cup unloaded) :
        l \in patched \/ \E u \in Thread \ {t} : UnderWay(u, l)

(* What dlopen loads for a library that is hooked is hooked in the end,    *)
(* with the same exceptions.                                               *)
LoadedGetsHooked ==
  \A l \in Library :
    (\E t \in Thread : calls[t].pc = "collect" /\ l \in calls[t].brings)
      ~> (l \in patched \cup spoilt \cup unloaded \/ Crowded)
=============================================================================
