----------------------------- MODULE PathMapper -----------------------------
(***************************************************************************)
(* How a path is read as it is written.  A spelling is a record of whether *)
(* it begins with a slash and of the names between its slashes: NoName is   *)
(* what is between two slashes in a row and after one at the end.          *)
(* What may fail returns a set of at most one result.                      *)
(***************************************************************************)
EXTENDS Paths

CONSTANTS ExternalPrimary,  \* the names of /storage/emulated/0
          Aliases,          \* the other paths of the same directory
          MaxNames,         \* how many names fit into a buffer for a path
          AtCwd             \* AT_FDCWD

NoName == ""
NotDirectories == {NoName, "."}
Path == Seq(STRING)
ProperName == STRING \ {NoName, ".", ".."}

(* The provers have STRING without its literals. *)
ASSUME NamesFact == {NoName, ".", ".."} \subseteq STRING

(* The paths of the storage are written plainly, and none is below another. *)
PathsAssumption ==
  /\ Aliases \cup {ExternalPrimary} \subseteq Seq(ProperName) \ {<<>>}
  /\ ExternalPrimary \notin Aliases /\ MaxNames \in Nat
  /\ \A a, b \in Aliases \cup {ExternalPrimary} : IsPrefix(a, b) => a = b

ASSUME PathsFact == PathsAssumption

Spelling(absolute, names) == [absolute |-> absolute, names |-> names]
Absolute(names) == Spelling(TRUE, names)

(* A path without the slashes at its end. *)
Trimmed(names) ==
  SubSeq(names, 1, CHOOSE n \in 0 .. Len(names) :
                     /\ n # 0 => names[n] # NoName
                     /\ \A i \in n + 1 .. Len(names) : names[i] = NoName)

(* One name further down, or up. *)
Walk(path, name) ==
  IF name \in NotDirectories THEN path
  ELSE IF name = ".." THEN Parent(path) ELSE Append(path, name)

(* The same on the text: the slash before a name that is left stays, unless *)
(* another name comes after it.                                            *)
Further(path, name) ==
  IF name \in NotDirectories THEN path
  ELSE IF name # ".." THEN Append(Trimmed(path), name)
  ELSE LET up == Parent(Trimmed(path)) IN IF up = <<>> THEN up ELSE Append(up, NoName)

(* What fm_collapse_absolute_path has written after each name; it gives up *)
(* where its buffer is full.                                               *)
Collapsed(names) ==
  LET after[i \in 0 .. Len(names)] ==
        IF i = 0 THEN {<<>>}
        ELSE {p \in {Further(q, names[i]) : q \in after[i - 1]} : Len(p) <= MaxNames}
  IN  after

Collapse(names) == Collapsed(names)[Len(names)]

(* The first alias that the path begins with is replaced, as it is written. *)
Unaliased(names) ==
  IF \E a \in Aliases : IsPrefix(a, names)
  THEN ExternalPrimary \o Suffix(CHOOSE a \in Aliases : IsPrefix(a, names), names)
  ELSE names

(* The path is of the storage: it is copied to a buffer of its own.        *)
IsMapped(names) == \E a \in Aliases \cup {ExternalPrimary} : IsPrefix(a, names)

Fits(names) == Len(names) <= MaxNames

fm_normalize_path(s) ==
  IF s.absolute
  THEN {Absolute(p) : p \in IF IsMapped(s.names) /\ ~Fits(Unaliased(s.names)) THEN {}
                            ELSE Collapse(Unaliased(s.names))}
  ELSE {Spelling(FALSE, Trimmed(n)) : n \in {m \in {s.names} : m # <<>> /\ Fits(m)}}

(* fm_normalize_path into the buffer that holds the path: a path that is   *)
(* not of the storage is cut off behind its first slash before it is read. *)
NormalizedInPlace(s) ==
  IF s.absolute /\ ~IsMapped(s.names) THEN {Absolute(<<>>)} ELSE fm_normalize_path(s)

fm_join_path(base, entry) ==
  IF entry.absolute THEN fm_normalize_path(entry)
  ELSE UNION {NormalizedInPlace(Absolute(b.names \o entry.names)) :
                b \in {d \in fm_normalize_path(base) :
                         entry.names # <<>> /\ Fits(d.names \o entry.names)}}

(* What MatchPath searches for.  What is written below /storage/emulated/0 *)
(* is taken as it stands, but for slashes at the end.                      *)
NormalizeRulePath(s) ==
  IF s = Spelling(FALSE, <<>>) THEN {}
  ELSE IF s.absolute /\ IsPrefix(ExternalPrimary, s.names) THEN {Trimmed(s.names)}
  ELSE {n.names : n \in fm_normalize_path(
          IF s.absolute THEN s ELSE Absolute(ExternalPrimary \o s.names))}

(* What the cache of kinds forgets. *)
fm_normalize_rule_path(s) ==
  {n.names : n \in fm_normalize_path(
     IF s.absolute THEN s ELSE Absolute(ExternalPrimary \o s.names))}

(* The directory of a descriptor: dir is what /proc/self/fd says of it.     *)
fm_resolve_fd_path(dir) == NormalizedInPlace(Absolute(dir))

(* What a wrapper asks about that takes a descriptor with the path. *)
fm_try_resolve_at_path(dir, s) ==
  IF s.absolute \/ dir = AtCwd THEN fm_normalize_path(s)
  ELSE UNION {fm_join_path(base, s) : base \in fm_resolve_fd_path(dir)}
-----------------------------------------------------------------------------
(* Where the kernel gets to: it walks from name to name, and the aliases   *)
(* are links.                                                              *)
Followed(path) == IF path \in Aliases THEN ExternalPrimary ELSE path

Reaches(from, names) ==
  LET after[i \in 0 .. Len(names)] ==
        IF i = 0 THEN from ELSE Followed(Walk(after[i - 1], names[i]))
  IN  after

Reached(from, names) == Reaches(from, names)[Len(names)]

(* The names are written without dots and double slashes. *)
IsPlainly(names) == \A i \in DOMAIN names : names[i] \in ProperName

(* Once the alias at its front is replaced the path comes by no other. *)
NoAliasLater(names) ==
  \A i \in 1 .. Len(Unaliased(names)) :
    \A p \in Collapsed(Unaliased(names))[i] : Trimmed(p) \notin Aliases
=============================================================================
