------------------------------ MODULE RulesIni ------------------------------
(***************************************************************************)
(* ParseRulesIni: rules.ini read line by line into sections, and what      *)
(* makes the whole file invalid.                                           *)
(*                                                                         *)
(* A line is one of                                                        *)
(*   [is |-> "blank"]                an empty line or a comment            *)
(*   [is |-> "header", name]         [name], <<>> if the brackets are empty*)
(*   [is |-> "assign", key, value]   key = value                           *)
(*   [is |-> "rule", rule, wrong]    a path behind +, - or !               *)
(*   [is |-> "redirect", rule, wrong, word, key, value]                    *)
(*                                   path -> target, path => target        *)
(*   [is |-> "text"]                 anything else                         *)
(* The name of a package's section is <<package>>; <<package, kind, id>>   *)
(* is [package.kind.id], of kind "accessible" or "export".  A rule is what *)
(* its line compiles to; wrong says that a path is missing or @types is    *)
(* where it may not be.  A redirect has the word of an option that it      *)
(* begins with, "" if there is none, and what stands before and behind the *)
(* first = of the line, "" if there is none: the parser may take it for a  *)
(* setting.  A key that begins with "mode" counts as mode.                 *)
(***************************************************************************)
EXTENDS Integers, Sequences

CONSTANTS Line,       \* the lines a file may hold
          Number,     \* the values that are numbers of at least 0
          MaxLines,   \* bound: lines of a file
          MaxErrors   \* bound: lines are read until there are as many errors

VARIABLES text,        \* the lines read so far
          active,      \* the kind of the section the next line belongs to
          names,       \* section_names
          sections, accessible, exports,
          errors,      \* the lines in error, 0 for what the whole file lacks
          done

vars == <<text, active, names, sections, accessible, exports, errors, done>>

ThisLine == Len(text) + 1
-----------------------------------------------------------------------------
(* What the options of a package's section may be set to. *)

Boolean == {"true", "false"}
Mode == {"whitelist", "blacklist"}
DeleteDirMode == {"none", "empty", "recursive"}

ParseMode(value) == value \in Mode
ParseBooleanValue(value) == value \in Boolean
ParseDeleteDirMode(value) == value \in Boolean \cup DeleteDirMode
ParseMediaQueryMode(value) == value \in Boolean \cup {"auto"}
ParseIntegerValue(value) == value \in Number

IsOption(key, value) ==
  \/ key = "mode" /\ ParseMode(value)
  \/ key \in {"enabled", "disabled", "delete_existing", "trash", "trash_redirect"}
     /\ ParseBooleanValue(value)
  \/ key = "delete_dirs" /\ ParseDeleteDirMode(value)
  \/ key = "media_query" /\ ParseMediaQueryMode(value)
  \/ key = "trash_dir" /\ value # ""
  \/ key \in {"min_age_days", "min_size_mb"} /\ ParseIntegerValue(value)

(* Mutant: true and false are taken for modes. *)
DirModeAsWritten(value) == value

DirMode(value) ==
  IF value = "true" THEN "recursive" ELSE IF value = "false" THEN "none" ELSE value

(* Mutant: a section's first mode stays. *)
SetModeOnce(section, value) ==
  IF section.mode = "" THEN [section EXCEPT !.mode = value] ELSE section

SetMode(section, value) == [section EXCEPT !.mode = value]

(* Only these options have an effect. *)
SetOption(section, key, value) ==
  CASE key = "mode" -> SetMode(section, value)
    [] key = "enabled" -> [section EXCEPT !.enabled = (value = "true")]
    [] key = "disabled" -> [section EXCEPT !.enabled = (value = "false")]
    [] key = "delete_existing" -> [section EXCEPT !.existing = (value = "true")]
    [] key = "delete_dirs" -> [section EXCEPT !.dirs = DirMode(value)]
    [] key = "media_query" -> [section EXCEPT !.media = value]
    [] OTHER -> section

(* ParseAccessibleField and ParseExportField. *)
IsAccessibleField(key) == key \in {"from", "to", "path", "description"}

IsExportField(key, value) ==
  \/ key \in {"source", "target", "title", "description"}
  \/ key \in {"media_scan", "add_to_downloads", "allow_child"} /\ ParseBooleanValue(value)

SetField(record, key, value) ==
  IF key \in DOMAIN record THEN [record EXCEPT ![key] = value] ELSE record

(* Defaults; an empty mode or field is one that has not been set. *)
NewSection(name) ==
  [name |-> name, mode |-> "", enabled |-> TRUE, existing |-> FALSE, dirs |-> "none",
   media |-> "auto", rules |-> <<>>]

NewAccessible(name) ==
  [name |-> name, from |-> "", to |-> "", path |-> "", line |-> ThisLine]

NewExport(name) ==
  [name |-> name, source |-> "", target |-> "", allow_child |-> "false", line |-> ThisLine]
-----------------------------------------------------------------------------
KindOf(name) == IF Len(name) = 1 THEN "policy" ELSE name[2]

ASSUME LineAssumption ==
  \A l \in Line : l.is = "header" /\ l.name # <<>> =>
    /\ l.name \in Seq(STRING)
    /\ \/ Len(l.name) = 1
       \/ Len(l.name) = 3 /\ KindOf(l.name) \in {"accessible", "export"}

(* Mutant: the lines behind a refused header still go to the section above. *)
RefuseHeaderOnly(l) ==
  /\ l.is = "header"
  /\ l.name = <<>> \/ l.name \in names
  /\ errors' = Append(errors, ThisLine)
  /\ UNCHANGED <<active, names, sections, accessible, exports>>

RefuseSection(l) ==
  /\ l.is = "header"
  /\ l.name = <<>> \/ l.name \in names
  /\ active' = "none"
  /\ errors' = Append(errors, ThisLine)
  /\ UNCHANGED <<names, sections, accessible, exports>>

OpenSection(l) ==
  /\ l.is = "header"
  /\ l.name # <<>> /\ l.name \notin names
  /\ active' = KindOf(l.name)
  /\ names' = names \cup {l.name}
  /\ sections' = IF KindOf(l.name) = "policy"
                 THEN Append(sections, NewSection(l.name)) ELSE sections
  /\ accessible' = IF KindOf(l.name) = "accessible"
                   THEN Append(accessible, NewAccessible(l.name)) ELSE accessible
  /\ exports' = IF KindOf(l.name) = "export"
                THEN Append(exports, NewExport(l.name)) ELSE exports
  /\ UNCHANGED errors

(* Of a line that begins with "mode" only what is behind = is looked at. *)
OptionKey(l) == IF l.is = "redirect" /\ l.word = "mode" THEN "mode" ELSE l.key

TakesOption(l) ==
  /\ active = "policy"
  /\ l.is = "assign" \/ (l.is = "redirect" /\ l.word # "")
  /\ IsOption(OptionKey(l), l.value)

(* Its paths are there, and so is a filter only where it may be. *)
WellFormed(l) == ~l.wrong

TakesRule(l) ==
  /\ active = "policy"
  /\ l.is \in {"rule", "redirect"} /\ WellFormed(l)
  /\ l.is = "redirect" => l.word = ""

TakesAccessible(l) ==
  active = "accessible" /\ l.is \in {"assign", "redirect"} /\ IsAccessibleField(l.key)

TakesExport(l) ==
  active = "export" /\ l.is \in {"assign", "redirect"} /\ IsExportField(l.key, l.value)

ReadOption(l) ==
  /\ TakesOption(l)
  /\ sections' = [sections EXCEPT ![Len(sections)] = SetOption(@, OptionKey(l), l.value)]
  /\ UNCHANGED <<active, names, accessible, exports, errors>>

ReadRule(l) ==
  /\ TakesRule(l)
  /\ sections' = [sections EXCEPT ![Len(sections)].rules =
                    Append(@, [rule |-> l.rule, line |-> ThisLine])]
  /\ UNCHANGED <<active, names, accessible, exports, errors>>

ReadAccessible(l) ==
  /\ TakesAccessible(l)
  /\ accessible' = [accessible EXCEPT ![Len(accessible)] = SetField(@, l.key, l.value)]
  /\ UNCHANGED <<active, names, sections, exports, errors>>

ReadExport(l) ==
  /\ TakesExport(l)
  /\ exports' = [exports EXCEPT ![Len(exports)] = SetField(@, l.key, l.value)]
  /\ UNCHANGED <<active, names, sections, accessible, errors>>

SkipLine(l) ==
  /\ l.is = "blank"
  /\ UNCHANGED <<active, names, sections, accessible, exports, errors>>

RefuseLine(l) ==
  /\ l.is \notin {"blank", "header"}
  /\ ~(TakesOption(l) \/ TakesRule(l) \/ TakesAccessible(l) \/ TakesExport(l))
  /\ errors' = Append(errors, ThisLine)
  /\ UNCHANGED <<active, names, sections, accessible, exports>>

ReadLine ==
  /\ ~done
  /\ Len(text) < MaxLines /\ Len(errors) < MaxErrors
  /\ UNCHANGED done
  /\ \E l \in Line :
       /\ text' = Append(text, l)
       /\ \/ RefuseSection(l) \/ OpenSection(l)
          \/ ReadOption(l) \/ ReadRule(l) \/ ReadAccessible(l) \/ ReadExport(l)
          \/ SkipLine(l) \/ RefuseLine(l)
-----------------------------------------------------------------------------
(* ValidateParsedRules. *)
LacksMode(s) == s.enabled /\ s.mode = ""
Incomplete(a) == a.path = "" \/ (a.from = "" /\ a.to = "")
Aimless(e) == e.source = "" \/ e.target = ""

Lacking ==
  \/ \E k \in DOMAIN sections : LacksMode(sections[k])
  \/ \E k \in DOMAIN accessible : Incomplete(accessible[k])
  \/ \E k \in DOMAIN exports : Aimless(exports[k])

EndOfFile ==
  /\ ~done
  /\ done' = TRUE
  /\ errors' = IF Lacking THEN Append(errors, 0) ELSE errors
  /\ UNCHANGED <<text, active, names, sections, accessible, exports>>

(* The export sections whose rules the policy of an enabled package gets. *)
ExportsFor(package) ==
  LET anchored(e) == e.name[1] = package IN SelectSeq(exports, anchored)

(* What ParseRulesIni returns. *)
Accepted ==
  done /\ errors = <<>> /\ (sections # <<>> \/ accessible # <<>> \/ exports # <<>>)

Init ==
  /\ text = <<>> /\ active = "none" /\ names = {} /\ errors = <<>> /\ done = FALSE
  /\ sections = <<>> /\ accessible = <<>> /\ exports = <<>>

Next == ReadLine \/ EndOfFile

Spec == Init /\ [][Next]_vars
-----------------------------------------------------------------------------
IsRule(l) == l.is \in {"rule", "redirect"}

ParsedRuleLine == [rule : {l.rule : l \in {x \in Line : IsRule(x)}}, line : Nat]

ParsedSection ==
  [name : {l.name : l \in {x \in Line : x.is = "header"}}, mode : Mode \cup {""},
   enabled : BOOLEAN, existing : BOOLEAN, dirs : DeleteDirMode,
   media : Boolean \cup {"auto"}, rules : Seq(ParsedRuleLine)]

TypeOK ==
  /\ text \in Seq(Line) /\ active \in {"none", "policy", "accessible", "export"}
  /\ sections \in Seq(ParsedSection) /\ errors \in Seq(Nat) /\ done \in BOOLEAN

(* Line h of a file is the header that line i stands under. *)
Heads(file, h, i) ==
  /\ h \in 1 .. i /\ file[h].is = "header"
  /\ \A j \in h + 1 .. i : file[j].is # "header"

Under(file, name, i) == \E h \in DOMAIN file : Heads(file, h, i) /\ file[h].name = name

(* The parsed rule is the one on its line, and that line stands under name. *)
Placed(file, r, name) ==
  /\ r.line \in DOMAIN file /\ IsRule(file[r.line]) /\ file[r.line].rule = r.rule
  /\ Under(file, name, r.line)

(* A rule belongs to the package whose header it stands under and reads as *)
(* its line does, in files with errors too: behind a header that is refused *)
(* no line goes to the section above it (active_section and current_policy *)
(* are reset before the name is looked at).                                *)
RulesStayInTheirSection ==
  \A k \in DOMAIN sections : \A n \in DOMAIN sections[k].rules :
    Placed(text, sections[k].rules[n], sections[k].name)

(* The rule of line i is in its section, behind those of earlier lines. *)
Kept(name, i) ==
  \E k \in DOMAIN sections : \E n \in DOMAIN sections[k].rules :
    /\ sections[k].name = name /\ sections[k].rules[n].line = i
    /\ \A m \in 1 .. n - 1 : sections[k].rules[m].line < i

(* A redirect is taken for a setting in a package's section if it begins   *)
(* with the word of an option, and in the other sections always.           *)
Misread(name, l) == l.is = "redirect" /\ (KindOf(name) = "policy" => l.word # "")

IsSetting(name, l) == l.is = "assign" \/ Misread(name, l)

Key(name, l) == IF KindOf(name) = "policy" THEN OptionKey(l) ELSE l.key

SameSetting(key, other) == key = other \/ {key, other} \subseteq {"enabled", "disabled"}

(* What the documented meaning of an option asks of a section. *)
Holds(s, key, value) ==
  /\ key = "mode" => s.mode = value
  /\ key = "enabled" => (s.enabled <=> value = "true")
  /\ key = "disabled" => (s.enabled <=> value = "false")
  /\ key = "delete_existing" => (s.existing <=> value = "true")
  /\ key = "delete_dirs" =>
       s.dirs = value \/ <<value, s.dirs>> \in {<<"true", "recursive">>, <<"false", "none">>}
  /\ key = "media_query" => s.media = value

(* The section of that name has the value, if it keeps the key at all. *)
Stands(name, key, value) ==
  \/ \E k \in DOMAIN sections : sections[k].name = name /\ Holds(sections[k], key, value)
  \/ \E r \in {accessible[k] : k \in DOMAIN accessible} \cup {exports[k] : k \in DOMAIN exports} :
       r.name = name /\ (key \in DOMAIN r => r[key] = value)

(* A file without errors means what it says, the redirects that are taken  *)
(* for settings excepted: every other rule that is written is there, in    *)
(* the order of the lines, and of several lines that are read as the same  *)
(* setting of a section the last one counts.                               *)
FileMeansWhatItSays ==
  errors = <<>> =>
    \A h, i \in DOMAIN text : Heads(text, h, i) =>
      LET name == text[h].name IN
      /\ IsRule(text[i]) /\ ~Misread(name, text[i]) => Kept(name, i)
      /\ (/\ IsSetting(name, text[i])
          /\ \A j \in i + 1 .. Len(text) : Heads(text, h, j) =>
               ~(IsSetting(name, text[j])
                 /\ SameSetting(Key(name, text[j]), Key(name, text[i])))) =>
           Stands(name, Key(name, text[i]), text[i].value)

(* path -> target and path => target are redirects (rule-format-plan, 4.5  *)
(* and 4.6), whatever the path: in a file that is accepted each of them is *)
(* a rule of the package it is written under.  The code violates it.       *)
RedirectsAreRead ==
  Accepted =>
    \A h, i \in DOMAIN text :
      Heads(text, h, i) /\ KindOf(text[h].name) = "policy" /\ text[i].is = "redirect"
        => Kept(text[h].name, i)
=============================================================================
