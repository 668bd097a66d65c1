--------------------------- MODULE RulesIniProofs ---------------------------
(***************************************************************************)
(* What a parsed rules.ini holds, for all lines a file may hold and files  *)
(* of any length: every rule belongs to the header it stands under, and a  *)
(* file without errors means what it says.                                 *)
(*                                                                         *)
(* The first is inductive only together with what the parser relies on:    *)
(* while it is in a package's section, the last section is the one of the  *)
(* header above the next line (Inv).  The second needs that of all three   *)
(* lists, and that as long as no line was in error every header has opened *)
(* a section of its own (Meaning).                                         *)
(*                                                                         *)
(* From both it follows which rule the daemon takes for a file: what is    *)
(* written under an application is loaded for it, for its section is       *)
(* opened once (OpenedOnce) and no other covers its name.                  *)
(***************************************************************************)
EXTENDS DaemonConfig, SequenceTheorems, WellFoundedInduction, TLAPS

(* The header above the next line is that of the last section. *)
CurrentPolicy ==
  active = "policy" =>
    sections # <<>> /\ Under(text, sections[Len(sections)].name, Len(text))

Inv == TypeOK /\ CurrentPolicy /\ RulesStayInTheirSection
-----------------------------------------------------------------------------
LEMMA AppendFacts ==
  ASSUME NEW S, NEW q \in Seq(S), NEW e \in S
  PROVE  /\ Append(q, e) \in Seq(S) /\ Append(q, e) # <<>> /\ Len(Append(q, e)) = Len(q) + 1
         /\ Append(q, e)[Len(q) + 1] = e /\ \A k \in DOMAIN q : Append(q, e)[k] = q[k]
         /\ DOMAIN Append(q, e) = DOMAIN q \cup {Len(q) + 1}
  OBVIOUS

LEMMA OptionFacts ==
  ASSUME NEW s \in ParsedSection, NEW key, NEW value, IsOption(key, value)
  PROVE  /\ SetOption(s, key, value) \in ParsedSection
         /\ SetOption(s, key, value).name = s.name
         /\ SetOption(s, key, value).rules = s.rules
  <1> USE DEF ParsedSection, IsOption
  <1>1. CASE key = "mode"
    BY <1>1 DEF SetOption, SetMode, ParseMode
  <1>2. CASE key = "enabled"
    BY <1>2 DEF SetOption
  <1>3. CASE key = "disabled"
    BY <1>3 DEF SetOption
  <1>4. CASE key = "delete_existing"
    BY <1>4 DEF SetOption
  <1>5. CASE key = "delete_dirs"
    <2>1. DirMode(value) \in DeleteDirMode
      BY <1>5 DEF DirMode, ParseDeleteDirMode, Boolean, DeleteDirMode
    <2> QED
      BY <1>5, <2>1 DEF SetOption
  <1>6. CASE key = "media_query"
    BY <1>6 DEF SetOption, ParseMediaQueryMode
  <1>7. CASE key \notin {"mode", "enabled", "disabled", "delete_existing", "delete_dirs",
                         "media_query"}
    BY <1>7 DEF SetOption
  <1> QED
    BY <1>1, <1>2, <1>3, <1>4, <1>5, <1>6, <1>7

(* What is asked of a line that is taken. *)
LEMMA TakenLine ==
  ASSUME NEW l
  PROVE  /\ ReadOption(l) => /\ active = "policy" /\ IsOption(OptionKey(l), l.value)
                             /\ l.is # "header"
         /\ ReadRule(l) => active = "policy" /\ IsRule(l) /\ l.is # "header"
  BY DEF ReadOption, TakesOption, ReadRule, TakesRule, IsRule

(* An option that is set holds, and so does what other options have set. *)
LEMMA OptionHolds ==
  ASSUME NEW s \in ParsedSection, NEW key, NEW value, IsOption(key, value)
  PROVE  /\ Holds(SetOption(s, key, value), key, value)
         /\ \A k, v : ~SameSetting(key, k) /\ Holds(s, k, v)
              => Holds(SetOption(s, key, value), k, v)
  <1> DEFINE t == SetOption(s, key, value)
  <1>1. CASE key = "mode"
    <2>1. t = [s EXCEPT !.mode = value]
      BY <1>1 DEF SetOption, SetMode
    <2>2. /\ t.mode = value /\ t.enabled = s.enabled /\ t.existing = s.existing
          /\ t.dirs = s.dirs /\ t.media = s.media
      BY <2>1 DEF ParsedSection
    <2> HIDE DEF t
    <2> QED
      BY <1>1, <2>2 DEF Holds, SameSetting, t
  <1>2. CASE key \in {"enabled", "disabled"}
    <2> DEFINE on == IF key = "enabled" THEN value = "true" ELSE value = "false"
    <2>1. t = [s EXCEPT !.enabled = on]
      BY <1>2 DEF SetOption
    <2>2. /\ t.enabled = on /\ t.mode = s.mode /\ t.existing = s.existing
          /\ t.dirs = s.dirs /\ t.media = s.media
      BY <2>1 DEF ParsedSection
    <2>3. on \in BOOLEAN /\ (key = "enabled" => (on <=> value = "true"))
          /\ (key = "disabled" => (on <=> value = "false"))
      BY <1>2
    <2> HIDE DEF t, on
    <2>4. Holds(t, key, value)
      BY <1>2, <2>2, <2>3 DEF Holds
    <2>5. ASSUME NEW k, NEW v, ~SameSetting(key, k), Holds(s, k, v) PROVE Holds(t, k, v)
      <3>1. k \notin {"enabled", "disabled"}
        BY <1>2, <2>5 DEF SameSetting
      <3> QED
        BY <2>2, <2>5, <3>1 DEF Holds
    <2> QED
      BY <2>4, <2>5 DEF t
  <1>3. CASE key = "delete_existing"
    <2>1. t = [s EXCEPT !.existing = (value = "true")]
      BY <1>3 DEF SetOption
    <2>2. /\ t.existing = (value = "true") /\ t.mode = s.mode /\ t.enabled = s.enabled
          /\ t.dirs = s.dirs /\ t.media = s.media
      BY <2>1 DEF ParsedSection
    <2> HIDE DEF t
    <2>4. Holds(t, key, value)
      BY <1>3, <2>2 DEF Holds
    <2>5. ASSUME NEW k, NEW v, ~SameSetting(key, k), Holds(s, k, v) PROVE Holds(t, k, v)
      <3>1. k # "delete_existing"
        BY <1>3, <2>5 DEF SameSetting
      <3> QED
        BY <2>2, <2>5, <3>1 DEF Holds
    <2> QED
      BY <2>4, <2>5 DEF t
  <1>4. CASE key = "delete_dirs"
    <2>1. t = [s EXCEPT !.dirs = DirMode(value)]
      BY <1>4 DEF SetOption
    <2>2. /\ t.dirs = DirMode(value) /\ t.mode = s.mode /\ t.enabled = s.enabled
          /\ t.existing = s.existing /\ t.media = s.media
      BY <2>1 DEF ParsedSection
    <2> HIDE DEF t
    <2> QED
      BY <1>4, <2>2 DEF Holds, SameSetting, DirMode, t
  <1>5. CASE key = "media_query"
    <2>1. t = [s EXCEPT !.media = value]
      BY <1>5 DEF SetOption
    <2>2. /\ t.media = value /\ t.mode = s.mode /\ t.enabled = s.enabled
          /\ t.existing = s.existing /\ t.dirs = s.dirs
      BY <2>1 DEF ParsedSection
    <2> HIDE DEF t
    <2> QED
      BY <1>5, <2>2 DEF Holds, SameSetting, t
  <1>6. CASE key \notin {"mode", "enabled", "disabled", "delete_existing", "delete_dirs",
                         "media_query"}
    <2>1. t = s
      BY <1>6 DEF SetOption
    <2> QED
      BY <1>6, <2>1 DEF Holds
  <1> QED
    BY <1>1, <1>2, <1>3, <1>4, <1>5, <1>6

(* A line that is appended leaves what is above it where it stands. *)
LEMMA FileGrows ==
  ASSUME NEW file \in Seq(Line), NEW l \in Line
  PROVE  LET new == Append(file, l) IN
         /\ new \in Seq(Line) /\ Len(new) = Len(file) + 1 /\ new[Len(file) + 1] = l
         /\ \A i \in DOMAIN file : i \in DOMAIN new /\ new[i] = file[i]
         /\ \A i \in DOMAIN file : \A name : Under(file, name, i) => Under(new, name, i)
         /\ \A name : l.is # "header" /\ Under(file, name, Len(file))
                        => Under(new, name, Len(file) + 1)
         /\ l.is = "header" => Under(new, l.name, Len(file) + 1)
  <1> DEFINE new == Append(file, l)
  <1>1. /\ new \in Seq(Line) /\ Len(new) = Len(file) + 1 /\ new[Len(file) + 1] = l
        /\ DOMAIN file = 1 .. Len(file) /\ DOMAIN new = 1 .. Len(file) + 1
        /\ \A i \in DOMAIN file : i \in DOMAIN new /\ new[i] = file[i]
        /\ Len(file) \in Nat
    OBVIOUS
  <1> HIDE DEF new
  <1>2. ASSUME NEW i \in DOMAIN file, NEW h \in DOMAIN file, Heads(file, h, i)
        PROVE  Heads(new, h, i)
    BY <1>1, <1>2 DEF Heads
  <1>3. ASSUME l.is # "header", NEW h \in DOMAIN file, Heads(file, h, Len(file))
        PROVE  Heads(new, h, Len(file) + 1)
    BY <1>1, <1>3 DEF Heads
  <1>4. ASSUME l.is = "header" PROVE Heads(new, Len(file) + 1, Len(file) + 1)
    BY <1>1, <1>4 DEF Heads
  <1>5. \A i \in DOMAIN file : \A name : Under(file, name, i) => Under(new, name, i)
    BY <1>1, <1>2 DEF Under
  <1>6. \A name : l.is # "header" /\ Under(file, name, Len(file)) => Under(new, name, Len(file) + 1)
    BY <1>1, <1>3 DEF Under
  <1>7. l.is = "header" => Under(new, l.name, Len(file) + 1)
    BY <1>1, <1>4 DEF Under
  <1> QED
    BY <1>1, <1>5, <1>6, <1>7 DEF new

LEMMA StaysPlaced ==
  ASSUME NEW file \in Seq(Line), NEW l \in Line, NEW r, NEW name, Placed(file, r, name)
  PROVE  Placed(Append(file, l), r, name)
  BY FileGrows DEF Placed
-----------------------------------------------------------------------------
(* A step that leaves the sections with the names and rules they have. *)
LEMMA SameRules ==
  ASSUME Inv, NEW l \in Line, text' = Append(text, l),
         DOMAIN sections' = DOMAIN sections,
         \A k \in DOMAIN sections : /\ sections'[k].name = sections[k].name
                                    /\ sections'[k].rules = sections[k].rules
  PROVE  RulesStayInTheirSection'
  BY StaysPlaced DEF Inv, TypeOK, RulesStayInTheirSection

(* Whatever a line does that is not a header, it leaves the section the    *)
(* parser is in.                                                           *)
LEMMA SamePolicy ==
  ASSUME Inv, NEW l \in Line, text' = Append(text, l), l.is # "header", active' = active,
         Len(sections') = Len(sections), sections' \in Seq(ParsedSection),
         \A k \in DOMAIN sections : sections'[k].name = sections[k].name
  PROVE  CurrentPolicy'
  <1> SUFFICES ASSUME active = "policy"
               PROVE  sections' # <<>> /\ Under(text', sections'[Len(sections')].name, Len(text'))
    BY DEF CurrentPolicy
  <1>1. sections \in Seq(ParsedSection) /\ text \in Seq(Line) /\ sections # <<>>
        /\ Under(text, sections[Len(sections)].name, Len(text))
    BY DEF Inv, TypeOK, CurrentPolicy
  <1>2. Len(sections) \in DOMAIN sections /\ sections' # <<>>
    BY <1>1
  <1>3. Under(text', sections[Len(sections)].name, Len(text')) /\ Len(text') = Len(text) + 1
    BY <1>1, FileGrows
  <1> QED
    BY <1>2, <1>3

LEMMA InvInit == Init => Inv
  <1> SUFFICES ASSUME Init PROVE Inv
    OBVIOUS
  <1> USE DEF Init
  <1>1. <<>> \in Seq(Line) /\ <<>> \in Seq(ParsedSection) /\ <<>> \in Seq(Nat)
    OBVIOUS
  <1>2. TypeOK
    BY <1>1 DEF TypeOK
  <1>3. CurrentPolicy /\ RulesStayInTheirSection
    BY DEF CurrentPolicy, RulesStayInTheirSection
  <1> QED
    BY <1>2, <1>3 DEF Inv

(* Lines that neither open a section nor add to a package's rules. *)
LEMMA OtherLine ==
  ASSUME Inv, NEW l \in Line, text' = Append(text, l), done' = done,
         \/ ReadOption(l) \/ ReadAccessible(l) \/ ReadExport(l) \/ SkipLine(l) \/ RefuseLine(l)
  PROVE  Inv'
  <1>1. /\ sections \in Seq(ParsedSection) /\ text \in Seq(Line) /\ errors \in Seq(Nat)
        /\ ThisLine \in Nat
    BY DEF Inv, TypeOK, ThisLine
  <1>2. l.is # "header" /\ active' = active
    BY DEF ReadOption, ReadAccessible, ReadExport, SkipLine, RefuseLine, TakesOption,
           TakesAccessible, TakesExport
  <1>3. /\ sections' \in Seq(ParsedSection) /\ Len(sections') = Len(sections)
        /\ DOMAIN sections' = DOMAIN sections
        /\ \A k \in DOMAIN sections : /\ sections'[k].name = sections[k].name
                                      /\ sections'[k].rules = sections[k].rules
    <2>1. CASE ReadOption(l)
      <3> DEFINE n == Len(sections)
                 s == SetOption(sections[n], OptionKey(l), l.value)
      <3>1. n \in DOMAIN sections /\ sections[n] \in ParsedSection
        BY <1>1, <2>1, TakenLine DEF Inv, CurrentPolicy
      <3>2. s \in ParsedSection /\ s.name = sections[n].name /\ s.rules = sections[n].rules
        BY <2>1, <3>1, OptionFacts, TakenLine
      <3>3. sections' = [sections EXCEPT ![n] = s]
        BY <2>1 DEF ReadOption
      <3> HIDE DEF s, n
      <3> QED
        BY <1>1, <3>1, <3>2, <3>3
    <2>2. CASE ~ReadOption(l)
      <3>1. sections' = sections
        BY <2>2 DEF ReadAccessible, ReadExport, SkipLine, RefuseLine
      <3> QED
        BY <1>1, <3>1
    <2> QED
      BY <2>1, <2>2
  <1>4. errors' \in Seq(Nat)
    <2>1. Append(errors, ThisLine) \in Seq(Nat)
      BY <1>1, AppendFacts
    <2>2. errors' = errors \/ errors' = Append(errors, ThisLine)
      BY DEF ReadOption, ReadAccessible, ReadExport, SkipLine, RefuseLine
    <2> QED
      BY <1>1, <2>1, <2>2
  <1>5. text' \in Seq(Line)
    BY <1>1
  <1>6. TypeOK'
    BY <1>2, <1>3, <1>4, <1>5 DEF Inv, TypeOK
  <1> QED
    BY <1>2, <1>3, <1>6, SameRules, SamePolicy DEF Inv

LEMMA RuleLine ==
  ASSUME Inv, NEW l \in Line, text' = Append(text, l), done' = done, ReadRule(l)
  PROVE  Inv'
  <1> DEFINE n == Len(sections)
             r == [rule |-> l.rule, line |-> ThisLine]
             s == [sections[n] EXCEPT !.rules = Append(@, r)]
  <1>1. /\ sections \in Seq(ParsedSection) /\ text \in Seq(Line) /\ text' \in Seq(Line)
        /\ n \in DOMAIN sections /\ sections[n] \in ParsedSection
        /\ Under(text, sections[n].name, Len(text))
    BY TakenLine DEF Inv, TypeOK, CurrentPolicy
  <1>2. sections' = [sections EXCEPT ![n] = s]
    BY DEF ReadRule
  <1>3. l.is # "header" /\ IsRule(l) /\ active' = active /\ errors' = errors
    BY DEF ReadRule, TakesRule, IsRule
  <1>4. r \in ParsedRuleLine
    BY <1>1, <1>3 DEF ParsedRuleLine, ThisLine
  <1>5. s \in ParsedSection /\ s.name = sections[n].name /\ s.rules = Append(sections[n].rules, r)
    <2> HIDE DEF r
    <2>1. Append(sections[n].rules, r) \in Seq(ParsedRuleLine)
      BY <1>1, <1>4, AppendFacts DEF ParsedSection
    <2> QED
      BY <1>1, <2>1 DEF ParsedSection
  <1>6. Placed(text', r, s.name)
    <2>1. r.line = Len(text) + 1 /\ r.rule = l.rule
      BY DEF ThisLine
    <2>2. /\ Len(text) + 1 \in DOMAIN text' /\ text'[Len(text) + 1] = l
          /\ Under(text', s.name, Len(text) + 1)
      BY <1>1, <1>3, <1>5, FileGrows
    <2> HIDE DEF r, s
    <2> QED
      BY <1>3, <2>1, <2>2 DEF Placed
  <1> HIDE DEF r, s, n
  <1>7. /\ sections' \in Seq(ParsedSection) /\ Len(sections') = Len(sections)
        /\ DOMAIN sections' = DOMAIN sections
        /\ \A k \in DOMAIN sections : sections'[k].name = sections[k].name
    BY <1>1, <1>2, <1>5
  <1>8. TypeOK'
    BY <1>1, <1>3, <1>7 DEF Inv, TypeOK
  <1>9. CurrentPolicy'
    BY <1>3, <1>7, SamePolicy
  <1>10. ASSUME NEW k \in DOMAIN sections', NEW m \in DOMAIN sections'[k].rules
         PROVE  Placed(text', sections'[k].rules[m], sections'[k].name)
    <2>1. CASE k # n \/ m \in DOMAIN sections[n].rules
      <3>1. /\ m \in DOMAIN sections[k].rules /\ sections'[k].rules[m] = sections[k].rules[m]
            /\ sections'[k].name = sections[k].name
        <4>1. CASE k # n
          BY <1>2, <1>7, <1>10, <4>1
        <4>2. CASE k = n
          <5>1. sections[n].rules \in Seq(ParsedRuleLine) /\ m \in DOMAIN sections[n].rules
            BY <1>1, <2>1, <4>2 DEF ParsedSection
          <5>2. sections'[k] = s
            BY <1>1, <1>2, <4>2
          <5>3. s.rules[m] = sections[n].rules[m]
            BY <1>5, <5>1
          <5> QED
            BY <1>5, <4>2, <5>1, <5>2, <5>3
        <4> QED
          BY <4>1, <4>2
      <3>2. Placed(text, sections[k].rules[m], sections[k].name)
        BY <1>7, <1>10, <3>1 DEF Inv, RulesStayInTheirSection
      <3> QED
        BY <1>1, <3>1, <3>2, StaysPlaced
    <2>2. CASE k = n /\ m \notin DOMAIN sections[n].rules
      <3>1. sections'[k] = s
        BY <1>1, <1>2, <2>2
      <3>2. sections[n].rules \in Seq(ParsedRuleLine)
        BY <1>1 DEF ParsedSection
      <3>3. m \in DOMAIN Append(sections[n].rules, r)
        BY <1>5, <1>10, <3>1
      <3>4. Append(sections[n].rules, r)[m] = r
        BY <2>2, <3>2, <3>3
      <3> QED
        BY <1>5, <1>6, <3>1, <3>4
    <2> QED
      BY <2>1, <2>2
  <1> QED
    BY <1>8, <1>9, <1>10 DEF Inv, RulesStayInTheirSection

LEMMA HeaderLine ==
  ASSUME Inv, NEW l \in Line, text' = Append(text, l), done' = done,
         RefuseSection(l) \/ OpenSection(l)
  PROVE  Inv'
  <1>1. /\ sections \in Seq(ParsedSection) /\ text \in Seq(Line) /\ text' \in Seq(Line)
        /\ errors \in Seq(Nat) /\ ThisLine \in Nat
    BY DEF Inv, TypeOK, ThisLine
  <1>2. l.is = "header" /\ errors' \in Seq(Nat)
    <2>1. Append(errors, ThisLine) \in Seq(Nat)
      BY <1>1, AppendFacts
    <2> QED
      BY <1>1, <2>1 DEF RefuseSection, OpenSection
  <1>3. active' \in {"none", "policy", "accessible", "export"}
    <2>1. l.name # <<>> => KindOf(l.name) \in {"policy", "accessible", "export"}
      BY <1>2, LineAssumption DEF KindOf
    <2> QED
      BY <2>1 DEF RefuseSection, OpenSection
  <1>4. CASE sections' = sections /\ active' # "policy"
    <2>1. TypeOK'
      BY <1>1, <1>2, <1>3, <1>4 DEF Inv, TypeOK
    <2>2. RulesStayInTheirSection'
      BY <1>4, SameRules
    <2> QED
      BY <1>4, <2>1, <2>2 DEF Inv, CurrentPolicy
  <1>5. CASE ~(sections' = sections /\ active' # "policy")
    <2> DEFINE s == NewSection(l.name)
    <2>1. sections' = Append(sections, s)
      BY <1>5 DEF RefuseSection, OpenSection
    <2>2. s.name = l.name /\ s.rules = <<>>
      BY DEF NewSection
    <2>3. s \in ParsedSection
      <3>1. <<>> \in Seq(ParsedRuleLine)
        OBVIOUS
      <3> QED
        BY <1>2, <3>1 DEF NewSection, ParsedSection, Mode, DeleteDirMode, Boolean
    <2> HIDE DEF s
    <2>4. /\ sections' \in Seq(ParsedSection) /\ sections' # <<>>
          /\ Len(sections') = Len(sections) + 1 /\ sections'[Len(sections) + 1] = s
          /\ \A k \in DOMAIN sections : sections'[k] = sections[k]
          /\ DOMAIN sections' = DOMAIN sections \cup {Len(sections) + 1}
      BY <1>1, <2>1, <2>3, AppendFacts
    <2>5. TypeOK'
      BY <1>1, <1>2, <1>3, <2>4 DEF Inv, TypeOK
    <2>6. Under(text', s.name, Len(text')) /\ Len(text') = Len(text) + 1
      BY <1>1, <1>2, <2>2, FileGrows
    <2>7. CurrentPolicy'
      BY <2>4, <2>6 DEF CurrentPolicy
    <2>8. RulesStayInTheirSection'
      BY <1>1, <2>2, <2>4, StaysPlaced DEF Inv, RulesStayInTheirSection
    <2> QED
      BY <2>5, <2>7, <2>8 DEF Inv
  <1> QED
    BY <1>4, <1>5

LEMMA InvNext == Inv /\ [Next]_vars => Inv'
  <1> SUFFICES ASSUME Inv, [Next]_vars PROVE Inv'
    OBVIOUS
  <1>1. CASE ReadLine
    BY <1>1, OtherLine, RuleLine, HeaderLine DEF ReadLine
  <1>2. CASE EndOfFile
    <2>1. errors' \in Seq(Nat)
      BY <1>2 DEF EndOfFile, Inv, TypeOK
    <2>2. TypeOK'
      BY <1>2, <2>1 DEF EndOfFile, Inv, TypeOK
    <2>3. CurrentPolicy' /\ RulesStayInTheirSection'
      BY <1>2 DEF EndOfFile, Inv, CurrentPolicy, RulesStayInTheirSection
    <2> QED
      BY <2>2, <2>3 DEF Inv
  <1>3. CASE UNCHANGED vars
    BY <1>3 DEF vars, Inv, TypeOK, CurrentPolicy, RulesStayInTheirSection
  <1> QED
    BY <1>1, <1>2, <1>3 DEF Next
-----------------------------------------------------------------------------
(* The sections the parser keeps have the shape the compiler expects,      *)
(* whatever the lines of rules.ini.                                        *)
THEOREM ParserTypeCorrect == Spec => []TypeOK
  <1>1. Inv => TypeOK
    BY DEF Inv
  <1> QED
    BY <1>1, InvInit, InvNext, PTL DEF Spec

(* RulesStayInTheirSection: no line puts a rule into the section of        *)
(* another package, refused headers and lines in error included.           *)
THEOREM RulesPlaced == Spec => []RulesStayInTheirSection
  <1>1. Inv => RulesStayInTheirSection
    BY DEF Inv
  <1> QED
    BY <1>1, InvInit, InvNext, PTL DEF Spec
-----------------------------------------------------------------------------
(***************************************************************************)
(* A file without errors means what it says.  What the parser relies on:   *)
(* in each kind of section the last entry of that kind is the one of the   *)
(* header above the next line; and, as long as no line was in error, every *)
(* header has opened a section, and no two have the same name.             *)
(***************************************************************************)
HeaderName == {l.name : l \in {x \in Line : x.is = "header"}}
Value == {"", "false"} \cup {l.value : l \in {x \in Line : x.is \in {"assign", "redirect"}}}

ParsedAccessible ==
  [name : HeaderName, from : Value, to : Value, path : Value, line : Nat]
ParsedExport ==
  [name : HeaderName, source : Value, target : Value, allow_child : Value, line : Nat]

Fields == accessible \in Seq(ParsedAccessible) /\ exports \in Seq(ParsedExport)

(* In a section of that kind the list's last entry is the current one. *)
Current(list, kind) ==
  active = kind => list # <<>> /\ Under(text, list[Len(list)].name, Len(text))

HeadersOpen ==
  errors = <<>> =>
    /\ \A h \in DOMAIN text : text[h].is = "header" => text[h].name \in names
    /\ \A h, g \in DOMAIN text :
         text[h].is = "header" /\ text[g].is = "header" /\ text[h].name = text[g].name => h = g
    /\ \A h \in DOMAIN text : Heads(text, h, Len(text)) => active = KindOf(text[h].name)

RulesKept ==
  errors = <<>> =>
    \A h, i \in DOMAIN text :
      Heads(text, h, i) /\ IsRule(text[i]) /\ ~Misread(text[h].name, text[i])
        => Kept(text[h].name, i)

(* Line i is the last under header h that sets what it sets. *)
LastOf(file, h, i) ==
  LET name == file[h].name IN
  /\ IsSetting(name, file[i])
  /\ \A j \in i + 1 .. Len(file) : Heads(file, h, j) =>
       ~(IsSetting(name, file[j]) /\ SameSetting(Key(name, file[j]), Key(name, file[i])))

LastCounts ==
  errors = <<>> =>
    \A h, i \in DOMAIN text : Heads(text, h, i) /\ LastOf(text, h, i) =>
      Stands(text[h].name, Key(text[h].name, text[i]), text[i].value)

Meaning ==
  /\ Fields /\ Current(accessible, "accessible") /\ Current(exports, "export")
  /\ HeadersOpen /\ RulesKept /\ LastCounts
-----------------------------------------------------------------------------
(* What a line that is appended changes of which header heads what. *)
LEMMA HeadsBack ==
  ASSUME NEW file \in Seq(Line), NEW l \in Line
  PROVE  LET new == Append(file, l) IN
         /\ DOMAIN new = DOMAIN file \cup {Len(file) + 1}
         /\ \A h \in DOMAIN new : \A i \in DOMAIN file :
              Heads(new, h, i) => h \in DOMAIN file /\ Heads(file, h, i)
         /\ \A h \in DOMAIN file : \A i \in DOMAIN file : Heads(file, h, i) => Heads(new, h, i)
         /\ l.is # "header" => \A h \in DOMAIN new : Heads(new, h, Len(file) + 1) =>
              h \in DOMAIN file /\ Heads(file, h, Len(file))
         /\ l.is # "header" => \A h \in DOMAIN file : Heads(file, h, Len(file)) =>
              Heads(new, h, Len(file) + 1)
         /\ l.is = "header" => \A h \in DOMAIN new : Heads(new, h, Len(file) + 1) =>
              h = Len(file) + 1
  <1> DEFINE new == Append(file, l)
  <1>1. /\ DOMAIN file = 1 .. Len(file) /\ DOMAIN new = 1 .. Len(file) + 1
        /\ Len(file) \in Nat /\ new[Len(file) + 1] = l
        /\ \A i \in DOMAIN file : new[i] = file[i]
    OBVIOUS
  <1> HIDE DEF new
  <1>2. ASSUME NEW h \in DOMAIN new, NEW i \in DOMAIN file, Heads(new, h, i)
        PROVE  h \in DOMAIN file /\ Heads(file, h, i)
    BY <1>1, <1>2 DEF Heads
  <1>3. ASSUME NEW h \in DOMAIN file, NEW i \in DOMAIN file, Heads(file, h, i)
        PROVE  Heads(new, h, i)
    BY <1>1, <1>3 DEF Heads
  <1>4. ASSUME l.is # "header", NEW h \in DOMAIN new, Heads(new, h, Len(file) + 1)
        PROVE  h \in DOMAIN file /\ Heads(file, h, Len(file))
    <2>1. h # Len(file) + 1
      BY <1>1, <1>4 DEF Heads
    <2> QED
      BY <1>1, <1>4, <2>1 DEF Heads
  <1>5. ASSUME l.is # "header", NEW h \in DOMAIN file, Heads(file, h, Len(file))
        PROVE  Heads(new, h, Len(file) + 1)
    BY <1>1, <1>5 DEF Heads
  <1>6. ASSUME l.is = "header", NEW h \in DOMAIN new, Heads(new, h, Len(file) + 1)
        PROVE  h = Len(file) + 1
    BY <1>1, <1>6 DEF Heads
  <1>7. DOMAIN new = DOMAIN file \cup {Len(file) + 1}
    BY <1>1
  <1> QED
    BY <1>2, <1>3, <1>4, <1>5, <1>6, <1>7 DEF new

(* The header above the next line is one line only. *)
LEMMA OneHead ==
  ASSUME NEW file \in Seq(Line), NEW name, Under(file, name, Len(file)),
         NEW h \in DOMAIN file, Heads(file, h, Len(file))
  PROVE  file[h].name = name
  <1>1. PICK g \in DOMAIN file : Heads(file, g, Len(file)) /\ file[g].name = name
    BY DEF Under
  <1>2. DOMAIN file = 1 .. Len(file) /\ Len(file) \in Nat
    OBVIOUS
  <1>3. g = h
    BY <1>1, <1>2 DEF Heads
  <1> QED
    BY <1>1, <1>3

(* What each kind of list says of a setting. *)
Fits(r, name, key, value) == r.name = name /\ (key \in DOMAIN r => r[key] = value)

LEMMA StandsFacts ==
  ASSUME NEW name, NEW key, NEW value
  PROVE  Stands(name, key, value) <=>
           \/ \E k \in DOMAIN sections :
                sections[k].name = name /\ Holds(sections[k], key, value)
           \/ \E k \in DOMAIN accessible : Fits(accessible[k], name, key, value)
           \/ \E k \in DOMAIN exports : Fits(exports[k], name, key, value)
  BY DEF Stands, Fits
-----------------------------------------------------------------------------
(* What a line leaves of the errors and of the rules that were read. *)
ALine(l) ==
  \/ RefuseSection(l) \/ OpenSection(l) \/ ReadOption(l) \/ ReadRule(l)
  \/ ReadAccessible(l) \/ ReadExport(l) \/ SkipLine(l) \/ RefuseLine(l)

LEMMA NoErrorYet ==
  ASSUME Inv, NEW l \in Line, ALine(l), errors' = <<>>
  PROVE  errors = <<>> /\ ~RefuseSection(l) /\ ~RefuseLine(l)
  <1>1. errors \in Seq(Nat) /\ ThisLine \in Nat
    BY DEF Inv, TypeOK, ThisLine
  <1>2. Append(errors, ThisLine) # <<>>
    BY <1>1, AppendFacts
  <1>3. ~RefuseSection(l) /\ ~RefuseLine(l)
    BY <1>2 DEF RefuseSection, RefuseLine
  <1> QED
    BY <1>3 DEF ALine, OpenSection, ReadOption, ReadRule, ReadAccessible, ReadExport, SkipLine

(* The last section while the parser is in one. *)
LEMMA LastSection ==
  ASSUME Inv, active = "policy"
  PROVE  Len(sections) \in DOMAIN sections /\ sections[Len(sections)] \in ParsedSection
  BY DEF Inv, TypeOK, CurrentPolicy

LEMMA SectionsKept ==
  ASSUME Inv, NEW l \in Line, ALine(l), NEW k \in DOMAIN sections
  PROVE  /\ k \in DOMAIN sections' /\ sections'[k].name = sections[k].name
         /\ \A n \in DOMAIN sections[k].rules :
              n \in DOMAIN sections'[k].rules /\ sections'[k].rules[n] = sections[k].rules[n]
  <1>1. sections \in Seq(ParsedSection) /\ sections[k] \in ParsedSection
    BY DEF Inv, TypeOK
  <1>2. CASE ReadOption(l)
    <2> DEFINE s == SetOption(sections[Len(sections)], OptionKey(l), l.value)
    <2>1. Len(sections) \in DOMAIN sections /\ sections[Len(sections)] \in ParsedSection
      BY <1>2, LastSection DEF ReadOption, TakesOption
    <2>2. s.name = sections[Len(sections)].name /\ s.rules = sections[Len(sections)].rules
      BY <1>2, <2>1, OptionFacts, TakenLine
    <2>3. sections' = [sections EXCEPT ![Len(sections)] = s]
      BY <1>2 DEF ReadOption
    <2> HIDE DEF s
    <2> QED
      BY <1>1, <2>1, <2>2, <2>3
  <1>3. CASE ReadRule(l)
    <2> DEFINE n == Len(sections)
               r == [rule |-> l.rule, line |-> ThisLine]
               s == [sections[n] EXCEPT !.rules = Append(@, r)]
    <2>1. n \in DOMAIN sections /\ sections[n] \in ParsedSection
      BY <1>3, LastSection DEF ReadRule, TakesRule
    <2>2. r \in ParsedRuleLine
      BY <1>3, TakenLine DEF Inv, TypeOK, ParsedRuleLine, ThisLine
    <2>3. sections' = [sections EXCEPT ![n] = s]
      BY <1>3 DEF ReadRule
    <2>4. s.name = sections[n].name /\ s.rules = Append(sections[n].rules, r)
      <3> HIDE DEF r
      <3> QED
        BY <2>1 DEF ParsedSection
    <2>5. sections[n].rules \in Seq(ParsedRuleLine)
      BY <2>1 DEF ParsedSection
    <2> HIDE DEF r, s
    <2>6. \A m \in DOMAIN sections[n].rules :
            m \in DOMAIN s.rules /\ s.rules[m] = sections[n].rules[m]
      BY <2>2, <2>4, <2>5, AppendFacts
    <2> HIDE DEF n
    <2> QED
      BY <1>1, <2>1, <2>3, <2>4, <2>6
  <1>4. CASE OpenSection(l)
    <2>1. sections' = sections \/ sections' = Append(sections, NewSection(l.name))
      BY <1>4 DEF OpenSection
    <2> DEFINE s == NewSection(l.name)
    <2> HIDE DEF s
    <2>2. CASE sections' = Append(sections, s)
      BY <1>1, <2>2
    <2> QED
      BY <2>1, <2>2 DEF s
  <1>5. CASE sections' = sections
    BY <1>5
  <1> QED
    BY <1>2, <1>3, <1>4, <1>5
       DEF ALine, RefuseSection, ReadAccessible, ReadExport, SkipLine, RefuseLine

LEMMA StaysKept ==
  ASSUME Inv, NEW l \in Line, ALine(l), NEW name, NEW i, Kept(name, i)
  PROVE  Kept(name, i)'
  <1>1. PICK k \in DOMAIN sections : \E n \in DOMAIN sections[k].rules :
               /\ sections[k].name = name /\ sections[k].rules[n].line = i
               /\ \A m \in 1 .. n - 1 : sections[k].rules[m].line < i
    BY DEF Kept
  <1>2. PICK n \in DOMAIN sections[k].rules :
               /\ sections[k].name = name /\ sections[k].rules[n].line = i
               /\ \A m \in 1 .. n - 1 : sections[k].rules[m].line < i
    BY <1>1
  <1>3. sections[k] \in ParsedSection
    BY DEF Inv, TypeOK
  <1>4. sections[k].rules \in Seq(ParsedRuleLine)
    BY <1>3 DEF ParsedSection
  <1>5. \A m \in 1 .. n - 1 : m \in DOMAIN sections[k].rules
    BY <1>4
  <1>6. /\ k \in DOMAIN sections' /\ sections'[k].name = sections[k].name
        /\ \A m \in DOMAIN sections[k].rules :
             m \in DOMAIN sections'[k].rules /\ sections'[k].rules[m] = sections[k].rules[m]
    BY SectionsKept
  <1>7. /\ n \in DOMAIN sections'[k].rules /\ sections'[k].name = name
        /\ sections'[k].rules[n].line = i
        /\ \A m \in 1 .. n - 1 : sections'[k].rules[m].line < i
    BY <1>2, <1>5, <1>6
  <1> QED
    BY <1>6, <1>7 DEF Kept
-----------------------------------------------------------------------------
(* Under a header the parser is in the section of its name. *)
LEMMA PolicyName ==
  ASSUME Inv, active = "policy", NEW h \in DOMAIN text, Heads(text, h, Len(text))
  PROVE  sections[Len(sections)].name = text[h].name
  BY OneHead DEF Inv, TypeOK, CurrentPolicy

LEMMA RulesKeptNext ==
  ASSUME Inv, HeadersOpen, RulesKept, NEW l \in Line, text' = Append(text, l), ALine(l)
  PROVE  RulesKept'
  <1> SUFFICES ASSUME errors' = <<>>, NEW h \in DOMAIN text', NEW i \in DOMAIN text',
                      Heads(text', h, i), IsRule(text'[i]), NEW name, name = text'[h].name,
                      ~Misread(name, text'[i])
               PROVE  Kept(name, i)'
    BY DEF RulesKept
  <1>1. errors = <<>> /\ ~RefuseSection(l) /\ ~RefuseLine(l)
    BY NoErrorYet
  <1>2. /\ text \in Seq(Line) /\ Len(text') = Len(text) + 1 /\ text'[Len(text) + 1] = l
        /\ \A j \in DOMAIN text : text'[j] = text[j]
        /\ DOMAIN text' = DOMAIN text \cup {Len(text) + 1}
    BY FileGrows, HeadsBack DEF Inv, TypeOK
  <1>3. CASE i \in DOMAIN text
    <2>1. h \in DOMAIN text /\ Heads(text, h, i)
      BY <1>2, <1>3, HeadsBack
    <2>2. name = text[h].name
      BY <1>2, <2>1
    <2>3. Kept(name, i)
      BY <1>1, <1>2, <1>3, <2>1, <2>2 DEF RulesKept
    <2> QED
      BY <2>3, StaysKept
  <1>4. CASE i = Len(text) + 1
    <2>1. IsRule(l) /\ l.is # "header"
      BY <1>2, <1>4 DEF IsRule
    <2>3. h \in DOMAIN text /\ Heads(text, h, Len(text)) /\ text'[h] = text[h]
      BY <1>2, <1>4, <2>1, HeadsBack
    <2>2. ReadRule(l) /\ active = "policy"
      <3>1. active = KindOf(name) /\ ~Misread(name, l)
        BY <1>1, <1>2, <1>4, <2>3 DEF HeadersOpen
      <3> QED
        BY <1>1, <2>1, <3>1
           DEF ALine, IsRule, OpenSection, ReadOption, ReadAccessible, ReadExport, Misread,
               SkipLine, TakesOption, TakesAccessible, TakesExport, ReadRule, TakesRule
    <2> DEFINE n == Len(sections)
               r == [rule |-> l.rule, line |-> ThisLine]
               s == [sections[n] EXCEPT !.rules = Append(@, r)]
               q == sections[n].rules
    <2>4. n \in DOMAIN sections /\ sections[n] \in ParsedSection /\ sections[n].name = text[h].name
      BY <2>2, <2>3, LastSection, PolicyName
    <2>5. q \in Seq(ParsedRuleLine) /\ Len(q) \in Nat /\ DOMAIN q = 1 .. Len(q)
      <3>1. q \in Seq(ParsedRuleLine)
        BY <2>4 DEF ParsedSection
      <3> HIDE DEF q
      <3> QED
        BY <3>1
    <2>6. r \in ParsedRuleLine /\ r.line = i
      BY <1>2, <1>4, <2>1 DEF ParsedRuleLine, ThisLine
    <2>7. sections' = [sections EXCEPT ![n] = s]
      BY <2>2 DEF ReadRule
    <2>8. s.name = sections[n].name /\ s.rules = Append(q, r)
      <3> HIDE DEF r
      <3> QED
        BY <2>4 DEF ParsedSection
    <2>9. \A m \in DOMAIN q : q[m].line < i
      BY <1>2, <1>4, <2>4 DEF Inv, RulesStayInTheirSection, Placed
    <2> HIDE DEF r, s
    <2>10. n \in DOMAIN sections' /\ sections'[n] = s
      BY <2>4, <2>7
    <2> HIDE DEF q, n
    <2>11. /\ Len(q) + 1 \in DOMAIN s.rules /\ s.rules[Len(q) + 1].line = i
           /\ \A m \in 1 .. (Len(q) + 1) - 1 : s.rules[m].line < i
      <3>1. /\ Append(q, r)[Len(q) + 1] = r /\ \A m \in DOMAIN q : Append(q, r)[m] = q[m]
            /\ DOMAIN Append(q, r) = DOMAIN q \cup {Len(q) + 1}
        BY <2>5, <2>6, AppendFacts
      <3>2. \A m \in 1 .. (Len(q) + 1) - 1 : m \in DOMAIN q
        BY <2>5
      <3> QED
        BY <2>6, <2>8, <2>9, <3>1, <3>2
    <2> QED
      BY <2>3, <2>4, <2>8, <2>10, <2>11 DEF Kept
  <1> QED
    BY <1>2, <1>3, <1>4
-----------------------------------------------------------------------------
LEMMA HeadersOpenNext ==
  ASSUME Inv, HeadersOpen, NEW l \in Line, text' = Append(text, l), ALine(l)
  PROVE  HeadersOpen'
  <1> SUFFICES ASSUME errors' = <<>>
               PROVE  /\ \A h \in DOMAIN text' : text'[h].is = "header" => text'[h].name \in names'
                      /\ \A h, g \in DOMAIN text' :
                           text'[h].is = "header" /\ text'[g].is = "header"
                           /\ text'[h].name = text'[g].name => h = g
                      /\ \A h \in DOMAIN text' :
                           Heads(text', h, Len(text')) => active' = KindOf(text'[h].name)
    BY DEF HeadersOpen
  <1>1. errors = <<>> /\ ~RefuseSection(l) /\ ~RefuseLine(l)
    BY NoErrorYet
  <1>2. /\ text \in Seq(Line) /\ Len(text') = Len(text) + 1 /\ text'[Len(text) + 1] = l
        /\ \A j \in DOMAIN text : text'[j] = text[j]
        /\ DOMAIN text' = DOMAIN text \cup {Len(text) + 1}
    BY FileGrows, HeadsBack DEF Inv, TypeOK
  <1>3. /\ \A h \in DOMAIN text : text[h].is = "header" => text[h].name \in names
        /\ \A h, g \in DOMAIN text :
             text[h].is = "header" /\ text[g].is = "header" /\ text[h].name = text[g].name => h = g
        /\ \A h \in DOMAIN text : Heads(text, h, Len(text)) => active = KindOf(text[h].name)
    BY <1>1 DEF HeadersOpen
  <1>4. CASE l.is = "header"
    <2>1. OpenSection(l)
      BY <1>1, <1>4 DEF ALine, ReadOption, ReadRule, ReadAccessible, ReadExport, SkipLine,
                        TakesOption, TakesRule, TakesAccessible, TakesExport
    <2>2. l.name \notin names /\ names' = names \cup {l.name} /\ active' = KindOf(l.name)
      BY <2>1 DEF OpenSection
    <2>3. \A h \in DOMAIN text' : Heads(text', h, Len(text')) => h = Len(text) + 1
      BY <1>2, <1>4, HeadsBack
    <2> QED
      BY <1>2, <1>3, <2>2, <2>3
  <1>5. CASE l.is # "header"
    <2>1. names' = names /\ active' = active
      BY <1>1, <1>5 DEF ALine, OpenSection, ReadOption, ReadRule, ReadAccessible, ReadExport, SkipLine
    <2>2. \A h \in DOMAIN text' : Heads(text', h, Len(text')) =>
            h \in DOMAIN text /\ Heads(text, h, Len(text))
      BY <1>2, <1>5, HeadsBack
    <2> QED
      BY <1>2, <1>3, <1>5, <2>1, <2>2
  <1> QED
    BY <1>4, <1>5

(* A list whose last entry keeps its name, or that a header appends to. *)
LEMMA StaysCurrent ==
  ASSUME Inv, NEW l \in Line, text' = Append(text, l), l.is # "header", active' = active,
         NEW list, NEW after, NEW kind, NEW S, NEW T, list \in Seq(S), after \in Seq(T),
         active = kind =>
           list # <<>> /\ Under(text, list[Len(list)].name, Len(text)),
         Len(after) = Len(list), \A k \in DOMAIN list : after[k].name = list[k].name
  PROVE  active' = kind => after # <<>> /\ Under(text', after[Len(after)].name, Len(text'))
  <1> SUFFICES ASSUME active = kind
               PROVE  after # <<>> /\ Under(text', after[Len(after)].name, Len(text'))
    OBVIOUS
  <1>1. /\ text \in Seq(Line) /\ list # <<>> /\ Under(text, list[Len(list)].name, Len(text))
    BY DEF Inv, TypeOK
  <1>2. Len(list) \in DOMAIN list /\ after # <<>>
    BY <1>1
  <1>3. Under(text', list[Len(list)].name, Len(text')) /\ Len(text') = Len(text) + 1
    BY <1>1, FileGrows
  <1> QED
    BY <1>2, <1>3

(* What a field that is set leaves of a section. *)
LEMMA FieldFacts ==
  ASSUME NEW r, NEW key, NEW value
  PROVE  /\ \A other \in DOMAIN r : other # key => SetField(r, key, value)[other] = r[other]
         /\ DOMAIN SetField(r, key, value) = DOMAIN r
         /\ key \in DOMAIN r => SetField(r, key, value)[key] = value
  BY DEF SetField
-----------------------------------------------------------------------------
LEMMA FieldTyped ==
  ASSUME NEW key, NEW value \in Value
  PROVE  /\ \A r \in ParsedAccessible :
              IsAccessibleField(key) => SetField(r, key, value) \in ParsedAccessible
         /\ \A r \in ParsedExport :
              IsExportField(key, value) => SetField(r, key, value) \in ParsedExport
  <1>1. ASSUME NEW r \in ParsedAccessible, IsAccessibleField(key)
        PROVE  SetField(r, key, value) \in ParsedAccessible
    <2>1. CASE key = "description"
      BY <2>1 DEF SetField, ParsedAccessible
    <2>2. CASE key = "from"
      BY <2>2 DEF SetField, ParsedAccessible
    <2>3. CASE key = "to"
      BY <2>3 DEF SetField, ParsedAccessible
    <2>4. CASE key = "path"
      BY <2>4 DEF SetField, ParsedAccessible
    <2> QED
      BY <1>1, <2>1, <2>2, <2>3, <2>4 DEF IsAccessibleField
  <1>2. ASSUME NEW r \in ParsedExport, IsExportField(key, value)
        PROVE  SetField(r, key, value) \in ParsedExport
    <2>1. CASE key \in {"title", "description", "media_scan", "add_to_downloads"}
      BY <2>1 DEF SetField, ParsedExport
    <2>2. CASE key = "source"
      BY <2>2 DEF SetField, ParsedExport
    <2>3. CASE key = "target"
      BY <2>3 DEF SetField, ParsedExport
    <2>4. CASE key = "allow_child"
      BY <2>4 DEF SetField, ParsedExport
    <2> QED
      BY <1>2, <2>1, <2>2, <2>3, <2>4 DEF IsExportField
  <1> QED
    BY <1>1, <1>2

LEMMA ListsNext ==
  ASSUME Inv, Fields, Current(accessible, "accessible"), Current(exports, "export"),
         NEW l \in Line, text' = Append(text, l), ALine(l)
  PROVE  /\ Fields' /\ Current(accessible, "accessible")' /\ Current(exports, "export")'
         /\ DOMAIN accessible \subseteq DOMAIN accessible'
         /\ \A k \in DOMAIN accessible :
              accessible'[k] = accessible[k] \/ (ReadAccessible(l) /\ k = Len(accessible))
         /\ ReadAccessible(l) =>
              /\ Len(accessible) \in DOMAIN accessible'
              /\ accessible'[Len(accessible)] =
                   SetField(accessible[Len(accessible)], l.key, l.value)
         /\ DOMAIN exports \subseteq DOMAIN exports'
         /\ \A k \in DOMAIN exports :
              exports'[k] = exports[k] \/ (ReadExport(l) /\ k = Len(exports))
         /\ ReadExport(l) =>
              /\ Len(exports) \in DOMAIN exports'
              /\ exports'[Len(exports)] = SetField(exports[Len(exports)], l.key, l.value)
  <1>1. /\ text \in Seq(Line) /\ accessible \in Seq(ParsedAccessible)
        /\ exports \in Seq(ParsedExport) /\ ThisLine \in Nat
    BY DEF Inv, TypeOK, Fields, ThisLine
  <1>2. CASE OpenSection(l)
    <2> DEFINE a == NewAccessible(l.name)
               e == NewExport(l.name)
    <2>1. l.is = "header" /\ l.name \in HeaderName /\ {"", "false"} \subseteq Value
      BY <1>2 DEF OpenSection, HeaderName, Value
    <2>2. a \in ParsedAccessible /\ e \in ParsedExport /\ a.name = l.name /\ e.name = l.name
      BY <1>1, <2>1 DEF NewAccessible, NewExport, ParsedAccessible, ParsedExport
    <2> HIDE DEF a, e
    <2>3. /\ accessible' = IF active' = "accessible" THEN Append(accessible, a) ELSE accessible
          /\ exports' = IF active' = "export" THEN Append(exports, e) ELSE exports
      BY <1>2 DEF OpenSection, a, e
    <2>4. Under(text', l.name, Len(text'))
      BY <1>1, <2>1, FileGrows
    <2>5. /\ Append(accessible, a) \in Seq(ParsedAccessible) /\ Append(accessible, a) # <<>>
          /\ Len(Append(accessible, a)) = Len(accessible) + 1
          /\ Append(accessible, a)[Len(accessible) + 1] = a
          /\ \A k \in DOMAIN accessible : Append(accessible, a)[k] = accessible[k]
          /\ DOMAIN Append(accessible, a) = DOMAIN accessible \cup {Len(accessible) + 1}
      BY <1>1, <2>2, AppendFacts
    <2>6. /\ Append(exports, e) \in Seq(ParsedExport) /\ Append(exports, e) # <<>>
          /\ Len(Append(exports, e)) = Len(exports) + 1
          /\ Append(exports, e)[Len(exports) + 1] = e
          /\ \A k \in DOMAIN exports : Append(exports, e)[k] = exports[k]
          /\ DOMAIN Append(exports, e) = DOMAIN exports \cup {Len(exports) + 1}
      BY <1>1, <2>2, AppendFacts
    <2>7. ~ReadAccessible(l) /\ ~ReadExport(l)
      BY <2>1 DEF ReadAccessible, ReadExport, TakesAccessible, TakesExport
    <2>8. Fields' /\ Current(accessible, "accessible")' /\ Current(exports, "export")'
      BY <1>1, <2>2, <2>3, <2>4, <2>5, <2>6 DEF Fields, Current
    <2>9. /\ DOMAIN accessible \subseteq DOMAIN accessible'
          /\ \A k \in DOMAIN accessible : accessible'[k] = accessible[k]
      BY <2>3, <2>5
    <2>10. /\ DOMAIN exports \subseteq DOMAIN exports'
           /\ \A k \in DOMAIN exports : exports'[k] = exports[k]
      BY <2>3, <2>6
    <2> QED
      BY <2>7, <2>8, <2>9, <2>10
  <1>3. CASE ReadAccessible(l)
    <2> DEFINE n == Len(accessible)
               a == SetField(accessible[n], l.key, l.value)
    <2>1. n \in DOMAIN accessible /\ accessible[n] \in ParsedAccessible
      BY <1>1, <1>3 DEF Current, ReadAccessible, TakesAccessible
    <2>2. l.value \in Value /\ l.is # "header" /\ IsAccessibleField(l.key)
      BY <1>3 DEF ReadAccessible, TakesAccessible, Value
    <2>3. a \in ParsedAccessible
      BY <2>1, <2>2, FieldTyped
    <2>4. a.name = accessible[n].name
      BY <2>1, <2>2 DEF SetField, IsAccessibleField, ParsedAccessible
    <2>5. /\ accessible' = [accessible EXCEPT ![n] = a] /\ exports' = exports
          /\ active' = active /\ active = "accessible"
      BY <1>3 DEF ReadAccessible, TakesAccessible
    <2>6. ~ReadExport(l)
      BY <2>5 DEF ReadExport, TakesExport
    <2> HIDE DEF a
    <2>7. /\ accessible' \in Seq(ParsedAccessible) /\ Len(accessible') = n
          /\ n \in DOMAIN accessible' /\ DOMAIN accessible' = DOMAIN accessible
          /\ \A k \in DOMAIN accessible : accessible'[k].name = accessible[k].name
          /\ \A k \in DOMAIN accessible : accessible'[k] = accessible[k] \/ k = n
          /\ accessible'[n] = a
      BY <1>1, <2>1, <2>3, <2>4, <2>5
    <2>8. Current(accessible, "accessible")'
      BY <1>1, <2>2, <2>5, <2>7, StaysCurrent DEF Current
    <2>9. Current(exports, "export")' /\ Fields'
      BY <1>1, <2>5, <2>7 DEF Current, Fields
    <2> QED
      BY <1>3, <2>5, <2>6, <2>7, <2>8, <2>9 DEF a
  <1>4. CASE ReadExport(l)
    <2> DEFINE n == Len(exports)
               e == SetField(exports[n], l.key, l.value)
    <2>1. n \in DOMAIN exports /\ exports[n] \in ParsedExport
      BY <1>1, <1>4 DEF Current, ReadExport, TakesExport
    <2>2. l.value \in Value /\ l.is # "header" /\ IsExportField(l.key, l.value)
      BY <1>4 DEF ReadExport, TakesExport, Value
    <2>3. e \in ParsedExport
      BY <2>1, <2>2, FieldTyped
    <2>4. e.name = exports[n].name
      BY <2>1, <2>2 DEF SetField, IsExportField, ParsedExport
    <2>5. /\ exports' = [exports EXCEPT ![n] = e] /\ accessible' = accessible
          /\ active' = active /\ active = "export"
      BY <1>4 DEF ReadExport, TakesExport
    <2>6. ~ReadAccessible(l)
      BY <2>5 DEF ReadAccessible, TakesAccessible
    <2> HIDE DEF e
    <2>7. /\ exports' \in Seq(ParsedExport) /\ Len(exports') = n
          /\ n \in DOMAIN exports' /\ DOMAIN exports' = DOMAIN exports
          /\ \A k \in DOMAIN exports : exports'[k].name = exports[k].name
          /\ \A k \in DOMAIN exports : exports'[k] = exports[k] \/ k = n
          /\ exports'[n] = e
      BY <1>1, <2>1, <2>3, <2>4, <2>5
    <2>8. Current(exports, "export")'
      BY <1>1, <2>2, <2>5, <2>7, StaysCurrent DEF Current
    <2>9. Current(accessible, "accessible")' /\ Fields'
      BY <1>1, <2>5, <2>7 DEF Current, Fields
    <2> QED
      BY <1>4, <2>5, <2>6, <2>7, <2>8, <2>9 DEF e
  <1>5. CASE ~OpenSection(l) /\ ~ReadAccessible(l) /\ ~ReadExport(l)
    <2>1. accessible' = accessible /\ exports' = exports
      BY <1>5 DEF ALine, RefuseSection, ReadOption, ReadRule, SkipLine, RefuseLine
    <2>2. active' = "none" \/ (active' = active /\ l.is # "header")
      BY <1>5 DEF ALine, RefuseSection, ReadOption, ReadRule, SkipLine, RefuseLine,
                  TakesOption, TakesRule
    <2>3. Current(accessible, "accessible")'
      BY <1>1, <2>1, <2>2, StaysCurrent DEF Current
    <2>4. Current(exports, "export")'
      BY <1>1, <2>1, <2>2, StaysCurrent DEF Current
    <2> QED
      BY <1>5, <2>1, <2>3, <2>4 DEF Fields
  <1> QED
    BY <1>2, <1>3, <1>4, <1>5
-----------------------------------------------------------------------------
(* A setting that no line has changed, or that this line has just made. *)
LEMMA OtherKeyStands ==
  ASSUME Inv, Fields, Current(accessible, "accessible"), Current(exports, "export"),
         NEW l \in Line, text' = Append(text, l), ALine(l),
         NEW name, NEW key, NEW value, Stands(name, key, value),
         ReadOption(l) /\ sections[Len(sections)].name = name
           => ~SameSetting(OptionKey(l), key),
         ReadAccessible(l) /\ accessible[Len(accessible)].name = name => l.key # key,
         ReadExport(l) /\ exports[Len(exports)].name = name => l.key # key
  PROVE  Stands(name, key, value)'
  <1>1. CASE \E k \in DOMAIN sections :
               sections[k].name = name /\ Holds(sections[k], key, value)
    <2>1. PICK k \in DOMAIN sections :
                 sections[k].name = name /\ Holds(sections[k], key, value)
      BY <1>1
    <2>2. k \in DOMAIN sections' /\ sections'[k].name = name
      BY <2>1, SectionsKept
    <2>3. sections \in Seq(ParsedSection) /\ sections[k] \in ParsedSection
      BY <2>1 DEF Inv, TypeOK
    <2>4. Holds(sections'[k], key, value)
      <3>1. CASE ReadOption(l)
        <4> DEFINE n == Len(sections)
                   s == SetOption(sections[n], OptionKey(l), l.value)
        <4>1. n \in DOMAIN sections /\ sections[n] \in ParsedSection
              /\ IsOption(OptionKey(l), l.value)
          BY <3>1, LastSection DEF ReadOption, TakesOption
        <4>2. ~SameSetting(OptionKey(l), key) /\ Holds(sections[n], key, value)
                => Holds(s, key, value)
          BY <4>1, OptionHolds
        <4>3. sections' = [sections EXCEPT ![n] = s]
          BY <3>1 DEF ReadOption
        <4> HIDE DEF s
        <4> QED
          BY <2>1, <2>3, <3>1, <4>1, <4>2, <4>3
      <3>2. CASE ReadRule(l)
        <4> DEFINE n == Len(sections)
                   q == Append(sections[n].rules, [rule |-> l.rule, line |-> ThisLine])
                   s == [sections[n] EXCEPT !.rules = q]
        <4>1. n \in DOMAIN sections /\ sections[n] \in ParsedSection
          BY <3>2, LastSection DEF ReadRule, TakesRule
        <4>2. /\ s.mode = sections[n].mode /\ s.enabled = sections[n].enabled
              /\ s.existing = sections[n].existing /\ s.dirs = sections[n].dirs
              /\ s.media = sections[n].media
          <5> HIDE DEF q
          <5> QED
            BY <4>1 DEF ParsedSection
        <4>3. sections' = [sections EXCEPT ![n] = s]
          BY <3>2 DEF ReadRule
        <4> HIDE DEF s, n
        <4>4. Holds(sections[n], key, value) => Holds(s, key, value)
          BY <4>2 DEF Holds
        <4> QED
          BY <2>1, <2>3, <4>1, <4>3, <4>4
      <3>3. CASE OpenSection(l)
        <4> DEFINE s == NewSection(l.name)
        <4> HIDE DEF s
        <4>1. sections' = sections \/ sections' = Append(sections, s)
          BY <3>3 DEF OpenSection, s
        <4>2. k \in 1 .. Len(sections) /\ Len(sections) \in Nat
          BY <2>3
        <4>3. Append(sections, s)[k] = sections[k]
          BY <2>3, <4>2
        <4>4. sections'[k] = sections[k]
          BY <4>1, <4>3
        <4> QED
          BY <2>1, <4>4
      <3>4. CASE sections' = sections
        BY <2>1, <3>4
      <3> QED
        BY <3>1, <3>2, <3>3, <3>4
           DEF ALine, RefuseSection, ReadAccessible, ReadExport, SkipLine, RefuseLine
    <2> QED
      BY <2>2, <2>4 DEF Stands
  <1>2. CASE \E k \in DOMAIN accessible : Fits(accessible[k], name, key, value)
    <2>1. PICK k \in DOMAIN accessible : Fits(accessible[k], name, key, value)
      BY <1>2
    <2>2. /\ k \in DOMAIN accessible'
          /\ accessible'[k] = accessible[k] \/ (ReadAccessible(l) /\ k = Len(accessible))
      BY <2>1, ListsNext
    <2>3. CASE ReadAccessible(l) /\ k = Len(accessible)
      <3>1. accessible'[k] = SetField(accessible[k], l.key, l.value)
        BY <2>3, ListsNext
      <3>2. accessible[k] \in ParsedAccessible
        BY <2>1 DEF Fields
      <3>3. l.key # key /\ l.key # "name"
        BY <2>1, <2>3 DEF Fits, ReadAccessible, TakesAccessible, IsAccessibleField
      <3>4. "name" \in DOMAIN accessible[k]
        BY <3>2 DEF ParsedAccessible
      <3>5. Fits(accessible'[k], name, key, value)
        BY <2>1, <3>1, <3>3, <3>4, FieldFacts DEF Fits
      <3> QED
        BY <2>2, <3>5 DEF Stands, Fits
    <2> QED
      BY <2>1, <2>2, <2>3 DEF Stands, Fits
  <1>3. CASE \E k \in DOMAIN exports : Fits(exports[k], name, key, value)
    <2>1. PICK k \in DOMAIN exports : Fits(exports[k], name, key, value)
      BY <1>3
    <2>2. /\ k \in DOMAIN exports'
          /\ exports'[k] = exports[k] \/ (ReadExport(l) /\ k = Len(exports))
      BY <2>1, ListsNext
    <2>3. CASE ReadExport(l) /\ k = Len(exports)
      <3>1. exports'[k] = SetField(exports[k], l.key, l.value)
        BY <2>3, ListsNext
      <3>2. exports[k] \in ParsedExport
        BY <2>1 DEF Fields
      <3>3. l.key # key /\ l.key # "name"
        BY <2>1, <2>3 DEF Fits, ReadExport, TakesExport, IsExportField
      <3>4. "name" \in DOMAIN exports[k]
        BY <3>2 DEF ParsedExport
      <3>5. Fits(exports'[k], name, key, value)
        BY <2>1, <3>1, <3>3, <3>4, FieldFacts DEF Fits
      <3> QED
        BY <2>2, <3>5 DEF Stands, Fits
    <2> QED
      BY <2>1, <2>2, <2>3 DEF Stands, Fits
  <1> QED
    BY <1>1, <1>2, <1>3, StandsFacts

(* The line that is read sets its key in the section it stands under. *)
LEMMA SettingStands ==
  ASSUME Inv, Fields, Current(accessible, "accessible"), Current(exports, "export"),
         NEW l \in Line, text' = Append(text, l),
         ReadOption(l) \/ ReadAccessible(l) \/ ReadExport(l),
         NEW h \in DOMAIN text, Heads(text, h, Len(text)), NEW name, name = text[h].name,
         active = KindOf(name), NEW key, key = Key(name, l), NEW value, value = l.value
  PROVE  Stands(name, key, value)'
  <1>1. ALine(l) /\ text \in Seq(Line)
    BY DEF ALine, Inv, TypeOK
  <1>2. CASE ReadOption(l)
    <2> DEFINE n == Len(sections)
               s == SetOption(sections[n], OptionKey(l), l.value)
    <2>1. active = "policy"
      BY <1>2 DEF ReadOption, TakesOption
    <2>2. n \in DOMAIN sections /\ sections[n] \in ParsedSection /\ sections[n].name = name
      BY <2>1, LastSection, PolicyName
    <2>3. s.name = name
      BY <1>2, <2>2, OptionFacts, TakenLine
    <2>4. key = OptionKey(l) /\ Holds(s, key, value)
      BY <1>2, <2>1, <2>2, OptionHolds DEF ReadOption, TakesOption, Key
    <2>5. sections' = [sections EXCEPT ![n] = s]
      BY <1>2 DEF ReadOption
    <2> HIDE DEF s, n
    <2>6. n \in DOMAIN sections' /\ sections'[n] = s
      BY <2>2, <2>5
    <2> QED
      BY <2>3, <2>4, <2>6 DEF Stands
  <1>3. CASE ReadAccessible(l)
    <2> DEFINE n == Len(accessible)
    <2>5. key = l.key
      BY <1>3 DEF ReadAccessible, TakesAccessible, Key
    <2>1. n \in DOMAIN accessible /\ accessible[n] \in ParsedAccessible /\ accessible[n].name = name
      BY <1>1, <1>3, OneHead DEF Current, Fields, ReadAccessible, TakesAccessible
    <2>2. n \in DOMAIN accessible' /\ accessible'[n] = SetField(accessible[n], l.key, l.value)
      BY <1>1, <1>3, ListsNext
    <2>3. "name" \in DOMAIN accessible[n] /\ l.key # "name"
      BY <1>3, <2>1 DEF ParsedAccessible, ReadAccessible, TakesAccessible, IsAccessibleField
    <2>4. Fits(accessible'[n], name, key, value)
      BY <2>1, <2>2, <2>3, <2>5, FieldFacts DEF Fits
    <2> QED
      BY <2>2, <2>4 DEF Stands, Fits
  <1>4. CASE ReadExport(l)
    <2> DEFINE n == Len(exports)
    <2>5. key = l.key
      BY <1>4 DEF ReadExport, TakesExport, Key
    <2>1. n \in DOMAIN exports /\ exports[n] \in ParsedExport /\ exports[n].name = name
      BY <1>1, <1>4, OneHead DEF Current, Fields, ReadExport, TakesExport
    <2>2. n \in DOMAIN exports' /\ exports'[n] = SetField(exports[n], l.key, l.value)
      BY <1>1, <1>4, ListsNext
    <2>3. "name" \in DOMAIN exports[n] /\ l.key # "name"
      BY <1>4, <2>1 DEF ParsedExport, ReadExport, TakesExport, IsExportField
    <2>4. Fits(exports'[n], name, key, value)
      BY <2>1, <2>2, <2>3, <2>5, FieldFacts DEF Fits
    <2> QED
      BY <2>2, <2>4 DEF Stands, Fits
  <1> QED
    BY <1>2, <1>3, <1>4

LEMMA LastCountsNext ==
  ASSUME Inv, Fields, Current(accessible, "accessible"), Current(exports, "export"),
         HeadersOpen, LastCounts, NEW l \in Line, text' = Append(text, l), ALine(l)
  PROVE  LastCounts'
  <1> SUFFICES ASSUME errors' = <<>>, NEW h \in DOMAIN text', NEW i \in DOMAIN text',
                      Heads(text', h, i), LastOf(text', h, i),
                      NEW name, name = text'[h].name, NEW key, key = Key(name, text'[i]),
                      NEW value, value = text'[i].value
               PROVE  Stands(name, key, value)'
    BY DEF LastCounts
  <1>1. errors = <<>> /\ ~RefuseSection(l) /\ ~RefuseLine(l)
    BY NoErrorYet
  <1>2. /\ text \in Seq(Line) /\ Len(text') = Len(text) + 1 /\ text'[Len(text) + 1] = l
        /\ \A j \in DOMAIN text : text'[j] = text[j]
        /\ DOMAIN text' = DOMAIN text \cup {Len(text) + 1}
        /\ DOMAIN text = 1 .. Len(text) /\ Len(text) \in Nat
    BY FileGrows, HeadsBack DEF Inv, TypeOK
  <1>3. CASE i \in DOMAIN text
    <2>1. h \in DOMAIN text /\ Heads(text, h, i)
      BY <1>2, <1>3, HeadsBack
    <2>2. name = text[h].name /\ key = Key(name, text[i]) /\ value = text[i].value
      BY <1>2, <1>3, <2>1
    <2>3. LastOf(text, h, i)
      <3>1. \A j \in i + 1 .. Len(text) :
              j \in DOMAIN text /\ j \in i + 1 .. Len(text') /\ text'[j] = text[j]
        BY <1>2, <1>3
      <3>2. \A j \in DOMAIN text : Heads(text, h, j) => Heads(text', h, j)
        BY <1>2, <2>1, HeadsBack
      <3> QED
        BY <1>2, <1>3, <2>1, <2>2, <3>1, <3>2 DEF LastOf
    <2>4. Stands(name, key, value)
      BY <1>1, <1>3, <2>1, <2>2, <2>3 DEF LastCounts
    <2>5. ASSUME l.is # "header", NEW other, other = name, Under(text, other, Len(text))
          PROVE  /\ active = KindOf(name)
                 /\ IsSetting(name, l) => ~SameSetting(Key(name, l), key)
      <3>1. PICK g \in DOMAIN text : Heads(text, g, Len(text)) /\ text[g].name = name
        BY <2>5 DEF Under
      <3>2. g = h /\ active = KindOf(name)
        BY <1>1, <2>1, <2>2, <3>1 DEF HeadersOpen, Heads
      <3>3. Heads(text', h, Len(text) + 1)
        BY <1>2, <2>5, <3>1, <3>2, HeadsBack
      <3>4. Len(text) + 1 \in i + 1 .. Len(text')
        BY <1>2, <1>3
      <3> QED
        BY <1>2, <2>2, <3>2, <3>3, <3>4, <1>3 DEF LastOf
    <2>6. ReadOption(l) /\ sections[Len(sections)].name = name => ~SameSetting(OptionKey(l), key)
      BY <2>5 DEF ReadOption, TakesOption, Inv, CurrentPolicy, IsSetting, Misread, Key
    <2>7. ReadAccessible(l) /\ accessible[Len(accessible)].name = name => l.key # key
      BY <2>5 DEF ReadAccessible, TakesAccessible, Current, IsSetting, Misread, Key, SameSetting
    <2>8. ReadExport(l) /\ exports[Len(exports)].name = name => l.key # key
      BY <2>5 DEF ReadExport, TakesExport, Current, IsSetting, Misread, Key, SameSetting
    <2> QED
      BY <2>4, <2>6, <2>7, <2>8, OtherKeyStands
  <1>4. CASE i = Len(text) + 1
    <2>1. IsSetting(name, l) /\ key = Key(name, l) /\ value = l.value /\ l.is # "header"
      BY <1>2, <1>4 DEF LastOf, IsSetting, Misread
    <2>2. h \in DOMAIN text /\ Heads(text, h, Len(text)) /\ name = text[h].name
      BY <1>2, <1>4, <2>1, HeadsBack
    <2>3. active = KindOf(name)
      BY <1>1, <2>2 DEF HeadersOpen
    <2>4. ReadOption(l) \/ ReadAccessible(l) \/ ReadExport(l)
      BY <1>1, <2>1, <2>3 DEF ALine, IsSetting, Misread, OpenSection, ReadRule, TakesRule, SkipLine
    <2> QED
      BY <2>1, <2>2, <2>3, <2>4, SettingStands
  <1> QED
    BY <1>2, <1>3, <1>4

LEMMA MeaningInit == Init => Meaning
  <1> SUFFICES ASSUME Init PROVE Meaning
    OBVIOUS
  <1> USE DEF Init
  <1>1. <<>> \in Seq(ParsedAccessible) /\ <<>> \in Seq(ParsedExport) /\ DOMAIN text = {}
    OBVIOUS
  <1> QED
    BY <1>1 DEF Meaning, Fields, Current, HeadersOpen, RulesKept, LastCounts

LEMMA MeaningNext == Inv /\ Meaning /\ [Next]_vars => Meaning'
  <1> SUFFICES ASSUME Inv, Meaning, [Next]_vars PROVE Meaning'
    OBVIOUS
  <1>1. CASE ReadLine
    <2>1. PICK l \in Line : text' = Append(text, l) /\ ALine(l)
      BY <1>1 DEF ReadLine, ALine
    <2>2. Fields' /\ Current(accessible, "accessible")' /\ Current(exports, "export")'
      BY <2>1, ListsNext DEF Meaning
    <2> QED
      BY <2>1, <2>2, HeadersOpenNext, RulesKeptNext, LastCountsNext DEF Meaning
  <1>2. CASE EndOfFile \/ UNCHANGED vars
    <2>1. /\ UNCHANGED <<text, active, names, sections, accessible, exports>>
          /\ errors' = <<>> => errors = <<>>
      <3>1. Append(errors, 0) # <<>>
        BY AppendFacts DEF Inv, TypeOK
      <3> QED
        BY <1>2, <3>1 DEF EndOfFile, vars
    <2>2. Fields' /\ Current(accessible, "accessible")' /\ Current(exports, "export")'
      BY <2>1 DEF Meaning, Fields, Current
    <2>3. HeadersOpen'
      BY <2>1 DEF Meaning, HeadersOpen
    <2>4. RulesKept'
      BY <2>1 DEF Meaning, RulesKept, Kept
    <2>5. LastCounts'
      BY <2>1 DEF Meaning, LastCounts, Stands
    <2> QED
      BY <2>2, <2>3, <2>4, <2>5 DEF Meaning
  <1> QED
    BY <1>1, <1>2 DEF Next

(* FileMeansWhatItSays: a file that is read without an error has every     *)
(* rule that is written and not taken for a setting, under the name of its *)
(* header and in the order of the lines, and of several lines read as the  *)
(* same setting of a section the last one counts, whatever the lines and   *)
(* their number.                                                           *)
THEOREM FileRead == Spec => []FileMeansWhatItSays
  <1>1. Meaning => FileMeansWhatItSays
    BY DEF Meaning, RulesKept, LastCounts, LastOf, FileMeansWhatItSays
  <1> QED
    BY <1>1, InvInit, InvNext, MeaningInit, MeaningNext, PTL DEF Spec
-----------------------------------------------------------------------------
(***************************************************************************)
(* The comparator BuildDynamicRuleSet gives to std::sort, for rules of any *)
(* length, name and kind: it is the strict weak order that std::sort       *)
(* requires, it ties only rules of the same path, and the rule that a      *)
(* sorted list yields first is the one with the deepest path.              *)
(***************************************************************************)

(* A set of numbers has a least one. *)
LEMMA LeastNat ==
  ASSUME NEW S, S \subseteq Nat, S # {}
  PROVE  \E n \in S : \A m \in S : n <= m
  <1> DEFINE R == OpToRel(<, Nat)
  <1>1. IsWellFoundedOn(R, Nat)
    BY NatLessThanWellFounded
  <1>2. PICK n \in S : \A m \in S : <<m, n>> \notin R
    BY <1>1, WFMin
  <1>3. ASSUME NEW m \in S
        PROVE  n <= m
    <2>1. ~(m < n)
      BY <1>2, <1>3 DEF OpToRel
    <2> QED
      BY <2>1, <1>3
  <1> QED
    BY <1>3

(* Of two directories above one path, the shorter is a prefix of the longer. *)
LEMMA PrefixesNest ==
  ASSUME NEW S, NEW p \in Seq(S), NEW r \in Seq(S), NEW s \in Seq(S),
         IsPrefix(r, p), IsPrefix(s, p), Len(r) < Len(s)
  PROVE  IsPrefix(r, s)
  <1>1. \A i \in 1 .. Len(r) : r[i] = p[i]
    BY DEF IsPrefix
  <1>2. \A i \in 1 .. Len(s) : s[i] = p[i]
    BY DEF IsPrefix
  <1>3. SubSeq(s, 1, Len(r)) \in Seq(S) /\ Len(SubSeq(s, 1, Len(r))) = Len(r)
    OBVIOUS
  <1>4. \A i \in 1 .. Len(r) : SubSeq(s, 1, Len(r))[i] = s[i]
    OBVIOUS
  <1>5. SubSeq(s, 1, Len(r)) = r
    BY <1>1, <1>2, <1>3, <1>4
  <1> QED
    BY <1>5 DEF IsPrefix
-----------------------------------------------------------------------------
(* What a compiled rule is, as far as the comparator looks at it. *)
Sortable(r) ==
  /\ r.size \in Nat /\ r.lex \in Int
  /\ r.kind \in {"file", "directory", "glob", "path_glob"}

Ties(l, r) == ~Before(l, r) /\ ~Before(r, l)

LEMMA GlobRankType == \A r : GlobRank(r) \in 0 .. 2
  BY DEF GlobRank

LEMMA GlobRankInt == \A r : GlobRank(r) \in Int
  BY GlobRankType

(* std::sort's first requirement: no rule comes before itself. *)
THEOREM BeforeIrreflexive == \A r : Sortable(r) => ~Before(r, r)
  BY GlobRankInt DEF Sortable, Before

(* The second: the comparator is transitive. *)
THEOREM BeforeTransitive ==
  \A q, r, s : Sortable(q) /\ Sortable(r) /\ Sortable(s) /\ Before(q, r) /\ Before(r, s)
    => Before(q, s)
  <1> SUFFICES ASSUME NEW q, NEW r, NEW s, Sortable(q), Sortable(r), Sortable(s),
                      Before(q, r), Before(r, s)
               PROVE  Before(q, s)
    OBVIOUS
  <1> DEFINE g(x) == GlobRank(x)
             f(x) == IsFile(x)
             t(x) == x.types = AnyType
  <1>1. g(q) \in Int /\ g(r) \in Int /\ g(s) \in Int
    BY GlobRankInt
  <1>2. f(q) \in BOOLEAN /\ f(r) \in BOOLEAN /\ f(s) \in BOOLEAN
    BY DEF IsFile
  <1>3. \A x, y : Before(x, y) <=>
          \/ x.size > y.size
          \/ /\ x.size = y.size
             /\ \/ f(x) /\ ~f(y)
                \/ /\ f(x) = f(y)
                   /\ \/ g(x) > g(y)
                      \/ /\ g(x) = g(y)
                         /\ \/ ~t(x) /\ t(y)
                            \/ t(x) = t(y) /\ x.lex < y.lex
    BY DEF Before
  <1>4. t(q) \in BOOLEAN /\ t(r) \in BOOLEAN /\ t(s) \in BOOLEAN
    OBVIOUS
  <1> HIDE DEF g, f, t
  <1> QED
    BY <1>1, <1>2, <1>3, <1>4 DEF Sortable

(* Rules that tie have sources of the same name: ties arise only between   *)
(* the rules of one path, and which of them is first is left to std::sort. *)
THEOREM TiesHaveOneName ==
  \A r, s : Sortable(r) /\ Sortable(s) /\ Ties(r, s)
    => r.lex = s.lex /\ r.size = s.size /\ IsFile(r) = IsFile(s)
         /\ (r.types = AnyType <=> s.types = AnyType)
  BY GlobRankInt DEF Sortable, Ties, Before, IsFile

LEMMA TiesOfEquals ==
  \A r, s : Sortable(r) /\ Sortable(s) /\ r.lex = s.lex /\ r.size = s.size
             /\ IsFile(r) = IsFile(s) /\ (r.types = AnyType <=> s.types = AnyType)
             /\ GlobRank(r) = GlobRank(s)
    => Ties(r, s)
  <1> SUFFICES ASSUME NEW r, NEW s, Sortable(r), Sortable(s), r.lex = s.lex, r.size = s.size,
                      IsFile(r) = IsFile(s), r.types = AnyType <=> s.types = AnyType,
                      GlobRank(r) = GlobRank(s)
               PROVE  Ties(r, s)
    OBVIOUS
  <1>1. GlobRank(r) \in Int
    BY GlobRankInt
  <1>2. ~Before(r, s)
    BY <1>1 DEF Before, Sortable
  <1>3. ~Before(s, r)
    BY <1>1 DEF Before, Sortable
  <1> QED
    BY <1>2, <1>3 DEF Ties

(* The third: what ties with the same rule ties with each other. *)
THEOREM TiesTransitive ==
  \A q, r, s : Sortable(q) /\ Sortable(r) /\ Sortable(s) /\ Ties(q, r) /\ Ties(r, s)
    => Ties(q, s)
  <1> SUFFICES ASSUME NEW q, NEW r, NEW s, Sortable(q), Sortable(r), Sortable(s),
                      Ties(q, r), Ties(r, s)
               PROVE  Ties(q, s)
    OBVIOUS
  <1>1. q.lex = s.lex /\ q.size = s.size /\ IsFile(q) = IsFile(s)
          /\ (q.types = AnyType <=> s.types = AnyType)
    BY TiesHaveOneName
  <1>2. \A x, y : Sortable(x) /\ Sortable(y) /\ Ties(x, y) => GlobRank(x) = GlobRank(y)
    BY GlobRankInt DEF Sortable, Ties, Before, IsFile
  <1>3. GlobRank(q) = GlobRank(s)
    BY <1>2
  <1> QED
    BY <1>1, <1>3, TiesOfEquals
-----------------------------------------------------------------------------
(* The first match of a sorted list has the deepest path of the rules that *)
(* name the file or a directory above it: FindDynamicRule and              *)
(* FindDeleteRule let the longer path win, whatever the number and order   *)
(* of the rules.  What is asked of the lengths is that a path without      *)
(* wildcards is longer, as a string, than the directories above it.        *)
THEOREM ForemostIsDeepest ==
  ASSUME NEW S, NEW all, NEW path \in Seq(S),
         \A r \in all : Sortable(r) /\ r.path \in Seq(S),
         \A r, s \in all :
           /\ {r.kind, s.kind} \subseteq {"file", "directory"}
           /\ IsPrefix(r.path, s.path) /\ Len(r.path) < Len(s.path)
           => r.size < s.size,
         NEW r \in Foremost(Matching(all, path)), r.kind \in {"file", "directory"},
         NEW s \in Matching(all, path), s.kind \in {"file", "directory"}
  PROVE  Len(s.path) <= Len(r.path)
  <1>1. r \in all /\ s \in all /\ ~Before(s, r)
    BY DEF Foremost, Matching
  <1>2. IsPrefix(r.path, path) /\ IsPrefix(s.path, path)
    <2>1. IsPrefix(path, path)
      BY DEF IsPrefix
    <2>2. MatchesPath(r, path) /\ MatchesPath(s, path)
      BY DEF Foremost, Matching
    <2> QED
      BY <2>1, <2>2 DEF MatchesPath
  <1>3. SUFFICES ASSUME Len(r.path) < Len(s.path) PROVE FALSE
    BY <1>1
  <1>4. IsPrefix(r.path, s.path)
    BY <1>1, <1>2, <1>3, PrefixesNest
  <1>5. r.size < s.size
    BY <1>1, <1>3, <1>4
  <1> QED
    BY <1>1, <1>5 DEF Before, Sortable

(* Of the rules on one path those with a filter come first: a catch-all    *)
(* never hides one, whichever is written first in rules.ini.               *)
THEOREM ForemostIsFiltered ==
  ASSUME NEW all, NEW path, \A r \in all : Sortable(r),
         NEW r \in Foremost(Matching(all, path)), NEW s \in Matching(all, path),
         s.size = r.size, s.kind = r.kind, s.types # AnyType
  PROVE  r.types # AnyType
  <1>1. r \in all /\ s \in all /\ ~Before(s, r)
    BY DEF Foremost, Matching
  <1>2. IsFile(s) = IsFile(r) /\ GlobRank(s) = GlobRank(r)
    BY DEF IsFile, GlobRank
  <1>3. GlobRank(r) \in Int
    BY GlobRankInt
  <1> QED
    BY <1>1, <1>2, <1>3 DEF Before, Sortable
-----------------------------------------------------------------------------
(* Each section of a package is opened once. *)
OpenedOnce ==
  /\ \A k \in DOMAIN sections : sections[k].name \in names /\ Len(sections[k].name) = 1
  /\ \A j, k \in DOMAIN sections : sections[j].name = sections[k].name => j = k

LEMMA OpenedOnceNext == Inv /\ OpenedOnce /\ [Next]_vars => OpenedOnce'
  <1> SUFFICES ASSUME Inv, OpenedOnce, [Next]_vars PROVE OpenedOnce'
    OBVIOUS
  <1>1. sections \in Seq(ParsedSection)
    BY DEF Inv, TypeOK
  <1>2. CASE ReadLine
    <2>1. PICK l \in Line : ALine(l)
      BY <1>2 DEF ReadLine, ALine
    <2>2. \A k \in DOMAIN sections : k \in DOMAIN sections' /\ sections'[k].name = sections[k].name
      BY <2>1, SectionsKept
    <2>3. CASE DOMAIN sections' = DOMAIN sections
      <3>1. names \subseteq names'
        BY <2>1 DEF ALine, RefuseSection, OpenSection, ReadOption, ReadRule, ReadAccessible,
                    ReadExport, SkipLine, RefuseLine
      <3> QED
        BY <2>2, <2>3, <3>1 DEF OpenedOnce
    <2>4. CASE OpenSection(l) /\ KindOf(l.name) = "policy"
      <3> DEFINE s == NewSection(l.name)
      <3>1. sections' = Append(sections, s) /\ names' = names \cup {l.name} /\ l.name \notin names
        BY <2>4 DEF OpenSection
      <3>2. s.name = l.name
        BY DEF NewSection
      <3>3. Len(l.name) = 1
        BY <2>4, LineAssumption DEF OpenSection, KindOf
      <3> HIDE DEF s
      <3>4. DOMAIN sections' = DOMAIN sections \cup {Len(sections) + 1}
            /\ sections'[Len(sections) + 1] = s
        BY <1>1, <3>1
      <3> QED
        BY <2>2, <3>1, <3>2, <3>3, <3>4 DEF OpenedOnce
    <2>5. CASE ReadOption(l) \/ ReadRule(l)
      <3>1. DOMAIN sections' = DOMAIN sections
        BY <1>1, <2>5 DEF ReadOption, ReadRule
      <3> QED
        BY <2>3, <3>1
    <2>6. CASE sections' = sections
      BY <2>3, <2>6
    <2> QED
      BY <2>1, <2>4, <2>5, <2>6
         DEF ALine, RefuseSection, OpenSection, ReadAccessible, ReadExport, SkipLine, RefuseLine
  <1>3. CASE EndOfFile \/ UNCHANGED vars
    BY <1>3 DEF EndOfFile, vars, OpenedOnce
  <1> QED
    BY <1>2, <1>3 DEF Next

LEMMA OpenedOnceInit == Init => OpenedOnce
  BY DEF Init, OpenedOnce
-----------------------------------------------------------------------------
(* What the daemon makes of the sections. *)
LEMMA ConfigFacts ==
  /\ Config.parses = Accepted /\ DOMAIN Config.sections = DOMAIN sections
  /\ \A k \in DOMAIN sections :
       /\ Config.sections[k].package = sections[k].name[1]
       /\ Config.sections[k].enabled = sections[k].enabled
       /\ Config.sections[k].rules = Rules(sections[k])
  BY DEF Config

(* Two rules are alike in what decides which of them is taken. *)
Alike(r, q) ==
  /\ r.action = q.action /\ r.kind = q.kind /\ r.path = q.path /\ r.match = q.match
  /\ r.types = q.types /\ r.size = q.size /\ r.lex = q.lex

LEMMA AlikeMatch ==
  ASSUME NEW r, NEW q, Alike(r, q), NEW path
  PROVE  /\ MatchesPath(r, path) <=> MatchesPath(q, path)
         /\ MatchesTypeFilter(r, path) <=> MatchesTypeFilter(q, path)
  BY DEF Alike, MatchesPath, MatchesTypeFilter

LEMMA SourceAlike ==
  ASSUME NEW q \in SourceRule, NEW line \in Nat
  PROVE  LET r == [q EXCEPT !.line = line] IN
         /\ Alike(r, q) /\ r.line = line
         /\ \A dirs : Alike([r EXCEPT !.dirs = dirs], q)
  <1> DEFINE r == [q EXCEPT !.line = line]
  <1>1. r \in SourceRule /\ Alike(r, q) /\ r.line = line
    BY DEF SourceRule, Alike
  <1> HIDE DEF r
  <1>2. ASSUME NEW dirs PROVE Alike([r EXCEPT !.dirs = dirs], q)
    <2> DEFINE t == [r EXCEPT !.dirs = dirs]
    <2>1. Alike(t, r)
      BY <1>1 DEF SourceRule, Alike
    <2> HIDE DEF t
    <2>2. Alike(t, q)
      BY <1>1, <2>1 DEF Alike
    <2> QED
      BY <2>2 DEF t
  <1> QED
    BY <1>1, <1>2 DEF r

(* A rule of a section is one of the file's, with its line. *)
LEMMA SectionRule ==
  ASSUME Inv, NEW k \in DOMAIN sections
  PROVE  /\ DOMAIN Rules(sections[k]) = DOMAIN sections[k].rules
         /\ \A n \in DOMAIN sections[k].rules :
              LET p == sections[k].rules[n] IN
              /\ p.rule \in Source /\ p.rule \in SourceRule /\ p.line \in Nat
              /\ Rules(sections[k])[n] = [p.rule EXCEPT !.line = p.line]
  <1>1. sections[k].rules \in Seq(ParsedRuleLine)
    <2>1. sections[k] \in ParsedSection
      BY DEF Inv, TypeOK
    <2> QED
      BY <2>1 DEF ParsedSection
  <1>2. ASSUME NEW n \in DOMAIN sections[k].rules
        PROVE  /\ sections[k].rules[n].rule \in Source /\ sections[k].rules[n].line \in Nat
    <2>1. sections[k].rules[n] \in ParsedRuleLine
      BY <1>1
    <2> QED
      BY <2>1 DEF ParsedRuleLine, Source
  <1>3. Source \subseteq SourceRule
    BY SourceFact DEF SourceAssumption
  <1> QED
    BY <1>2, <1>3 DEF Rules

(* The section whose rules a section brings into the set. *)
LEMMA PolicyIs ==
  ASSUME Inv, Builds(Config), NEW i \in DOMAIN sections
  PROVE  \E j \in DOMAIN sections :
           /\ j \in Covering(Config, sections[i].name[1])
           /\ Policy(Config, i) = Config.sections[j]
  <1> DEFINE c == Covering(Config, Config.sections[i].package)
  <1>1. DOMAIN sections \subseteq Nat
    BY DEF Inv, TypeOK
  <1>2. c # {} /\ c \subseteq DOMAIN sections
    BY ConfigFacts DEF Builds, Covering
  <1> HIDE DEF c
  <1>3. \E j \in c : \A k \in c : j <= k
    BY <1>1, <1>2, LeastNat
  <1> DEFINE j == CHOOSE j \in c : \A k \in c : j <= k
  <1>4. j \in c
    BY <1>3
  <1>5. Policy(Config, i) = Config.sections[j]
    BY DEF Policy, c
  <1> HIDE DEF j
  <1> QED
    BY <1>2, <1>4, <1>5, ConfigFacts DEF c

(* The daemon's rules are those of the file. *)
LEMMA LoadedAlike ==
  ASSUME Inv, Builds(Config), NEW package, NEW r \in RulesOf(Config, package, "dynamic")
  PROVE  \E q \in Source : q \in SourceRule /\ Alike(r, q)
  <1>1. PICK i \in PoliciesOf(Config, package) : \E p \in SeqRange(Policy(Config, i).rules) :
          r = [p EXCEPT !.dirs = Policy(Config, i).dirs]
    BY DEF RulesOf
  <1>2. i \in DOMAIN sections
    BY ConfigFacts DEF PoliciesOf
  <1>3. PICK j \in DOMAIN sections : Policy(Config, i) = Config.sections[j]
    BY <1>2, PolicyIs
  <1> DEFINE all == Rules(sections[j])
             dirs == Policy(Config, i).dirs
  <1>4. PICK p \in SeqRange(all) : r = [p EXCEPT !.dirs = dirs]
    BY <1>1, <1>3, ConfigFacts
  <1>5. PICK n \in DOMAIN sections[j].rules : p = all[n]
    BY <1>4, SectionRule DEF SeqRange
  <1> DEFINE q == sections[j].rules[n].rule
             line == sections[j].rules[n].line
  <1>6. q \in Source /\ q \in SourceRule /\ line \in Nat /\ p = [q EXCEPT !.line = line]
    BY <1>5, SectionRule
  <1> HIDE DEF q, line, all, dirs
  <1>7. Alike(r, q)
    BY <1>4, <1>6, SourceAlike
  <1> QED
    BY <1>6, <1>7

(* A redirection that is written is loaded, and under its own package: no  *)
(* other section covers the name of an application, and none has it twice. *)
LEMMA WrittenLoaded ==
  ASSUME Inv, Meaning, OpenedOnce, Accepted, Builds(Config), NEW package,
         IsApplication(package), NEW s \in Written(package)
  PROVE  /\ \E q \in Source : q \in SourceRule /\ Alike(s, q)
         /\ \E r \in RulesOf(Config, package, "dynamic") : Alike(r, s)
  <1>1. PICK i \in DOMAIN text :
          /\ text[i].is = "redirect" /\ text[i].rule.action = "dynamic"
          /\ ~Misread(<<package>>, text[i])
          /\ Under(text, <<package>>, i) /\ s = [text[i].rule EXCEPT !.line = i]
    BY DEF Written
  <1> DEFINE q == text[i].rule
  <1>2. text \in Seq(Line) /\ text[i] \in Line /\ IsRule(text[i]) /\ i \in Nat
    BY <1>1 DEF Inv, TypeOK, IsRule
  <1>3. q \in Source /\ q \in SourceRule
    BY <1>2, SourceFact DEF Source, SourceAssumption
  <1>4. PICK k \in DOMAIN sections : \E n \in DOMAIN sections[k].rules :
          sections[k].name = <<package>> /\ sections[k].rules[n].line = i
    <2>1. PICK h \in DOMAIN text : Heads(text, h, i) /\ text[h].name = <<package>>
      BY <1>1 DEF Under
    <2>2. errors = <<>>
      BY DEF Accepted
    <2>3. Kept(<<package>>, i)
      BY <1>1, <1>2, <2>1, <2>2 DEF Meaning, RulesKept
    <2> QED
      BY <2>3 DEF Kept
  <1>5. PICK n \in DOMAIN sections[k].rules : sections[k].rules[n].line = i
    BY <1>4
  <1>6. sections[k].rules[n].rule = q /\ sections[k].name[1] = package
    <2>1. Placed(text, sections[k].rules[n], sections[k].name)
      BY <1>5 DEF Inv, RulesStayInTheirSection
    <2> QED
      BY <1>4, <1>5, <2>1 DEF Placed
  <1>7. Policy(Config, k) = Config.sections[k]
    <2>1. PICK j \in DOMAIN sections : /\ j \in Covering(Config, package)
                                       /\ Policy(Config, k) = Config.sections[j]
      BY <1>6, PolicyIs
    <2>2. sections[j].name[1] = package
      <3>1. IsProcessMatch(sections[j].name[1], package)
        BY <2>1, ConfigFacts DEF Covering
      <3> DEFINE pair == <<sections[j].name[1], package>>
      <3>2. pair[2] = package
        OBVIOUS
      <3>3. pair \notin SubProcess
        <4> HIDE DEF pair
        <4> QED
          BY <3>2 DEF IsApplication
      <3> QED
        BY <3>1, <3>3 DEF IsProcessMatch
    <2>3. sections[j].name = <<package>>
      <3>1. sections[j].name \in HeaderName /\ Len(sections[j].name) = 1
        <4>1. sections[j] \in ParsedSection
          BY DEF Inv, TypeOK
        <4> QED
          BY <4>1 DEF ParsedSection, HeaderName, OpenedOnce
      <3>2. sections[j].name # <<>>
        <4>1. Len(<<>>) = 0
          OBVIOUS
        <4>2. \A x : Len(x) = 1 => x # <<>>
          BY <4>1
        <4> QED
          BY <3>1, <4>2
      <3>3. sections[j].name \in Seq(STRING)
        BY <3>1, <3>2, LineAssumption DEF HeaderName
      <3> QED
        BY <2>2, <3>1, <3>3
    <2>4. j = k
      BY <1>4, <2>3 DEF OpenedOnce
    <2> QED
      BY <2>1, <2>4
  <1> DEFINE line == i
             p == [q EXCEPT !.line = line]
             dirs == Policy(Config, k).dirs
             r == [p EXCEPT !.dirs = dirs]
  <1>8. s = p
    BY <1>1
  <1> HIDE DEF q
  <1>9. Alike(p, q) /\ Alike(r, q)
    BY <1>2, <1>3, SourceAlike
  <1>10. p \in SeqRange(Policy(Config, k).rules)
    BY <1>5, <1>6, <1>7, ConfigFacts, SectionRule DEF SeqRange
  <1>11. p.action = "dynamic"
    BY <1>1, <1>9 DEF Alike, q
  <1>12. k \in PoliciesOf(Config, package)
    BY <1>6, <1>7, ConfigFacts DEF PoliciesOf
  <1>13. r \in RulesOf(Config, package, "dynamic")
    <2> DEFINE mine == {x \in SeqRange(Policy(Config, k).rules) : x.action = "dynamic"}
    <2> HIDE DEF p, dirs
    <2>1. p \in mine
      BY <1>10, <1>11
    <2>2. r \in {[x EXCEPT !.dirs = dirs] : x \in mine}
      BY <2>1
    <2> QED
      BY <1>12, <2>2 DEF RulesOf, dirs
  <1> HIDE DEF p, r
  <1>14. Alike(r, s)
    BY <1>8, <1>9 DEF Alike
  <1> QED
    BY <1>3, <1>8, <1>9, <1>13, <1>14

(* The rule that the daemon takes for a path, and one that is written for  *)
(* it, in terms of the sorted list.                                        *)
LEMMA TakenFirst ==
  ASSUME Inv, Meaning, OpenedOnce, Accepted, Builds(Config), NEW package,
         IsApplication(package), NEW path, NEW r \in FindDynamicRule(Config, package, path),
         NEW s \in Matching(Written(package), path)
  PROVE  LET all == RulesOf(Config, package, "dynamic") IN
         /\ r \in Foremost(Matching(all, path))
         /\ \E t \in Matching(all, path) : Alike(t, s)
  <1> DEFINE all == RulesOf(Config, package, "dynamic")
  <1>1. s \in Written(package) /\ MatchesPath(s, path) /\ MatchesTypeFilter(s, path)
    BY DEF Matching
  <1>2. PICK t \in all : Alike(t, s)
    BY <1>1, WrittenLoaded
  <1>3. t \in Matching(all, path)
    BY <1>1, <1>2, AlikeMatch DEF Matching
  <1>4. r \in Foremost(Matching(all, path))
    BY <1>2 DEF FindDynamicRule, Find, IsApplication
  <1> QED
    BY <1>2, <1>3, <1>4

LEMMA SourceSortable ==
  ASSUME NEW q \in SourceRule, NEW r, Alike(r, q)
  PROVE  Sortable(r) /\ r.path \in Seq(STRING)
  BY DEF SourceRule, Alike, Sortable

LEMMA LongestWins ==
  ASSUME Inv, Meaning, OpenedOnce
  PROVE  LongestRuleWins
  <1> SUFFICES ASSUME Accepted, Builds(Config),
                      NEW package \in {p \in Package : IsApplication(p)}, NEW path \in TreePath,
                      NEW r \in FindDynamicRule(Config, package, path),
                      NEW s \in Matching(Written(package), path), IsPlain(r), IsPlain(s)
               PROVE  Len(s.path) <= Len(r.path)
    BY DEF LongestRuleWins
  <1> DEFINE all == RulesOf(Config, package, "dynamic")
  <1>1. r \in Foremost(Matching(all, path)) /\ \E t \in Matching(all, path) : Alike(t, s)
    BY TakenFirst
  <1>2. PICK t \in Matching(all, path) : Alike(t, s)
    BY <1>1
  <1>3. \A x \in all : Sortable(x) /\ x.path \in Seq(STRING)
    BY LoadedAlike, SourceSortable
  <1>4. ASSUME NEW x \in all, NEW y \in all, {x.kind, y.kind} \subseteq {"file", "directory"},
               IsPrefix(x.path, y.path), Len(x.path) < Len(y.path)
        PROVE  x.size < y.size
    <2>1. PICK p \in Source : Alike(x, p)
      BY LoadedAlike
    <2>2. PICK q \in Source : Alike(y, q)
      BY LoadedAlike
    <2>3. IsPlain(p) /\ IsPlain(q) /\ IsPrefix(p.path, q.path) /\ Len(p.path) < Len(q.path)
      BY <1>4, <2>1, <2>2 DEF Alike, IsPlain
    <2>4. p.size < q.size
      BY <2>3, SourceFact DEF SourceAssumption
    <2> QED
      BY <2>1, <2>2, <2>4 DEF Alike
  <1>5. path \in Seq(STRING) /\ {r.kind, t.kind} \subseteq {"file", "directory"}
    BY <1>2, SourceFact DEF SourceAssumption, IsPlain, Alike
  <1>6. Len(t.path) <= Len(r.path)
    <2> HIDE DEF all
    <2> QED
      BY <1>1, <1>2, <1>3, <1>4, <1>5, ForemostIsDeepest
  <1> QED
    BY <1>2, <1>6 DEF Alike

(* LongestRuleWins, for any file of rules and any tree: whatever the order *)
(* the lines are in, and whatever other packages have.                     *)
THEOREM LongestRuleTaken == Spec => []LongestRuleWins
  BY InvInit, InvNext, MeaningInit, MeaningNext, OpenedOnceInit, OpenedOnceNext, LongestWins,
     PTL DEF Spec

LEMMA FilteredWins ==
  ASSUME Inv, Meaning, OpenedOnce
  PROVE  FilteredFirst
  <1> SUFFICES ASSUME Accepted, Builds(Config),
                      NEW package \in {p \in Package : IsApplication(p)}, NEW path \in TreePath,
                      NEW r \in FindDynamicRule(Config, package, path),
                      NEW s \in Matching(Written(package), path),
                      s.lex = r.lex, s.kind = r.kind, s.types # AnyType
               PROVE  r.types # AnyType
    BY DEF FilteredFirst
  <1> DEFINE all == RulesOf(Config, package, "dynamic")
  <1>1. r \in Foremost(Matching(all, path)) /\ \E t \in Matching(all, path) : Alike(t, s)
    BY TakenFirst
  <1>2. PICK t \in Matching(all, path) : Alike(t, s)
    BY <1>1
  <1>3. \A x \in all : Sortable(x)
    BY LoadedAlike, SourceSortable
  <1>4. t.size = r.size
    <2>1. r \in all /\ t \in all
      BY <1>1 DEF Foremost, Matching
    <2>2. PICK p \in Source : Alike(r, p)
      BY <2>1, LoadedAlike
    <2>3. PICK q \in Source : Alike(t, q)
      BY <2>1, LoadedAlike
    <2>4. p.lex = q.lex
      BY <1>2, <2>2, <2>3 DEF Alike
    <2>5. p.size = q.size
      BY <2>4, SourceFact DEF SourceAssumption
    <2> QED
      BY <2>2, <2>3, <2>5 DEF Alike
  <1>5. t.kind = r.kind /\ t.types # AnyType
    BY <1>2 DEF Alike
  <1> QED
    <2> HIDE DEF all
    <2> QED
      BY <1>1, <1>2, <1>3, <1>4, <1>5, ForemostIsFiltered

(* FilteredFirst, for any file of rules and any tree. *)
THEOREM FilteredRuleTaken == Spec => []FilteredFirst
  BY InvInit, InvNext, MeaningInit, MeaningNext, OpenedOnceInit, OpenedOnceNext, FilteredWins,
     PTL DEF Spec
=============================================================================
