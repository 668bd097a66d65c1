--------------------------- MODULE MCDaemonRules ---------------------------
(* Every rules.ini of a few lines, parsed, compiled and sorted by the       *)
(* daemon, and asked about every path of a small tree.                     *)
EXTENDS DaemonConfig, FiniteSets, TLC

A == "com.a"
B == "com.b"
AP == "com.a:p"   \* a process of the first
d == <<"d">>
de == <<"d", "e">>
def == <<"d", "e", "f.jpg">>
deg == <<"d", "e", "g.png">>

MCPath == {de, def, deg}

MCRule(action, kind, p, match, types, size, lex) ==
  [action |-> action, kind |-> kind, path |-> p, match |-> match, types |-> types,
   target |-> <<"t">>, size |-> size, lex |-> lex, line |-> 0, child |-> FALSE,
   dirs |-> "none"]

(* /d, /d/e, /d/e with types, /d/e/f.jpg, /d/e/*.jpg and /d/**/*.jpg *)
Redirects ==
  {MCRule("dynamic", "directory", d, {}, AnyType, 2, 1),
   MCRule("dynamic", "directory", de, {}, AnyType, 4, 4),
   MCRule("dynamic", "directory", de, {}, {"f.jpg"}, 4, 4),
   MCRule("dynamic", "file", def, {}, AnyType, 10, 6),
   MCRule("dynamic", "glob", de, {"f.jpg"}, AnyType, 10, 5),
   MCRule("dynamic", "path_glob", d, {def}, AnyType, 11, 3)}
Deletion == MCRule("delete", "directory", d, {}, AnyType, 2, 1)

Assign(key, value) == [is |-> "assign", key |-> key, value |-> value]
Header(name) == [is |-> "header", name |-> name]
Redirect(rule, word, key, value) ==
  [is |-> "redirect", rule |-> rule, wrong |-> FALSE, word |-> word, key |-> key, value |-> value]

Arrow(rule, key) == Redirect(rule, "", key, "> /t")     \* key => /t
Named(name) == MCRule("dynamic", "directory", <<name>>, {}, AnyType, 6, 7)

(* trash_dir => /t, mode/x -> a=whitelist, modern -> /t and path => /t *)
Misleading ==
  {Redirect(Named("trash_dir"), "trash", "trash_dir", "> /t"),
   Redirect(Named("mode/x"), "mode", "mode/x -> a", "whitelist"),
   Redirect(Named("modern"), "mode", "", ""),
   Arrow(Named("path"), "path")}

MCLine ==
  {[is |-> "blank"]}
  \cup {Header(name) : name \in {<<A>>, <<B>>, <<AP>>, <<A, "accessible", "1">>, <<A, "export", "1">>, <<>>}}
  \cup {Assign("mode", "blacklist"), Assign("enabled", "false"), Assign("disabled", "false"),
        Assign("delete_dirs", "true"), Assign("delete_existing", "true"),
        Assign("media_query", "false"), Assign("path", "/d"), Assign("to", B),
        Assign("source", "/d"), Assign("target", "/t")}
  \cup {Arrow(r, "/d") : r \in Redirects} \cup Misleading
  \cup {[is |-> "rule", rule |-> Deletion, wrong |-> FALSE]}

Processes == {<<A, AP>>}

MCExport(e) == MCRule("export", "directory", d, {}, AnyType, 2, 1)
=============================================================================
