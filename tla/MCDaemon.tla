------------------------------ MODULE MCDaemon ------------------------------
(* Two applications, files in up to three directories, and the rules to    *)
(* move, delete, clean up and export them.                                 *)
EXTENDS Daemon, TLC

CONSTANTS a, b, A, B

dl == <<"dl", "x">>
doc == <<"doc", "x">>
keep == <<"keep", "x">>

Rule(action, path, target, line) ==
  [action |-> action, kind |-> "directory", path |-> path, match |-> {},
   types |-> AnyType, target |-> target, size |-> Len(path), lex |-> line,
   line |-> line, child |-> TRUE, dirs |-> "none"]

Section(package, dirs, existing, rs, exports) ==
  [package |-> package, enabled |-> TRUE, existing |-> existing, dirs |-> dirs,
   rules |-> rs, exports |-> exports]

Onward == Section(Wildcard, "none", FALSE, <<Rule("dynamic", <<"doc">>, <<"keep">>, 3)>>, <<>>)
Deleting(dirs, existing) ==
  Section(B, dirs, existing, <<Rule("delete", <<"dl">>, <<>>, 2)>>, <<>>)

(* A's downloads go to doc, B's are deleted, what anyone else puts in doc  *)
(* goes on to keep.                                                        *)
Moves ==
  [parses |-> TRUE,
   sections |-> <<Section(A, "none", FALSE, <<Rule("dynamic", <<"dl">>, <<"doc">>, 1)>>, <<>>),
                  Deleting("none", FALSE), Onward>>]

(* A's downloads are copied to doc, and a file that A puts there itself     *)
(* sweeps it empty; B's are deleted, at a reload also those already there. *)
Exporting ==
  Section(A, "recursive", FALSE, <<Rule("delete", <<"doc">>, <<>>, 2)>>,
                                 <<Rule("export", <<"dl">>, <<"doc">>, 4)>>)
Exports == [parses |-> TRUE, sections |-> <<Exporting, Deleting("empty", FALSE)>>]
Cleans == [parses |-> TRUE, sections |-> <<Exporting, Deleting("empty", TRUE)>>]
Broken == [parses |-> FALSE, sections |-> <<>>]

OnlyMoves == {Moves}
WithExports == {Exports, Cleans, Broken}
None == {}
Crossing == {<<doc, keep>>}

ThreePlaces == {dl, doc, keep}
TwoPlaces == {dl, doc}
TwoDirectories == {dl, <<"dl", "y">>, doc, <<"doc", "y">>}
MCPackageOf == (a :> A) @@ (b :> B) @@ (DaemonProc :> "daemon")
=============================================================================
