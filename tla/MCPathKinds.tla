---------------------------- MODULE MCPathKinds ----------------------------
(* Redirections above rules of unknown kind, whitelists, patterns, and the *)
(* example of all options of the repository's README.                      *)
EXTENDS PathKinds, TLC

CONSTANTS s, t

Root == <<"ext">>
DCIM == <<"ext", "DCIM">>
Photo == <<"ext", "DCIM", "y.jpg">>
Camera == <<"ext", "DCIM", "Camera">>
Shot == <<"ext", "DCIM", "Camera", "x.jpg">>
Sub == <<"ext", "DCIM", "Camera", "Sub">>
Data == <<"data">>
Temp == <<"ext", "Temp">>
Download == <<"ext", "Download">>
Secret == <<"ext", "Download", "secret">>
Paper == <<"ext", "Download", "x.pdf">>

Rule(action, path, size, line) ==
  [action |-> action, path |-> path, glob |-> "none", base |-> path, fits |-> {},
   types |-> AnyType, slash |-> FALSE, size |-> size, line |-> line,
   target |-> IF action = "redirect" THEN Temp ELSE <<>>]

Slash(r) == [r EXCEPT !.slash = TRUE]
Pattern(r, glob, base, fits) == [r EXCEPT !.glob = glob, !.base = base, !.fits = fits]

Redirects ==
  [package |-> "com.a", mode |-> "blacklist", accessible |-> {},
   rules |-> {Slash(Rule("redirect", DCIM, 24, 1)),
              Rule("deny", Camera, 31, 2),
              Rule("redirect", Sub, 35, 3),
              [Slash(Rule("redirect", Camera, 31, 4)) EXCEPT !.types = {"x.jpg"}],
              Rule("delete", Photo, 30, 5)}]

Whitelist ==
  [package |-> "com.a", mode |-> "whitelist", accessible |-> {Temp},
   rules |-> {Rule("allow", Camera, 31, 1), Rule("deny", Shot, 37, 2),
              Pattern(Rule("allow", <<"ext", "DCIM", "*", "y.jpg">>, 32, 3), "path", DCIM,
                      {Camera \o <<"y.jpg">>}),
              Slash(Rule("deny", Data, 5, 4))}]

Patterns ==
  [package |-> "com.a", mode |-> "blacklist", accessible |-> {},
   rules |-> {Pattern(Rule("deny", <<"ext", "DCIM", "*.jpg">>, 30, 1), "name", DCIM, {Photo}),
              Pattern(Rule("deny", <<"ext", "DCIM", "*", "x.jpg">>, 32, 2), "path", DCIM,
                      {Shot}),
              Slash(Rule("allow", Camera, 31, 3)),
              Slash(Rule("redirect", Root, 19, 4))}]

(* By wildcards only: a name of DCIM, and Sub of any directory of DCIM. *)
Wildcards ==
  [package |-> "com.a", mode |-> "whitelist", accessible |-> {Temp},
   rules |-> {Pattern(Rule("allow", <<"ext", "DCIM", "*.jpg">>, 30, 1), "name", DCIM, {Photo}),
              Pattern(Rule("allow", <<"ext", "DCIM", "*", "Sub">>, 30, 2), "path", DCIM, {Sub})}]

Sections4 == {Redirects, Whitelist, Patterns, Wildcards}

Example ==
  [package |-> "com.a", mode |-> "blacklist", accessible |-> {},
   rules |-> {Rule("deny", Secret, 35, 1),
              Rule("redirect", Camera, 31, 2),
              [Pattern(Rule("redirect", <<"ext", "Download", "*.pdf">>, 34, 3), "name",
                       Download, {Paper}) EXCEPT !.types = {"x.pdf"}]}]

Example1 == {Example}
InExample == {Secret, Paper, Camera, Shot}
None == {}
Photos == {Photo}
CalledFor == {DCIM, Photo, Camera, Shot, Sub, Data, Download, Secret}
=============================================================================
