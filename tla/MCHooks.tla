------------------------------ MODULE MCHooks ------------------------------
(* One thread; two sections, one of them with a rule of unknown kind; calls *)
(* of every kind, and every way to write a path that the code tells apart. *)
EXTENDS Hooks, TLC

CONSTANT t

Primary == <<"storage", "emulated", "0">>
Links == {<<"sdcard">>, <<"storage", "self", "primary">>}

DCIM == <<"ext", "DCIM">>
Camera == <<"ext", "DCIM", "Camera">>
Secret == <<"ext", "DCIM", "Secret">>
Temp == <<"ext", "Temp">>

Rule(action, path, size, line) ==
  [action |-> action, path |-> path, glob |-> "none", base |-> path, fits |-> {},
   types |-> AnyType, slash |-> TRUE, size |-> size, line |-> line,
   target |-> IF action = "redirect" THEN Temp ELSE <<>>]

Redirects ==
  [package |-> "com.a", mode |-> "blacklist", accessible |-> {},
   rules |-> {[Rule("redirect", Camera, 31, 1) EXCEPT !.slash = FALSE],
              Rule("deny", Secret, 31, 2), Rule("deny", <<"tmp">>, 4, 3)}]

Whitelist ==
  [package |-> "com.a", mode |-> "whitelist", accessible |-> {},
   rules |-> {Rule("allow", Camera, 31, 1), Rule("redirect", Secret, 31, 2)}]

Sections2 == {Redirects, Whitelist}
None == {}

(* A directory of the storage, the root, where a link to the storage is,   *)
(* one elsewhere, and one whose path is too long.                          *)
Listed ==
  [d \in {Primary \o <<"DCIM">>, <<>>, <<"data">>, Primary \o <<"a", "b", "c", "d", "e", "f">>} |->
     IF d = Primary \o <<"DCIM">> THEN <<".", "Secret", "Camera", "Other">>
     ELSE <<"sdcard", "tmp", "x">>]

One(op, s) == [op |-> op, dirs |-> <<AtCwd>>, paths |-> <<s>>]
At(op, dir, s) == [op |-> op, dirs |-> <<dir>>, paths |-> <<s>>]
Two(op, s, u) == [op |-> op, dirs |-> <<AtCwd, AtCwd>>, paths |-> <<s, u>>]

InPrimary(names) == Absolute(Primary \o names)

Calls ==
  {One("open", Absolute(<<"sdcard", "DCIM", "Secret", "">>)),
   One("stat", InPrimary(<<"DCIM", "..", "DCIM", "Secret">>)),
   One("fopen", Absolute(<<"sdcard", "DCIM", "Camera", "x", "..">>)),
   At("unlinkat", Primary, Spelling(FALSE, <<"DCIM", "Camera", "x", "..">>)),
   One("access", Absolute(<<"sdcardx", "DCIM">>)),
   One("readlink", Spelling(FALSE, <<"DCIM", "Secret">>)),
   One("mkdir", InPrimary(<<"DCIM", "Camera", "">>)),
   One("rmdir", Absolute(<<"", "storage", "self", ".", "primary", "DCIM", "Camera">>)),
   One("unlink", Absolute(<<"sdcard", ".", "DCIM", "Camera", "x">>)),
   One("symlink", InPrimary(<<"DCIM", "Secret", "l">>)),
   At("unlinkat", Primary, Spelling(FALSE, <<"DCIM", "Camera">>)),
   At("openat", Primary \o <<"DCIM">>, Spelling(FALSE, <<".", "..", "DCIM", "Secret">>)),
   At("openat64", <<"storage">>, Spelling(FALSE, <<"emulated", "0", "DCIM", "Secret">>)),
   At("fstatat64", Primary, Spelling(FALSE, <<>>)),
   One("opendir", Absolute(<<"">>)),
   At("fstatat", Primary, InPrimary(<<"DCIM", "", "x", "..", "Camera">>)),
   At("faccessat", AtCwd, Spelling(FALSE, <<"a", "b", "c", "d", "Camera", "">>)),
   At("statx", Primary, Spelling(FALSE, <<"a", "b", "c", "d", "e", "..", "..">>)),
   At("scandirat", Primary, Absolute(<<"..", "sdcard", "..", "x">>)),
   Two("rename", InPrimary(<<"DCIM", "Camera">>), InPrimary(<<"DCIM", "Secret">>)),
   [Two("linkat", Spelling(FALSE, <<"DCIM">>), InPrimary(<<"DCIM", "Other">>))
      EXCEPT !.dirs = <<Primary, AtCwd>>]}
=============================================================================
