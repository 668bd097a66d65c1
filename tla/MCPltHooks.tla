----------------------------- MODULE MCPltHooks -----------------------------
(* Two threads; three libraries, of which two fit. *)
EXTENDS PltHooks

CONSTANTS a, b, c, t, u
=============================================================================
