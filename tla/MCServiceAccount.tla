--------------------------- MODULE MCServiceAccount ---------------------------
(***************************************************************************)
(* ServiceAccount for TLC: a character of a label, a character of a        *)
(* subdomain that no label has, and the separator; names of up to two      *)
(* characters, and usernames long enough for three parts.                  *)
(***************************************************************************)
EXTENDS ServiceAccount

MCChars          == {"a", ".", ":"}
MCLabelChars     == {"a"}
MCSubdomainChars == {"a", "."}
MCUIDs           == {"", "u1", "u2"}
MCPodNames       == {"", "pod"}
=============================================================================
