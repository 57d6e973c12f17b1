----------------------------- MODULE WireScope -----------------------------
(***************************************************************************)
(* The name of a source on the wire                                        *)
(* (internal/domain/instance/identity.go).                                 *)
(***************************************************************************)
CONSTANT Sanitize(_)   \* SanitizeWireScope: punctuation replaced and trimmed
=============================================================================
