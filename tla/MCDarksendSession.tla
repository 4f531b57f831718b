------------------------- MODULE MCDarksendSession --------------------------
(***************************************************************************)
(* Two entries to a session, two denominations, and three outputs, of      *)
(* which two are submitted together, so that an entry may be signed in     *)
(* part.  An output that is signed early can be submitted again, so that   *)
(* two entries share it, and a third one meets a full pool.                *)
(***************************************************************************)
EXTENDS DarksendSession

MCSubmission == {{"i1", "i2"}, {"i3"}}

=============================================================================
