-------------------------- MODULE MCProcessControl --------------------------
(* ProcessControl with two starts, one of them in the foreground, a stop and a
   restart, on a database that has all columns, or not those of the two later
   versions. *)
EXTENDS ProcessControl

CONSTANTS reason, open_id, state

MCColumns == << << reason >>, << open_id, state >> >>
MCLegacy == {{}, {reason}, {reason, open_id, state}}

=============================================================================
