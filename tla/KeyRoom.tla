------------------------------ MODULE KeyRoom ------------------------------
(***************************************************************************)
(* What a table-driven chunk promises (API.pod: "walk the keyroom from     *)
(* start to end"), without digits, tables or carries: the keys of the room *)
(* are visited one by one, each the immediate successor of the one before, *)
(* none left out and none visited twice, until the last key of the chunk   *)
(* was visited or the worker has another reason to stop.                   *)
(***************************************************************************)
EXTENDS Keyspace

VARIABLES
  first,     \* the chunk's first key
  last,      \* its last key
  at,        \* the key visited last, << >> before the first
  verdict    \* why the walk ended, "none" while it goes on

roomVars == <<first, last, at, verdict>>

RoomInit == at = << >> /\ verdict = "none"

Begin ==
  /\ verdict = "none" /\ at = << >>
  /\ at' = first
  /\ UNCHANGED <<first, last, verdict>>

(***************************************************************************)
(* The end is looked for in keys that a step reached: the walk goes on     *)
(* from a first key that is the last one too, unless it was given as such. *)
(***************************************************************************)
Visit ==
  /\ verdict = "none" /\ at # << >>
  /\ at = last => at = first
  /\ Len(at) <= Len(last)
  /\ at' \in Keys /\ Successor(at, at')
  /\ UNCHANGED <<first, last, verdict>>

\* The chunk is done when its last key was visited (or one that shows the same
\* word, as a table may hold a character twice), or, when the last key comes
\* before the first, when no key of its length is left.
Done ==
  /\ verdict = "none" /\ at # << >>
  /\ Word(at) = Word(last) \/ Len(at) > Len(last)
  /\ verdict' = "done"
  /\ UNCHANGED <<first, last, at>>

GiveUp ==
  /\ verdict = "none"
  /\ verdict' \in {"found", "timeout", "error"}
  /\ verdict' # "error" => at # << >>
  /\ UNCHANGED <<first, last, at>>

RoomNext == Begin \/ Visit \/ Done \/ GiveUp

RoomSpec == RoomInit /\ [][RoomNext]_roomVars
=============================================================================
