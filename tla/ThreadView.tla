----------------------------- MODULE ThreadView -----------------------------
(***************************************************************************)
(* What a window promises about the thread it shows, whatever happens      *)
(* between the log and its screen: it shows a part of what is stored, up   *)
(* to `seq', and knows of a part `missing' of that; it goes forward event  *)
(* by event or by a snapshot that is at least as new, and back only when   *)
(* the user opens the thread anew or changes it by a call whose answer     *)
(* replaces what is shown.                                                 *)
(***************************************************************************)
EXTENDS Naturals

VARIABLES
  stored,   \* the length of the thread's log
  seq,      \* lastSeq of the projection the window holds
  missing,  \* the events up to seq that the projection lacks
  visits    \* how often the user opened or changed the thread, or the
            \* window subscribed to it anew

viewVars == <<stored, seq, missing, visits>>

Init == stored = 0 /\ seq = 0 /\ missing = {} /\ visits = 0

Store ==
  /\ stored' \in Nat /\ stored' > stored
  /\ UNCHANGED <<seq, missing, visits>>

(* A batch of events: what it skips is missing from then on, what was      *)
(* missing stays so.                                                       *)
Follow ==
  /\ seq' \in seq .. stored
  /\ missing \subseteq missing'
  /\ missing' \subseteq missing \cup (seq + 1 .. seq')
  /\ UNCHANGED <<stored, visits>>

(* A snapshot that is not older, and the events that came with it. *)
Refresh ==
  /\ seq' \in seq .. stored
  /\ missing' = {}
  /\ UNCHANGED <<stored, visits>>

Visit ==
  /\ visits' = visits + 1
  /\ \/ seq' \in 0 .. stored /\ missing' = {}
     \/ UNCHANGED <<seq, missing>>
  /\ UNCHANGED stored

Next == Store \/ Follow \/ Refresh \/ Visit

Spec == Init /\ [][Next]_viewVars

=============================================================================
