------------------------------ MODULE DataHome ------------------------------
(***************************************************************************)
(* What the data-root code promises a user: there is one home of the data, *)
(* and moving it never changes what it holds.  Only the runtime changes    *)
(* the data, and only a user who is told that the home cannot be opened    *)
(* (recovery) may settle for what another location holds.                  *)
(***************************************************************************)
EXTENDS Integers

CONSTANTS Root, Default

VARIABLES
  home,       \* the location whose data the application opens
  contents,   \* what it holds
  recovering  \* a process runs that cannot open it

Init ==
  /\ home = Default
  /\ contents = 0
  /\ recovering = FALSE

Write ==
  /\ contents' = contents + 1
  /\ UNCHANGED <<home, recovering>>

Relocate ==
  /\ ~recovering
  /\ home' \in Root
  /\ UNCHANGED <<contents, recovering>>

Fail == ~recovering /\ recovering' = TRUE /\ UNCHANGED <<home, contents>>
Leave == recovering /\ recovering' = FALSE /\ UNCHANGED <<home, contents>>

Settle ==
  /\ recovering
  /\ home' \in Root
  /\ contents' \in Int
  /\ UNCHANGED recovering

Next == Write \/ Relocate \/ Fail \/ Leave \/ Settle

Spec == Init /\ [][Next]_<<home, contents, recovering>>

=============================================================================
