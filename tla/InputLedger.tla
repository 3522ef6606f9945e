----------------------------- MODULE InputLedger -----------------------------
(***************************************************************************)
(* What a thread promises about the inputs a user hands to it, whatever    *)
(* turns run, fail, are cancelled or die with the process: an input waits  *)
(* at most once, leaves the queue by being sent or taken back, and is sent *)
(* at most once.  A message is sent by storing it in a turn.               *)
(***************************************************************************)
EXTENDS Naturals, Sequences

CONSTANTS
  Input,    \* what the user sends
  Turn      \* where it may be sent

VARIABLES
  waiting,   \* the queued inputs
  sent,      \* input -> the turns in which its message was stored
  withdrawn  \* the inputs the user took back

ledgerVars == <<waiting, sent, withdrawn>>

New(i) == i \notin waiting \cup withdrawn /\ sent[i] = <<>>

LedgerInit ==
  /\ waiting = {}
  /\ sent = [i \in Input |-> <<>>]
  /\ withdrawn = {}

Wait(i) ==
  /\ New(i)
  /\ waiting' = waiting \cup {i}
  /\ UNCHANGED <<sent, withdrawn>>

Send(i, t) ==
  /\ New(i) \/ i \in waiting
  /\ waiting' = waiting \ {i}
  /\ sent' = [sent EXCEPT ![i] = <<t>>]
  /\ UNCHANGED withdrawn

TakeBack(i) ==
  /\ i \in waiting
  /\ waiting' = waiting \ {i}
  /\ withdrawn' = withdrawn \cup {i}
  /\ UNCHANGED sent

LedgerNext ==
  \E i \in Input :
    \/ Wait(i)
    \/ TakeBack(i)
    \/ \E t \in Turn : Send(i, t)

LedgerSpec == LedgerInit /\ [][LedgerNext]_ledgerVars

=============================================================================
