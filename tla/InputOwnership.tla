--------------------------- MODULE InputOwnership ---------------------------
(***************************************************************************)
(* Who may still send an input.  The send queue keeps its promise, nothing *)
(* sent twice and nothing sent that was taken back, because at any time at *)
(* most one party holds an input: the call that submitted it, its enqueue  *)
(* operation, the queue, the operation or the run that sends it from the   *)
(* queue, or the run it was started with directly.  No variable of the     *)
(* code says so; the conjuncts below are what its checks add up to.        *)
(***************************************************************************)
EXTENDS ThreadTurns

(* The phases of a call that holds its input itself. *)
CallPhase == {"none", "asking", "sawIdle", "queueing", "create", "wait",
              "register", "steer", "publish"}

(* The inputs of which nothing is anywhere but in their call or enqueue. *)
Untouched ==
  {i \in Input :
    /\ i \notin Elems(queue) \cup withdrawn
    /\ publishedIn[i] = <<>>
    /\ \A t \in Turn : source[t] # i}

HeldByCall == \A i \in Input : request[i] \in CallPhase => i \in Untouched

EnqueueOps == {k \in 1 .. Len(tail) : tail[k].do = "enqueue"}

(* An enqueue holds its input until turn.input_queued is stored. *)
HeldByEnqueue ==
  \A k \in EnqueueOps :
    /\ request[tail[k].input] = "enqueue"
    /\ k > 1 \/ step = "idle" => tail[k].input \in Untouched
    /\ \A j \in EnqueueOps : tail[j].input = tail[k].input => j = k

NoRepeats(seq) == \A j, k \in 1 .. Len(seq) : seq[j] = seq[k] => j = k

(* A queued input is there once, and is not sent or taken back yet. *)
HeldByQueue ==
  /\ NoRepeats(queue)
  /\ \A i \in Elems(queue) : publishedIn[i] = <<>> /\ i \notin withdrawn

(* The operation that dispatches an input marked it and no run has it. *)
HeldByDispatch ==
  step \in {"create", "wait", "register"} =>
    /\ opInput \in Elems(queue) \cap dispatching
    /\ \A t \in Turn : Running(t) => source[t] # opInput

(* The operation that withdraws or steers an input found it unmarked. *)
HeldByOperation ==
  step \in {"withdraw", "steer", "publish"} => opInput \in Elems(queue) \ dispatching

(* A run that has not stored its message yet is the only run of its input, *)
(* and while the input is still queued it is marked.                       *)
HeldByRun ==
  /\ OneRunPerInput
  /\ \A t \in Turn : Running(t) /\ source[t] \in Elems(queue) => source[t] \in dispatching
  /\ \A t \in Turn : pc[t] \in {"registered", "started"} /\ source[t] # NoInput =>
       publishedIn[source[t]] = <<>> /\ source[t] \notin withdrawn

OneHolder ==
  /\ SentAtMostOnce
  /\ WithdrawnIsNotSent
  /\ HeldByCall
  /\ HeldByEnqueue
  /\ HeldByQueue
  /\ HeldByDispatch
  /\ HeldByOperation
  /\ HeldByRun

=============================================================================
