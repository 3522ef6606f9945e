------------------------ MODULE InputOwnershipProofs ------------------------
(***************************************************************************)
(* OneHolder is an invariant, so nothing is sent twice, nothing that was   *)
(* taken back is sent, no input drives two runs, and the thread implements *)
(* the ledger of inputs.                                                   *)
(***************************************************************************)
EXTENDS InputOwnership, ThreadTurnsProofs

OwnershipInv == TypeInv /\ OneHolder

-----------------------------------------------------------------------------
(* Sequences without repetitions.                                          *)

(* Appending a new element. *)
LEMMA AppendNew ==
  ASSUME NEW S, NEW seq \in Seq(S), NEW e \in S
  PROVE  /\ Elems(Append(seq, e)) = Elems(seq) \cup {e}
         /\ NoRepeats(seq) /\ e \notin Elems(seq) => NoRepeats(Append(seq, e))
<1>1. /\ Len(seq) \in Nat
      /\ Len(Append(seq, e)) = Len(seq) + 1
      /\ \A j \in 1 .. Len(seq) : Append(seq, e)[j] = seq[j]
      /\ Append(seq, e)[Len(seq) + 1] = e
  BY AppendProperties, LenProperties
<1> DEFINE new == Append(seq, e)
<1> HIDE DEF new
<1>2. /\ Len(new) = Len(seq) + 1
      /\ \A j \in 1 .. Len(seq) : new[j] = seq[j]
      /\ new[Len(seq) + 1] = e
  BY <1>1 DEF new
<1>3. 1 .. Len(new) = (1 .. Len(seq)) \cup {Len(seq) + 1}
  BY <1>1, <1>2
<1>4. Elems(new) = Elems(seq) \cup {e}
  BY <1>2, <1>3 DEF Elems
<1>5. NoRepeats(seq) /\ e \notin Elems(seq) => NoRepeats(new)
  BY <1>2, <1>3 DEF NoRepeats, Elems
<1> QED BY <1>4, <1>5 DEF new

(* Filtering one element out. *)
LEMMA WithoutElems ==
  ASSUME NEW S, NEW seq \in Seq(S), NEW i, NoRepeats(seq)
  PROVE  /\ Elems(Without(seq, i)) = Elems(seq) \ {i}
         /\ NoRepeats(Without(seq, i))
<1> DEFINE k == Position(seq, i)
           w == [j \in 1 .. Len(seq) - 1 |-> IF j < k THEN seq[j] ELSE seq[j + 1]]
<1>1. Len(seq) \in Nat /\ seq \in [1 .. Len(seq) -> S]
  BY LenProperties
<1>2. CASE i \in Elems(seq)
  <2>1. k \in 1 .. Len(seq) /\ seq[k] = i
    BY <1>2 DEF Elems, Position
  <2>2. Without(seq, i) = w
    BY <1>2 DEF Without
  <2> HIDE DEF k
  <2>3. Len(w) = Len(seq) - 1
    BY <1>1, <2>1
  <2>4. \A j \in 1 .. Len(seq) - 1 : w[j] = IF j < k THEN seq[j] ELSE seq[j + 1]
    OBVIOUS
  <2> HIDE DEF w
  <2>5. NoRepeats(w)
    BY <1>1, <2>1, <2>3, <2>4 DEF NoRepeats
  <2>6. Elems(w) \subseteq Elems(seq) \ {i}
    BY <1>1, <2>1, <2>3, <2>4 DEF NoRepeats, Elems
  <2>7. Elems(seq) \ {i} \subseteq Elems(w)
    <3> SUFFICES ASSUME NEW j \in 1 .. Len(seq), seq[j] # i PROVE seq[j] \in Elems(w)
      BY DEF Elems
    <3>1. CASE j < k
      BY <1>1, <2>1, <2>3, <2>4, <3>1 DEF Elems
    <3>2. CASE j > k
      <4>1. j - 1 \in 1 .. Len(w) /\ w[j - 1] = seq[j]
        BY <1>1, <2>1, <2>3, <2>4, <3>2
      <4> QED BY <4>1 DEF Elems
    <3> QED BY <1>1, <2>1, <3>1, <3>2
  <2> QED BY <2>2, <2>5, <2>6, <2>7
<1>3. CASE i \notin Elems(seq)
  BY <1>3 DEF Without
<1> QED BY <1>2, <1>3

(* A sorted sequence repeats nothing: no element precedes itself. *)
LEMMA SortedNoRepeats ==
  ASSUME NEW S, NEW seq \in Seq(S), NEW order \in Seq(S), NEW new,
         Len(new) \in Nat, Sorted(new, seq, order)
  PROVE  Elems(new) = Elems(seq) /\ NoRepeats(new)
<1>1. \A a \in Elems(order) : Position(order, a) \in Nat
  <2> TAKE a \in Elems(order)
  <2>1. Position(order, a) \in 1 .. Len(order)
    BY DEF Elems, Position
  <2> QED BY <2>1, LenProperties
<1>2. \A a \in Elems(seq) : Position(seq, a) \in Nat
  <2> TAKE a \in Elems(seq)
  <2>1. Position(seq, a) \in 1 .. Len(seq)
    BY DEF Elems, Position
  <2> QED BY <2>1, LenProperties
<1>3. \A a \in Elems(seq) : ~Precedes(seq, order, a, a)
  BY <1>1, <1>2 DEF Precedes
<1>4. Elems(new) = Elems(seq)
  BY DEF Sorted
<1>5. \A j, k \in 1 .. Len(new) : j < k => new[j] # new[k]
  <2> SUFFICES ASSUME NEW j \in 1 .. Len(new), NEW k \in 1 .. Len(new), j < k
               PROVE  new[j] # new[k]
    OBVIOUS
  <2>1. Precedes(seq, order, new[j], new[k])
    BY DEF Sorted
  <2>2. new[j] \in Elems(seq)
    BY <1>4 DEF Elems
  <2> QED BY <1>3, <2>1, <2>2
<1>6. NoRepeats(new)
  BY <1>5 DEF NoRepeats
<1> QED BY <1>4, <1>6

-----------------------------------------------------------------------------
(* What the parts of a handler do to the holders.                          *)

(* The enqueue operations while nothing joins or leaves the chain. *)
LEMMA EnqueueOpsStay ==
  ASSUME HeldByEnqueue, UNCHANGED tail,
         \A k \in EnqueueOps : request'[tail[k].input] = request[tail[k].input],
         step' = step \/ step' # "idle",
         \A k \in EnqueueOps :
           tail[k].input \in Untouched => tail[k].input \in Untouched' \/ (k = 1 /\ step' # "idle")
  PROVE  HeldByEnqueue'
<1>1. EnqueueOps' = EnqueueOps
  BY DEF EnqueueOps
<1>2. ASSUME NEW k \in EnqueueOps
      PROVE  k > 1 \/ step' = "idle" => tail[k].input \in Untouched'
  <2>1. k \in Nat /\ k >= 1
    BY DEF EnqueueOps
  <2> QED BY <2>1 DEF HeldByEnqueue
<1> QED BY <1>1, <1>2 DEF HeldByEnqueue

(* The enqueue operations when the head of the chain ends. *)
LEMMA EnqueueOpsEnd ==
  ASSUME TypeInv, HeldByEnqueue, Busy, Leave,
         \/ UNCHANGED request
         \/ \E a \in Answer : Reply(a),
         \A k \in EnqueueOps : k > 1 => tail[k].input \in Untouched'
  PROVE  HeldByEnqueue'
<1>1. /\ tail' = Tail(tail)
      /\ Len(tail) \in Nat
      /\ Len(tail') = Len(tail) - 1
      /\ \A k \in 1 .. Len(tail') : tail'[k] = tail[k + 1]
      /\ Op = tail[1]
      /\ 1 \in 1 .. Len(tail)
  BY HeadTailProperties, LenProperties, EmptySeq DEF Leave, TypeInv, ChainTypeOK, Busy, Op
<1>2. \A k \in EnqueueOps' : k + 1 \in EnqueueOps /\ tail'[k] = tail[k + 1] /\ k \in Nat /\ k >= 1
  BY <1>1 DEF EnqueueOps
<1>3. \A k \in EnqueueOps' : request'[tail'[k].input] = "enqueue"
  <2> SUFFICES ASSUME NEW k \in EnqueueOps' PROVE request'[tail[k + 1].input] = "enqueue"
    BY <1>2
  <2>1. request[tail[k + 1].input] = "enqueue" /\ tail[k + 1].input \in Input
    BY <1>2 DEF HeldByEnqueue, EnqueueOps, TypeInv, ChainTypeOK
  <2>2. CASE Op.do = "enqueue"
    <3>1. 1 \in EnqueueOps /\ 1 # k + 1
      BY <1>1, <1>2, <2>2 DEF EnqueueOps
    <3>2. Op.input # tail[k + 1].input
      BY <1>1, <1>2, <3>1 DEF HeldByEnqueue
    <3> QED BY <2>1, <3>2 DEF Reply, TypeInv, CallTypeOK
  <2>3. CASE Op.do # "enqueue"
    BY <2>1, <2>3 DEF Reply
  <2> QED BY <2>2, <2>3
<1>4. \A k \in EnqueueOps' : tail'[k].input \in Untouched'
  BY <1>2
<1>5. \A j, k \in EnqueueOps' : tail'[j].input = tail'[k].input => j = k
  <2> SUFFICES ASSUME NEW j \in EnqueueOps', NEW k \in EnqueueOps', tail'[j].input = tail'[k].input
               PROVE  j = k
    OBVIOUS
  <2>1. j + 1 = k + 1
    BY <1>2 DEF HeldByEnqueue
  <2> QED BY <1>2, <2>1
<1> QED BY <1>3, <1>4, <1>5 DEF HeldByEnqueue

(* The enqueue operations when an operation joins the chain. *)
LEMMA EnqueueOpsJoin ==
  ASSUME TypeInv, HeldByEnqueue, NEW op \in Operation, tail' = Append(tail, op),
         UNCHANGED <<queue, publishedIn, withdrawn, source, step>>,
         \/ op.do # "enqueue" /\ UNCHANGED request
         \/ /\ op.input \in Input
            /\ request[op.input] # "enqueue"
            /\ op.input \in Untouched
            /\ request' = [request EXCEPT ![op.input] = "enqueue"]
  PROVE  HeldByEnqueue'
<1>1. /\ Len(tail) \in Nat
      /\ Len(tail') = Len(tail) + 1
      /\ \A k \in 1 .. Len(tail) : tail'[k] = tail[k]
      /\ tail'[Len(tail) + 1] = op
  BY AppendProperties, LenProperties DEF TypeInv, ChainTypeOK
<1>2. Untouched' = Untouched
  BY DEF Untouched
<1>3. \A k \in EnqueueOps' : \/ k \in EnqueueOps /\ tail'[k] = tail[k]
                             \/ k = Len(tail) + 1 /\ tail'[k] = op /\ op.do = "enqueue"
  BY <1>1 DEF EnqueueOps
<1>4. \A k \in EnqueueOps : k \in 1 .. Len(tail) /\ tail[k].input \in Input
  BY DEF EnqueueOps, TypeInv, ChainTypeOK
<1>5. CASE op.do # "enqueue" /\ UNCHANGED request
  <2>1. \A k \in EnqueueOps' : k \in EnqueueOps /\ tail'[k] = tail[k]
    BY <1>3, <1>5
  <2>2. \A k \in EnqueueOps' : /\ request'[tail'[k].input] = "enqueue"
                               /\ k > 1 \/ step' = "idle" => tail'[k].input \in Untouched'
    <3> SUFFICES ASSUME NEW k \in EnqueueOps'
                 PROVE  /\ request[tail[k].input] = "enqueue"
                        /\ k > 1 \/ step = "idle" => tail[k].input \in Untouched
      BY <1>2, <1>5, <2>1
    <3> QED BY <2>1 DEF HeldByEnqueue
  <2>3. \A j, k \in EnqueueOps' : tail'[j].input = tail'[k].input => j = k
    <3> SUFFICES ASSUME NEW j \in EnqueueOps', NEW k \in EnqueueOps', tail'[j].input = tail'[k].input
                 PROVE  j = k
      OBVIOUS
    <3>1. tail[j].input = tail[k].input /\ j \in EnqueueOps /\ k \in EnqueueOps
      BY <2>1
    <3> QED BY <3>1 DEF HeldByEnqueue
  <2> QED BY <2>2, <2>3 DEF HeldByEnqueue
<1>6. CASE /\ op.input \in Input
           /\ request[op.input] # "enqueue"
           /\ op.input \in Untouched
           /\ request' = [request EXCEPT ![op.input] = "enqueue"]
  <2>1. \A k \in EnqueueOps : tail[k].input # op.input
    BY <1>6 DEF HeldByEnqueue
  <2>2. request'[op.input] = "enqueue" /\ \A k \in EnqueueOps : request'[tail[k].input] = "enqueue"
    BY <1>4, <1>6, <2>1 DEF HeldByEnqueue, TypeInv, CallTypeOK
  <2>3. \A k \in EnqueueOps' : request'[tail'[k].input] = "enqueue"
    BY <1>3, <2>2
  <2>4. \A k \in EnqueueOps' : k > 1 \/ step' = "idle" => tail'[k].input \in Untouched'
    BY <1>2, <1>3, <1>6 DEF HeldByEnqueue
  <2>5. \A j, k \in EnqueueOps' : tail'[j].input = tail'[k].input => j = k
    <3> SUFFICES ASSUME NEW j \in EnqueueOps', NEW k \in EnqueueOps', tail'[j].input = tail'[k].input
                 PROVE  j = k
      OBVIOUS
    <3>1. CASE j \in EnqueueOps /\ tail'[j] = tail[j] /\ k \in EnqueueOps /\ tail'[k] = tail[k]
      BY <3>1 DEF HeldByEnqueue
    <3>2. CASE j = Len(tail) + 1 /\ k = Len(tail) + 1
      BY <3>2
    <3>3. CASE /\ j \in EnqueueOps /\ tail'[j] = tail[j]
               /\ k = Len(tail) + 1 /\ tail'[k] = op
      <4>1. tail[j].input = op.input
        BY <3>3
      <4> QED BY <2>1, <3>3, <4>1
    <3>4. CASE /\ k \in EnqueueOps /\ tail'[k] = tail[k]
               /\ j = Len(tail) + 1 /\ tail'[j] = op
      <4>1. tail[k].input = op.input
        BY <3>4
      <4> QED BY <2>1, <3>4, <4>1
    <3> QED BY <1>3, <3>1, <3>2, <3>3, <3>4
  <2> QED BY <2>3, <2>4, <2>5 DEF HeldByEnqueue
<1> QED BY <1>5, <1>6

(* Nobody who holds an input changes, runs only go on. *)
LEMMA HoldersStay ==
  ASSUME OwnershipInv,
         UNCHANGED <<queue, publishedIn, withdrawn, source, tail, step, opInput, dispatching, request>>,
         \A t \in Turn : pc'[t] # pc[t] => Running(t) /\ pc'[t] # "registered"
                                          /\ (pc'[t] = "started" => pc[t] = "registered")
  PROVE  OneHolder'
<1> USE DEF OwnershipInv, OneHolder
<1>1. Untouched' = Untouched
  BY DEF Untouched
<1>2. HeldByEnqueue'
  BY <1>1, EnqueueOpsStay
<1>3. HeldByCall'
  BY <1>1 DEF HeldByCall
<1>4. SentAtMostOnce' /\ WithdrawnIsNotSent' /\ HeldByQueue' /\ HeldByOperation'
  BY DEF SentAtMostOnce, WithdrawnIsNotSent, HeldByQueue, HeldByOperation
<1>5. \A t \in Turn : Running(t)' => Running(t)
  BY DEF Running
<1>6. HeldByDispatch'
  BY <1>5 DEF HeldByDispatch
<1>7. HeldByRun'
  BY <1>5 DEF HeldByRun, OneRunPerInput
<1> QED BY <1>2, <1>3, <1>4, <1>6, <1>7

(* A call goes on or is answered. *)
LEMMA CallGoesOn ==
  ASSUME OwnershipInv, NEW i \in Input, NEW to \in CallPhase \cup Answer,
         request[i] \in CallPhase \/ (request[i] = "observe" /\ to \in Answer),
         request' = [request EXCEPT ![i] = to],
         UNCHANGED <<queue, publishedIn, withdrawn, source, pc, tail, step, opInput, dispatching>>
  PROVE  OneHolder'
<1> USE DEF OwnershipInv, OneHolder
<1>1. Untouched' = Untouched
  BY DEF Untouched
<1>2. \A j \in Input : request'[j] \in CallPhase => request[j] \in CallPhase
  BY DEF Answer, CallPhase, TypeInv, CallTypeOK
<1>3. \A k \in EnqueueOps : request'[tail[k].input] = request[tail[k].input]
  BY DEF HeldByEnqueue, CallPhase, TypeInv, CallTypeOK
<1>4. HeldByEnqueue'
  BY <1>1, <1>3, EnqueueOpsStay
<1>5. HeldByCall'
  BY <1>1, <1>2 DEF HeldByCall
<1>6. SentAtMostOnce' /\ WithdrawnIsNotSent' /\ HeldByQueue' /\ HeldByOperation'
  BY DEF SentAtMostOnce, WithdrawnIsNotSent, HeldByQueue, HeldByOperation
<1>7. HeldByDispatch' /\ HeldByRun'
  BY DEF HeldByDispatch, HeldByRun, OneRunPerInput, Running
<1> QED BY <1>4, <1>5, <1>6, <1>7

(* An answered enqueue holds nothing more than before. *)
LEMMA ReplyKeepsCalls ==
  ASSUME TypeInv, HeldByCall, UNCHANGED request \/ \E a \in Answer : Reply(a),
         \A j \in Input : request[j] \in CallPhase => (j \in Untouched => j \in Untouched')
  PROVE  HeldByCall'
<1>1. \A j \in Input : request'[j] \in CallPhase => request[j] \in CallPhase
  BY DEF Reply, Answer, CallPhase, TypeInv, CallTypeOK
<1> QED BY <1>1 DEF HeldByCall

(* The operation of the chain ends and leaves the holders as they were. *)
LEMMA OperationEnds ==
  ASSUME OwnershipInv, Busy, Leave,
         UNCHANGED request \/ \E a \in Answer : Reply(a),
         UNCHANGED <<queue, publishedIn, withdrawn, source, pc, dispatching>>
  PROVE  OneHolder'
<1> USE DEF OwnershipInv, OneHolder
<1>1. Untouched' = Untouched
  BY DEF Untouched
<1>2. HeldByEnqueue'
  BY <1>1, EnqueueOpsEnd DEF EndOp, HeldByEnqueue
<1>3. HeldByCall'
  BY <1>1, ReplyKeepsCalls
<1>4. SentAtMostOnce' /\ WithdrawnIsNotSent' /\ HeldByQueue'
  BY DEF SentAtMostOnce, WithdrawnIsNotSent, HeldByQueue
<1>5. HeldByDispatch' /\ HeldByOperation'
  BY DEF Leave, HeldByDispatch, HeldByOperation
<1>6. HeldByRun'
  BY DEF HeldByRun, OneRunPerInput, Running
<1> QED BY <1>2, <1>3, <1>4, <1>5, <1>6

(* The operation of the chain goes to an await. *)
LEMMA OperationAwaits ==
  ASSUME OwnershipInv, NEW s, NEW i, NEW t, Await(s, i, t), s # "idle",
         s \in {"create", "wait", "register"} =>
           /\ i \in Elems(queue) \cap dispatching
           /\ \A u \in Turn : Running(u) => source[u] # i,
         s \in {"withdraw", "steer", "publish"} => i \in Elems(queue) \ dispatching,
         UNCHANGED <<queue, publishedIn, withdrawn, source, pc, dispatching, request>>
  PROVE  OneHolder'
<1> USE DEF OwnershipInv, OneHolder
<1>1. Untouched' = Untouched
  BY DEF Untouched
<1>2. step' = s /\ opInput' = i /\ UNCHANGED tail
  BY DEF Await
<1>3. HeldByEnqueue'
  BY <1>1, <1>2, EnqueueOpsStay
<1>4. HeldByCall'
  BY <1>1 DEF HeldByCall
<1>5. SentAtMostOnce' /\ WithdrawnIsNotSent' /\ HeldByQueue'
  BY DEF SentAtMostOnce, WithdrawnIsNotSent, HeldByQueue
<1>6. HeldByDispatch' /\ HeldByOperation'
  BY <1>2 DEF HeldByDispatch, HeldByOperation, Running
<1>7. HeldByRun'
  BY DEF HeldByRun, OneRunPerInput, Running
<1> QED BY <1>3, <1>4, <1>5, <1>6, <1>7

(* A dispatch marks its input, which no run has, or ends the operation. *)
LEMMA DispatchHolds ==
  ASSUME OwnershipInv, Busy, NEW i \in Elems(queue) \ dispatching, NEW p, Dispatch(i, p),
         UNCHANGED <<queue, publishedIn, withdrawn, source, pc>>
  PROVE  OneHolder'
<1> USE DEF OwnershipInv, OneHolder
<1>1. CASE HoldsBack(p) \/ ~AcceptingWork
  <2>1. EndOp /\ UNCHANGED dispatching
    BY <1>1 DEF Dispatch
  <2>2. \E a \in Answer : Reply(a)
    BY <1>1 DEF Dispatch, Answer
  <2> QED BY <2>1, <2>2, OperationEnds DEF EndOp
<1>2. CASE ~(HoldsBack(p) \/ ~AcceptingWork)
  <2>1. /\ dispatching' = dispatching \cup {i}
        /\ step' = "create" /\ opInput' = i /\ UNCHANGED <<tail, request>>
    BY <1>2 DEF Dispatch, Await
  <2>2. Untouched' = Untouched
    BY DEF Untouched
  <2>3. HeldByEnqueue'
    BY <2>1, <2>2, EnqueueOpsStay
  <2>4. HeldByCall'
    BY <2>1, <2>2 DEF HeldByCall
  <2>5. SentAtMostOnce' /\ WithdrawnIsNotSent' /\ HeldByQueue'
    BY DEF SentAtMostOnce, WithdrawnIsNotSent, HeldByQueue
  <2>6. HeldByDispatch' /\ HeldByOperation'
    BY <2>1 DEF HeldByDispatch, HeldByOperation, HeldByRun, Running
  <2>7. HeldByRun'
    BY <2>1 DEF HeldByRun, OneRunPerInput, Running
  <2> QED BY <2>3, <2>4, <2>5, <2>6, <2>7
<1> QED BY <1>1, <1>2

(* The message of an input is stored in a turn: it leaves the queue, and   *)
(* whoever else held its own input still does.                             *)
LEMMA MessageStored ==
  ASSUME OwnershipInv, NEW i \in Input, NEW t \in Turn, StoreMessage(i, t),
         publishedIn[i] = <<>>, i \notin withdrawn, UNCHANGED <<withdrawn, source>>
  PROVE  /\ SentAtMostOnce' /\ WithdrawnIsNotSent' /\ HeldByQueue'
         /\ Elems(queue') = Elems(queue) \ {i}
         /\ publishedIn' = [publishedIn EXCEPT ![i] = <<t>>]
         /\ Untouched \ {i} \subseteq Untouched'
<1> USE DEF OwnershipInv, OneHolder
<1>1. /\ Elems(queue') = Elems(queue) \ {i}
      /\ NoRepeats(queue')
  BY WithoutElems DEF StoreMessage, HeldByQueue, TypeInv, ExecutionTypeOK
<1>2. /\ publishedIn' = [publishedIn EXCEPT ![i] = <<t>>]
      /\ publishedIn \in [Input -> Seq(Turn)]
  BY DEF StoreMessage, TypeInv, ExecutionTypeOK
<1>3. \A j \in Input : publishedIn'[j] = IF j = i THEN <<t>> ELSE publishedIn[j]
  BY <1>2
<1>4. SentAtMostOnce'
  <2>1. Len(<<t>>) = 1
    OBVIOUS
  <2>2. ASSUME NEW j \in Input PROVE Len(publishedIn'[j]) <= 1
    <3>1. CASE j = i
      <4>1. publishedIn'[j] = <<t>>
        BY <1>3, <3>1
      <4> QED BY <2>1, <4>1
    <3>2. CASE j # i
      BY <1>3, <3>2 DEF SentAtMostOnce
    <3> QED BY <3>1, <3>2
  <2> QED BY <2>2 DEF SentAtMostOnce
<1>5. withdrawn \subseteq Input /\ Elems(queue) \subseteq Input
  BY ElemsSubset DEF TypeInv, QueueMemoryTypeOK, ExecutionTypeOK
<1>6. WithdrawnIsNotSent'
  BY <1>1, <1>3, <1>5 DEF WithdrawnIsNotSent
<1>7. HeldByQueue'
  BY <1>1, <1>3, <1>5 DEF HeldByQueue
<1>8. Untouched \ {i} \subseteq Untouched'
  BY <1>1, <1>3 DEF Untouched
<1> QED BY <1>1, <1>2, <1>4, <1>6, <1>7, <1>8

(* A run begins for an input that no other run has. *)
LEMMA RunBegins ==
  ASSUME OwnershipInv, NEW t \in Turn, NEW k, NEW i, BeginRun(t, k, i),
         UNCHANGED <<withdrawn, dispatching>>,
         \/ i = NoInput
         \/ /\ i \in Input
            /\ publishedIn[i] = <<>>
            /\ i \notin withdrawn
            /\ i \in Elems(queue) => i \in dispatching
            /\ \A u \in Turn : Running(u) => source[u] # i
  PROVE  /\ SentAtMostOnce' /\ WithdrawnIsNotSent' /\ HeldByQueue' /\ HeldByRun'
         /\ UNCHANGED <<queue, publishedIn>>
         /\ Untouched \ {i} \subseteq Untouched'
         /\ \A u \in Turn : Running(u)' => (Running(u) /\ source'[u] = source[u]) \/ source'[u] = i
<1> USE DEF OwnershipInv, OneHolder
<1>1. /\ UNCHANGED <<queue, publishedIn>>
      /\ pc[t] = "none"
      /\ pc' = [pc EXCEPT ![t] = "registered"]
      /\ source' = [source EXCEPT ![t] = i]
  BY DEF BeginRun, threadVars
<1>2. \A u \in Turn : /\ pc'[u] = IF u = t THEN "registered" ELSE pc[u]
                      /\ source'[u] = IF u = t THEN i ELSE source[u]
  BY <1>1 DEF TypeInv, ExecutionTypeOK
<1>3. SentAtMostOnce' /\ WithdrawnIsNotSent' /\ HeldByQueue'
  BY <1>1 DEF SentAtMostOnce, WithdrawnIsNotSent, HeldByQueue
<1>4. Untouched \ {i} \subseteq Untouched'
  BY <1>1, <1>2 DEF Untouched
<1>5. \A u \in Turn : Running(u)' => (Running(u) /\ source'[u] = source[u]) \/ source'[u] = i
  BY <1>2 DEF Running
<1>6. OneRunPerInput'
  BY <1>2, <1>5 DEF HeldByRun, OneRunPerInput, Running
<1>7. Elems(queue) \subseteq Input
  BY ElemsSubset DEF TypeInv, ExecutionTypeOK
<1>8. HeldByRun'
  BY <1>1, <1>2, <1>5, <1>6, <1>7, NoInputAssumption DEF HeldByRun
<1> QED BY <1>1, <1>3, <1>4, <1>5, <1>8

(* A call that keeps or gives up its input has no enqueue operation. *)
LEMMA CallLeavesEnqueueOps ==
  ASSUME OwnershipInv, NEW i \in Input, NEW to, request[i] # "enqueue",
         request' = [request EXCEPT ![i] = to], Untouched \ {i} \subseteq Untouched',
         UNCHANGED <<tail, step>>
  PROVE  HeldByEnqueue'
<1>1. \A k \in EnqueueOps : tail[k].input # i /\ tail[k].input \in Input
  BY DEF OwnershipInv, OneHolder, HeldByEnqueue, EnqueueOps, TypeInv, ChainTypeOK
<1>2. \A k \in EnqueueOps : request'[tail[k].input] = request[tail[k].input]
  BY <1>1 DEF OwnershipInv, TypeInv, CallTypeOK
<1> QED BY <1>1, <1>2, EnqueueOpsStay DEF OwnershipInv, OneHolder

(* A call hands its input to an enqueue operation. *)
LEMMA EnqueueJoinsHolds ==
  ASSUME OwnershipInv, NEW i \in Input, request[i] \in CallPhase,
         request' = [request EXCEPT ![i] = "enqueue"],
         UNCHANGED <<queue, publishedIn, source, pc>>, Add(InputOp("enqueue", i))
  PROVE  OneHolder'
<1> USE DEF OwnershipInv, OneHolder
<1> DEFINE op == InputOp("enqueue", i)
<1>1. /\ tail' = Append(tail, op)
      /\ UNCHANGED <<withdrawn, step, opInput, dispatching>>
  BY DEF Add
<1>2. op \in Operation /\ op.input = i
  BY OperationsTyped
<1>3. i \in Untouched /\ request[i] # "enqueue"
  BY DEF HeldByCall, CallPhase
<1> HIDE DEF op
<1>4. HeldByEnqueue'
  BY <1>1, <1>2, <1>3, EnqueueOpsJoin
<1>5. Untouched' = Untouched
  BY <1>1 DEF Untouched
<1>6. HeldByCall'
  BY <1>5 DEF HeldByCall, CallPhase, TypeInv, CallTypeOK
<1>7. SentAtMostOnce' /\ WithdrawnIsNotSent' /\ HeldByQueue' /\ HeldByOperation'
  BY <1>1 DEF SentAtMostOnce, WithdrawnIsNotSent, HeldByQueue, HeldByOperation
<1>8. HeldByDispatch' /\ HeldByRun'
  BY <1>1 DEF HeldByDispatch, HeldByRun, OneRunPerInput, Running
<1> QED BY <1>4, <1>6, <1>7, <1>8

-----------------------------------------------------------------------------
(* Every step keeps one holder for every input.                            *)

(* Steps of a run and of its cancellation writer. *)
LEMMA RunnerStepHolds ==
  ASSUME OwnershipInv, NEW t \in Turn, RunnerStep(t)
  PROVE  OneHolder'
<1> USE DEF OwnershipInv, OneHolder
<1>a. UNCHANGED <<withdrawn, tail, step, opInput, dispatching, request>>
  BY DEF RunnerStep, Proceed, queueVars
<1>b. pc \in [Turn -> PC]
  BY DEF TypeInv, ExecutionTypeOK
<1>1. ASSUME PublishInput(t) PROVE OneHolder'
  <2>1. /\ pc[t] = "started"
        /\ pc' = [pc EXCEPT ![t] = "running"]
        /\ UNCHANGED <<source>>
    BY <1>1 DEF PublishInput, Goto
  <2>2. \A u \in Turn : pc'[u] = IF u = t THEN "running" ELSE pc[u]
    BY <1>b, <2>1
  <2>3. CASE source[t] = NoInput
    <3>1. UNCHANGED <<queue, publishedIn>>
      BY <1>1, <2>3 DEF PublishInput, threadVars
    <3> QED BY <1>a, <2>1, <2>2, <3>1, HoldersStay DEF Running
  <2>4. CASE source[t] # NoInput
    <3> DEFINE i == source[t]
    <3>1. i \in Input /\ StoreMessage(i, t)
      BY <1>1, <2>4 DEF PublishInput, TypeInv, ExecutionTypeOK
    <3>2. Running(t) /\ publishedIn[i] = <<>> /\ i \notin withdrawn
      BY <2>1, <2>4 DEF HeldByRun, Running
    <3>3. i \notin Untouched
      BY DEF Untouched
    <3>4. i \in Elems(queue) => i \in dispatching
      BY <3>2 DEF HeldByRun
    <3> HIDE DEF i
    <3>5. /\ SentAtMostOnce' /\ WithdrawnIsNotSent' /\ HeldByQueue'
          /\ Elems(queue') = Elems(queue) \ {i}
          /\ publishedIn' = [publishedIn EXCEPT ![i] = <<t>>]
          /\ Untouched \subseteq Untouched'
      BY <1>a, <2>1, <3>1, <3>2, <3>3, MessageStored
    <3>6. HeldByEnqueue'
      BY <1>a, <3>5, EnqueueOpsStay
    <3>7. HeldByCall'
      BY <1>a, <3>5 DEF HeldByCall
    <3>8. \A u \in Turn : Running(u)' <=> Running(u)
      BY <2>1, <2>2 DEF Running
    <3>9. HeldByDispatch'
      <4>1. step \in {"create", "wait", "register"} => opInput # i
        BY <3>2 DEF HeldByDispatch, i
      <4> QED BY <1>a, <2>1, <3>5, <3>8, <4>1 DEF HeldByDispatch
    <3>10. HeldByOperation'
      BY <1>a, <3>4, <3>5 DEF HeldByOperation
    <3>11. HeldByRun'
      <4>1. OneRunPerInput'
        BY <2>1, <3>8 DEF HeldByRun, OneRunPerInput
      <4>2. \A u \in Turn : pc'[u] \in {"registered", "started"} /\ source[u] # NoInput =>
              source[u] # i /\ publishedIn'[source[u]] = publishedIn[source[u]]
        <5> SUFFICES ASSUME NEW u \in Turn, pc'[u] \in {"registered", "started"}, source[u] # NoInput
                     PROVE  source[u] # i
          BY <3>1, <3>5 DEF TypeInv, ExecutionTypeOK
        <5>1. u # t /\ Running(u)
          BY <2>2 DEF Running
        <5> QED BY <3>2, <5>1 DEF HeldByRun, OneRunPerInput, i
      <4>3. \A u \in Turn : pc'[u] \in {"registered", "started"} => pc[u] \in {"registered", "started"}
        BY <2>2
      <4> QED BY <1>a, <2>1, <3>5, <3>8, <4>1, <4>2, <4>3 DEF HeldByRun
    <3> QED BY <3>5, <3>6, <3>7, <3>9, <3>10, <3>11
  <2> QED BY <2>3, <2>4
<1>2. CASE ~PublishInput(t)
  <2>1. UNCHANGED <<queue, publishedIn, source>>
    BY <1>2 DEF RunnerStep, Proceed, WriteStarted, ShellUnavailable, DrainSteers,
       CloseTurn, FinalDrain, CompleteTurn, StopByHook, CompleteStopped, CompleteShell, FailTurn,
       WriteError, NoticeAbort, LeaveAborted, CheckTerminal, WriteCancelled, StoreTerminal, threadVars
  <2>2. \/ UNCHANGED pc
        \/ /\ pc[t] \in {"registered", "started", "running", "closing", "finalizing", "stopping",
                         "failing", "aborting"}
           /\ \E to \in PC \ {"registered", "started"} : pc' = [pc EXCEPT ![t] = to]
        \/ pc[t] = "registered" /\ pc' = [pc EXCEPT ![t] = "started"]
    BY <1>2 DEF RunnerStep, Proceed, WriteStarted, ShellUnavailable, DrainSteers,
       CloseTurn, FinalDrain, CompleteTurn, StopByHook, CompleteStopped, CompleteShell, FailTurn,
       WriteError, NoticeAbort, LeaveAborted, CheckTerminal, WriteCancelled, Goto, PC
  <2>3. \A u \in Turn : pc'[u] # pc[u] => Running(u) /\ pc'[u] # "registered"
                                          /\ (pc'[u] = "started" => pc[u] = "registered")
    BY <1>b, <2>2 DEF Running
  <2> QED BY <1>a, <2>1, <2>3, HoldersStay
<1> QED BY <1>1, <1>2

(* A run settles: its input, if it was dispatched, may be picked again. *)
LEMMA SettleRunHolds ==
  ASSUME OwnershipInv, NEW t \in Turn, SettleRun(t)
  PROVE  OneHolder'
<1> USE DEF OwnershipInv, OneHolder
<1>1. /\ UNCHANGED <<queue, publishedIn, withdrawn, source, step, opInput, request>>
      /\ dispatching' = dispatching \ {source[t]}
      /\ pc[t] = "settling"
      /\ pc' = [pc EXCEPT ![t] = "done"]
      /\ tail' = Append(tail, SettleOp(t))
  BY DEF SettleRun, EndRun, Goto, threadVars
<1>2. \A u \in Turn : pc'[u] = IF u = t THEN "done" ELSE pc[u]
  BY <1>1 DEF TypeInv, ExecutionTypeOK
<1>3. Untouched' = Untouched
  BY <1>1 DEF Untouched
<1>4. HeldByEnqueue'
  <2>1. SettleOp(t) \in Operation /\ SettleOp(t).do # "enqueue"
    BY EmptySeq DEF SettleOp, Operation
  <2> QED BY <1>1, <2>1, EnqueueOpsJoin
<1>5. HeldByCall'
  BY <1>1, <1>3 DEF HeldByCall
<1>6. SentAtMostOnce' /\ WithdrawnIsNotSent' /\ HeldByQueue'
  BY <1>1 DEF SentAtMostOnce, WithdrawnIsNotSent, HeldByQueue
<1>7. Running(t) /\ \A u \in Turn : Running(u)' <=> Running(u) /\ u # t
  BY <1>1, <1>2 DEF Running
<1>8. HeldByDispatch' /\ HeldByOperation'
  BY <1>1, <1>7 DEF HeldByDispatch, HeldByOperation
<1>9. HeldByRun'
  <2>1. OneRunPerInput'
    BY <1>1, <1>7 DEF HeldByRun, OneRunPerInput
  <2>2. \A u \in Turn : Running(u)' /\ source[u] \in Elems(queue) => source[u] # source[t]
    <3>1. NoInput \notin Elems(queue)
      BY ElemsSubset, NoInputAssumption DEF TypeInv, ExecutionTypeOK
    <3> QED BY <1>7, <3>1 DEF HeldByRun, OneRunPerInput
  <2>3. \A u \in Turn : pc'[u] \in {"registered", "started"} => pc[u] \in {"registered", "started"}
    BY <1>2
  <2> QED BY <1>1, <1>7, <2>1, <2>2, <2>3 DEF HeldByRun
<1> QED BY <1>4, <1>5, <1>6, <1>8, <1>9

(* Steps of the operation at the head of the chain. *)
LEMMA ChainStepHolds ==
  ASSUME OwnershipInv, ChainStep
  PROVE  OneHolder'
<1> USE DEF OwnershipInv, OneHolder
<1>a. UNCHANGED executionVars => UNCHANGED <<queue, publishedIn, source, pc>>
  BY DEF executionVars, threadVars, runVars
<1>b. Elems(queue) \subseteq Input
  BY ElemsSubset DEF TypeInv, ExecutionTypeOK
<1>1. ASSUME NEW t \in Turn, StartDispatched(t) PROVE OneHolder'
  <2>1. /\ step = "register" /\ step' = "observe"
        /\ UNCHANGED <<withdrawn, tail, dispatching, request>>
        /\ BeginRun(t, "regular", opInput)
    BY <1>1 DEF StartDispatched, Register, At
  <2>2. opInput \in Elems(queue) \cap dispatching /\ \A u \in Turn : Running(u) => source[u] # opInput
    BY <2>1 DEF HeldByDispatch
  <2>3. publishedIn[opInput] = <<>> /\ opInput \notin withdrawn
    BY <2>2 DEF HeldByQueue
  <2>4. /\ SentAtMostOnce' /\ WithdrawnIsNotSent' /\ HeldByQueue' /\ HeldByRun'
        /\ Untouched \ {opInput} \subseteq Untouched'
    BY <1>b, <2>1, <2>2, <2>3, RunBegins
  <2>5. Untouched \subseteq Untouched'
    BY <2>2, <2>4 DEF Untouched
  <2>6. HeldByEnqueue'
    BY <2>1, <2>5, EnqueueOpsStay
  <2>7. HeldByCall'
    BY <2>1, <2>5 DEF HeldByCall
  <2>8. HeldByDispatch' /\ HeldByOperation'
    BY <2>1 DEF HeldByDispatch, HeldByOperation
  <2> QED BY <2>4, <2>6, <2>7, <2>8
<1>11. ASSUME ObserveDispatched PROVE OneHolder'
  <2>1. /\ Busy /\ Leave /\ \E a \in Answer : Reply(a)
        /\ UNCHANGED <<queue, publishedIn, withdrawn, source, pc, dispatching>>
    BY <1>a, <1>11 DEF ObserveDispatched, At, Answer
  <2> QED BY <2>1, OperationEnds
<1>2. ASSUME CreateDispatched \/ FinalizedTurnSettled PROVE OneHolder'
  <2>1. \E s \in {"wait", "register"} : \E t : Await(s, opInput, t)
    BY <1>2 DEF CreateDispatched, FinalizedTurnSettled
  <2>2. UNCHANGED <<queue, publishedIn, withdrawn, source, pc, dispatching, request>>
    BY <1>a, <1>2 DEF CreateDispatched, FinalizedTurnSettled
  <2>3. opInput \in Elems(queue) \cap dispatching /\ \A u \in Turn : Running(u) => source[u] # opInput
    BY <1>2 DEF CreateDispatched, FinalizedTurnSettled, At, HeldByDispatch
  <2> QED BY <2>1, <2>2, <2>3, OperationAwaits
<1>3. ASSUME DispatchFails PROVE OneHolder'
  <2>1. /\ Busy /\ step = "register" /\ EndOp /\ \E a \in Answer : Reply(a)
        /\ UNCHANGED <<queue, publishedIn, withdrawn, source, pc>>
        /\ dispatching' = dispatching \ {opInput}
    BY <1>a, <1>3 DEF DispatchFails, At, Answer
  <2>2. Untouched' = Untouched
    BY <2>1 DEF Untouched
  <2>3. HeldByEnqueue'
    BY <2>1, <2>2, EnqueueOpsEnd DEF EndOp, HeldByEnqueue
  <2>4. HeldByCall'
    BY <2>1, <2>2, ReplyKeepsCalls
  <2>5. SentAtMostOnce' /\ WithdrawnIsNotSent' /\ HeldByQueue'
    BY <2>1 DEF SentAtMostOnce, WithdrawnIsNotSent, HeldByQueue
  <2>6. HeldByDispatch' /\ HeldByOperation'
    BY <2>1 DEF EndOp, Leave, HeldByDispatch, HeldByOperation
  <2>7. HeldByRun'
    BY <2>1 DEF HeldByRun, OneRunPerInput, Running, HeldByDispatch
  <2> QED BY <2>3, <2>4, <2>5, <2>6, <2>7
<1>4. ASSUME Enqueue PROVE OneHolder'
  <2>1. Busy /\ step = "idle" /\ Op.do = "enqueue"
    BY <1>4 DEF Enqueue, Starts
  <2>2. CASE QueueFull
    <3>1. EndOp /\ \E a \in Answer : Reply(a)
      BY <1>4, <2>2 DEF Enqueue, Answer
    <3>2. UNCHANGED <<queue, publishedIn, withdrawn, source, pc, dispatching>>
      BY <1>4, <2>2 DEF Enqueue, runVars
    <3> QED BY <2>1, <3>1, <3>2, OperationEnds DEF EndOp
  <2>3. CASE ~QueueFull
    <3> DEFINE i == Op.input
    <3>1. /\ queue' = Append(queue, i)
          /\ step' = "resume"
          /\ UNCHANGED <<publishedIn, withdrawn, source, pc, dispatching, request, tail>>
      BY <1>4, <2>3 DEF Enqueue, Await, runVars
    <3>2. Op = tail[1] /\ 1 \in EnqueueOps
      BY <2>1, HeadTailProperties, LenProperties, EmptySeq DEF TypeInv, ChainTypeOK, Busy, Op, EnqueueOps
    <3>3. i \in Untouched /\ request[i] = "enqueue" /\ i \in Input
      BY <2>1, <3>2 DEF HeldByEnqueue, Untouched
    <3>4. \A k \in EnqueueOps : k # 1 => tail[k].input # i
      BY <3>2 DEF HeldByEnqueue
    <3> HIDE DEF i
    <3>5. Elems(queue') = Elems(queue) \cup {i} /\ NoRepeats(queue')
      BY <3>1, <3>3, AppendNew DEF Untouched, HeldByQueue, TypeInv, ExecutionTypeOK
    <3>6. Untouched \ {i} \subseteq Untouched'
      BY <3>1, <3>5 DEF Untouched
    <3>7. HeldByEnqueue'
      BY <3>1, <3>4, <3>6, EnqueueOpsStay
    <3>8. HeldByCall'
      BY <3>1, <3>3, <3>6 DEF HeldByCall, CallPhase
    <3>9. SentAtMostOnce' /\ WithdrawnIsNotSent' /\ HeldByQueue'
      BY <3>1, <3>3, <3>5 DEF SentAtMostOnce, WithdrawnIsNotSent, HeldByQueue, Untouched
    <3>10. HeldByDispatch' /\ HeldByOperation'
      BY <3>1 DEF HeldByDispatch, HeldByOperation
    <3>11. HeldByRun'
      BY <3>1, <3>3, <3>5 DEF HeldByRun, OneRunPerInput, Running, Untouched
    <3> QED BY <3>7, <3>8, <3>9, <3>10, <3>11
  <2> QED BY <2>2, <2>3
<1>5. ASSUME ResumeAfterEnqueue \/ ContinueAfterCompletion PROVE OneHolder'
  <2>1. Busy /\ UNCHANGED <<queue, publishedIn, withdrawn, source, pc>>
    BY <1>a, <1>5 DEF ResumeAfterEnqueue, ContinueAfterCompletion, At
  <2>2. CASE \E i \in Input, p \in {FALSE, paused} : IsNext(i) /\ Dispatch(i, p)
    <3>1. PICK i \in Input, p \in {FALSE, paused} : IsNext(i) /\ Dispatch(i, p)
      BY <2>2
    <3>2. i \in Elems(queue) \ dispatching
      BY <3>1 DEF IsNext, Elems
    <3> QED BY <2>1, <3>1, <3>2, DispatchHolds
  <2>3. CASE EndOp /\ UNCHANGED dispatching /\ (UNCHANGED request \/ \E a \in Answer : Reply(a))
    BY <2>1, <2>3, OperationEnds DEF EndOp
  <2> QED BY <1>5, <2>2, <2>3 DEF ResumeAfterEnqueue, ContinueAfterCompletion, Answer
<1>6. ASSUME CheckReorder \/ CheckWithdraw \/ ReadOutcome \/ PauseAfterInterruption PROVE OneHolder'
  <2>1. /\ Busy
        /\ UNCHANGED <<queue, publishedIn, withdrawn, source, pc, dispatching, request>>
    BY <1>a, <1>6 DEF CheckReorder, CheckWithdraw, ReadOutcome, PauseAfterInterruption, Starts, At
  <2>2. CASE EndOp
    BY <2>1, <2>2, OperationEnds DEF EndOp
  <2>3. CASE \E s \in {"reorder", "completed", "interrupted"} : Await(s, NoInput, NoTurn)
    BY <2>1, <2>3, OperationAwaits
  <2>4. CASE Selectable(Op.input) /\ Await("withdraw", Op.input, NoTurn)
    BY <2>1, <2>4, OperationAwaits DEF Selectable
  <2> QED BY <1>6, <2>2, <2>3, <2>4
          DEF CheckReorder, CheckWithdraw, ReadOutcome, PauseAfterInterruption, Outcome
<1>7. ASSUME StoreReorder PROVE OneHolder'
  <2>1. /\ Busy /\ EndOp
        /\ queue' \in [1 .. Len(queue) -> Elems(queue)]
        /\ Sorted(queue', queue, Op.order)
        /\ UNCHANGED <<publishedIn, withdrawn, source, pc, dispatching, request>>
    BY <1>7 DEF StoreReorder, At, runVars
  <2>2. Op.order \in Seq(Input)
    BY <2>1, HeadTyped DEF TypeInv, Operation
  <2>3. Elems(queue') = Elems(queue) /\ NoRepeats(queue')
    <3>1. Len(queue) \in Nat /\ queue \in Seq(Input)
      BY LenProperties DEF TypeInv, ExecutionTypeOK
    <3>2. Len(queue') \in Nat
      BY <2>1, <3>1
    <3> QED BY <2>1, <2>2, <3>1, <3>2, SortedNoRepeats
  <2>4. Untouched' = Untouched
    BY <2>1, <2>3 DEF Untouched
  <2>5. HeldByEnqueue'
    BY <2>1, <2>4, EnqueueOpsEnd DEF EndOp, HeldByEnqueue
  <2>6. HeldByCall'
    BY <2>1, <2>4 DEF HeldByCall
  <2>7. SentAtMostOnce' /\ WithdrawnIsNotSent' /\ HeldByQueue'
    BY <2>1, <2>3 DEF SentAtMostOnce, WithdrawnIsNotSent, HeldByQueue
  <2>8. HeldByDispatch' /\ HeldByOperation'
    BY <2>1 DEF EndOp, Leave, HeldByDispatch, HeldByOperation
  <2>9. HeldByRun'
    BY <2>1, <2>3 DEF HeldByRun, OneRunPerInput, Running
  <2> QED BY <2>5, <2>6, <2>7, <2>8, <2>9
<1>8. ASSUME StoreWithdraw PROVE OneHolder'
  <2>1. /\ Busy /\ step = "withdraw" /\ EndOp
        /\ queue' = Without(queue, opInput)
        /\ withdrawn' = withdrawn \cup {opInput}
        /\ UNCHANGED <<publishedIn, source, pc, dispatching, request>>
    BY <1>8 DEF StoreWithdraw, At, runVars
  <2>2. opInput \in Elems(queue) \ dispatching
    BY <2>1 DEF HeldByOperation
  <2>3. Elems(queue') = Elems(queue) \ {opInput} /\ NoRepeats(queue')
    BY <2>1, WithoutElems DEF HeldByQueue, TypeInv, ExecutionTypeOK
  <2>4. Untouched \subseteq Untouched'
    BY <2>1, <2>2, <2>3 DEF Untouched
  <2>5. HeldByEnqueue'
    BY <2>1, <2>4, EnqueueOpsEnd DEF EndOp, HeldByEnqueue
  <2>6. HeldByCall'
    BY <2>1, <2>4 DEF HeldByCall
  <2>7. SentAtMostOnce' /\ WithdrawnIsNotSent' /\ HeldByQueue'
    BY <2>1, <2>2, <2>3 DEF SentAtMostOnce, WithdrawnIsNotSent, HeldByQueue
  <2>8. HeldByDispatch' /\ HeldByOperation'
    BY <2>1 DEF EndOp, Leave, HeldByDispatch, HeldByOperation
  <2>9. HeldByRun'
    BY <2>1, <2>2, <2>3 DEF HeldByRun, OneRunPerInput, Running
  <2> QED BY <2>5, <2>6, <2>7, <2>8, <2>9
<1>9. ASSUME SendNow \/ RecheckSendNow PROVE OneHolder'
  <2>1. /\ Busy
        /\ UNCHANGED <<queue, publishedIn, withdrawn, source, pc>>
    BY <1>9 DEF SendNow, RecheckSendNow, Starts, At, threadVars
  <2>2. CASE EndOp /\ UNCHANGED <<dispatching, request>>
    BY <2>1, <2>2, OperationEnds DEF EndOp
  <2>3. ASSUME NEW s \in {"steer", "publish"}, NEW t, NEW i \in Elems(queue) \ dispatching,
               Await(s, i, t), UNCHANGED <<dispatching, request>>
        PROVE  OneHolder'
    BY <2>1, <2>3, OperationAwaits
  <2>4. ASSUME NEW i \in Elems(queue) \ dispatching, Dispatch(i, FALSE)
        PROVE  OneHolder'
    BY <2>1, <2>4, DispatchHolds
  <2>5. RecheckSendNow => opInput \in Elems(queue) \ dispatching
    BY DEF RecheckSendNow, At, HeldByOperation
  <2>6. CASE SendNow
    <3>1. \/ EndOp /\ UNCHANGED <<dispatching, request>>
          \/ /\ Op.input \in Elems(queue) \ dispatching
             /\ \/ /\ Await("steer", Op.input, ActiveTurn)
                   /\ UNCHANGED <<dispatching, request>>
                \/ Dispatch(Op.input, FALSE)
      BY <2>6 DEF SendNow, Selectable
    <3>2. CASE Await("steer", Op.input, ActiveTurn) /\ UNCHANGED <<dispatching, request>>
               /\ Op.input \in Elems(queue) \ dispatching
      BY <2>3, <3>2
    <3>3. CASE Dispatch(Op.input, FALSE) /\ Op.input \in Elems(queue) \ dispatching
      BY <2>4, <3>3
    <3> QED BY <2>2, <3>1, <3>2, <3>3
  <2>7. CASE RecheckSendNow
    <3>1. \/ EndOp /\ UNCHANGED <<dispatching, request>>
          \/ /\ Await("publish", opInput, opTurn)
             /\ UNCHANGED <<dispatching, request>>
          \/ Dispatch(opInput, FALSE)
      BY <2>7 DEF RecheckSendNow
    <3>2. opInput \in Elems(queue) \ dispatching
      BY <2>5, <2>7
    <3>3. CASE Await("publish", opInput, opTurn) /\ UNCHANGED <<dispatching, request>>
      BY <2>3, <3>2, <3>3
    <3>4. CASE Dispatch(opInput, FALSE)
      BY <2>4, <3>2, <3>4
    <3> QED BY <2>2, <3>1, <3>3, <3>4
  <2> QED BY <1>9, <2>6, <2>7
<1>10. ASSUME PublishSendNow PROVE OneHolder'
  <2> DEFINE i == opInput
  <2>1. /\ Busy /\ step = "publish" /\ EndOp
        /\ StoreMessage(i, opTurn)
        /\ UNCHANGED <<withdrawn, source, pc, dispatching, request>>
    BY <1>10 DEF PublishSendNow, AcceptSteer, At
  <2>2. i \in Elems(queue) \ dispatching
    BY <2>1 DEF HeldByOperation
  <2>3. publishedIn[i] = <<>> /\ i \notin withdrawn /\ i \notin Untouched
    BY <2>2 DEF HeldByQueue, Untouched
  <2>4. i \in Input /\ opTurn \in Turn
    BY <2>1 DEF TypeInv, ChainTypeOK
  <2> HIDE DEF i
  <2>5. /\ SentAtMostOnce' /\ WithdrawnIsNotSent' /\ HeldByQueue'
        /\ Elems(queue') = Elems(queue) \ {i}
        /\ publishedIn' = [publishedIn EXCEPT ![i] = <<opTurn>>]
        /\ Untouched \subseteq Untouched'
    BY <2>1, <2>3, <2>4, MessageStored
  <2>6. HeldByEnqueue'
    BY <2>1, <2>5, EnqueueOpsEnd DEF EndOp, HeldByEnqueue
  <2>7. HeldByCall'
    BY <2>1, <2>5 DEF HeldByCall
  <2>8. HeldByDispatch' /\ HeldByOperation'
    BY <2>1 DEF EndOp, Leave, HeldByDispatch, HeldByOperation
  <2>9. HeldByRun'
    <3>1. \A t \in Turn : Running(t) => source[t] # i
      BY <2>2 DEF HeldByRun
    <3>2. \A t \in Turn : pc[t] \in {"registered", "started"} /\ source[t] # NoInput =>
            publishedIn'[source[t]] = publishedIn[source[t]]
      BY <2>4, <2>5, <3>1 DEF Running, TypeInv, ExecutionTypeOK
    <3> QED BY <2>1, <2>5, <3>2 DEF HeldByRun, OneRunPerInput, Running
  <2> QED BY <2>5, <2>6, <2>7, <2>8, <2>9
<1> QED
  BY <1>1, <1>2, <1>3, <1>4, <1>5, <1>6, <1>7, <1>8, <1>9, <1>10, <1>11 DEF ChainStep

(* Steps of a call after its admission. *)
LEMMA CallStepHolds ==
  ASSUME OwnershipInv, NEW i \in Input, CallStep(i)
  PROVE  OneHolder'
<1> USE DEF OwnershipInv, OneHolder
<1>a. /\ UNCHANGED executionVars => UNCHANGED <<queue, publishedIn, source, pc>>
      /\ UNCHANGED queueVars => UNCHANGED <<withdrawn, tail, step, opInput, dispatching>>
  BY DEF executionVars, threadVars, runVars, queueVars
<1>1. ASSUME LookForActive(i) \/ LookAtQueue(i) \/ CreateDirect(i) \/ DirectWaitOver(i)
             \/ DirectFails(i) \/ RecheckSteer(i) \/ ObserveDirect(i)
      PROVE  OneHolder'
  <2>1. \E to \in CallPhase \cup Answer :
          /\ request[i] \in CallPhase \/ (request[i] = "observe" /\ to \in Answer)
          /\ request' = [request EXCEPT ![i] = to]
    BY <1>1 DEF LookForActive, LookAtQueue, CreateDirect, DirectWaitOver, DirectFails,
       RecheckSteer, ObserveDirect, Ask, CallPhase, Answer
  <2>2. UNCHANGED <<queue, publishedIn, withdrawn, source, pc, tail, step, opInput, dispatching>>
    BY <1>a, <1>1 DEF LookForActive, LookAtQueue, CreateDirect, DirectWaitOver, DirectFails,
       RecheckSteer, ObserveDirect, threadVars
  <2> QED BY <2>1, <2>2, CallGoesOn
<1>2. ASSUME RedirectToQueue(i) PROVE OneHolder'
  <2>1. /\ request[i] \in CallPhase
        /\ request' = [request EXCEPT ![i] = "enqueue"]
        /\ UNCHANGED <<queue, publishedIn, source, pc>>
        /\ Add(InputOp("enqueue", i))
    BY <1>a, <1>2 DEF RedirectToQueue, Ask, CallPhase
  <2> QED BY <2>1, EnqueueJoinsHolds
<1>3. ASSUME NEW t \in Turn, StartDirect(i, t) PROVE OneHolder'
  <2>1. /\ request[i] = "register"
        /\ request' = [request EXCEPT ![i] = "observe"]
        /\ BeginRun(t, "regular", i)
        /\ UNCHANGED <<withdrawn, tail, step, opInput, dispatching>>
    BY <1>3 DEF StartDirect, Register, Ask
  <2>2. i \in Untouched
    BY <2>1 DEF HeldByCall, CallPhase
  <2>3. /\ SentAtMostOnce' /\ WithdrawnIsNotSent' /\ HeldByQueue' /\ HeldByRun'
        /\ UNCHANGED <<queue, publishedIn>>
        /\ Untouched \ {i} \subseteq Untouched'
        /\ \A u \in Turn : Running(u)' => (Running(u) /\ source'[u] = source[u]) \/ source'[u] = i
    BY <2>1, <2>2, RunBegins DEF Untouched
  <2>4. HeldByEnqueue'
    BY <2>1, <2>2, <2>3, CallLeavesEnqueueOps
  <2>5. HeldByCall'
    BY <2>1, <2>3 DEF HeldByCall, CallPhase, TypeInv, CallTypeOK
  <2>6. HeldByDispatch' /\ HeldByOperation'
    BY <2>1, <2>2, <2>3 DEF HeldByDispatch, HeldByOperation, Untouched
  <2> QED BY <2>3, <2>4, <2>5, <2>6
<1>4. ASSUME PublishSteer(i) PROVE OneHolder'
  <2>1. /\ request[i] = "publish"
        /\ request' = [request EXCEPT ![i] = "accepted"]
        /\ StoreMessage(i, target[i])
        /\ UNCHANGED <<withdrawn, tail, step, opInput, dispatching, source, pc>>
    BY <1>a, <1>4 DEF PublishSteer, Ask, AcceptSteer
  <2>2. i \in Untouched /\ target[i] \in Turn
    BY <2>1 DEF HeldByCall, CallPhase, TypeInv, CallTypeOK
  <2>3. /\ SentAtMostOnce' /\ WithdrawnIsNotSent' /\ HeldByQueue'
        /\ Elems(queue') = Elems(queue) \ {i}
        /\ publishedIn' = [publishedIn EXCEPT ![i] = <<target[i]>>]
        /\ Untouched \ {i} \subseteq Untouched'
    BY <2>1, <2>2, MessageStored DEF Untouched
  <2>4. HeldByEnqueue'
    BY <2>1, <2>2, <2>3, CallLeavesEnqueueOps
  <2>5. HeldByCall'
    BY <2>1, <2>3 DEF HeldByCall, CallPhase, TypeInv, CallTypeOK
  <2>6. Elems(queue') = Elems(queue)
    BY <2>2, <2>3 DEF Untouched
  <2>7. HeldByDispatch' /\ HeldByOperation'
    BY <2>1, <2>6 DEF HeldByDispatch, HeldByOperation, Running
  <2>8. HeldByRun'
    <3>1. \A t \in Turn : source[t] # i
      BY <2>2 DEF Untouched
    <3>2. \A t \in Turn : source[t] # NoInput => publishedIn'[source[t]] = publishedIn[source[t]]
      BY <2>3, <3>1 DEF TypeInv, ExecutionTypeOK
    <3> QED BY <2>1, <2>6, <3>2 DEF HeldByRun, OneRunPerInput, Running
  <2> QED BY <2>3, <2>4, <2>5, <2>7, <2>8
<1> QED BY <1>1, <1>2, <1>3, <1>4 DEF CallStep

(* What the user does. *)
LEMMA UserHolds ==
  ASSUME OwnershipInv, User
  PROVE  OneHolder'
<1> USE DEF OwnershipInv, OneHolder
<1>a. /\ UNCHANGED executionVars => UNCHANGED <<queue, publishedIn, source, pc>>
      /\ UNCHANGED queueVars => UNCHANGED <<withdrawn, tail, step, opInput, dispatching>>
  BY DEF executionVars, threadVars, runVars, queueVars
<1>1. ASSUME NEW i \in Input, StartTurn(i) \/ StartUnattended(i) \/ SteerTurn(i) PROVE OneHolder'
  <2>1. \E to \in CallPhase \cup Answer : request[i] \in CallPhase /\ request' = [request EXCEPT ![i] = to]
    BY <1>1 DEF StartTurn, StartUnattended, SteerTurn, Ask, CallPhase
  <2>2. UNCHANGED <<queue, publishedIn, withdrawn, source, pc, tail, step, opInput, dispatching>>
    BY <1>a, <1>1 DEF StartTurn, StartUnattended, SteerTurn, threadVars
  <2> QED BY <2>1, <2>2, CallGoesOn
<1>2. ASSUME NEW i \in Input, QueueInput(i) PROVE OneHolder'
  <2>1. /\ request[i] \in CallPhase
        /\ request' = [request EXCEPT ![i] = "enqueue"]
        /\ UNCHANGED <<queue, publishedIn, source, pc>>
        /\ Add(InputOp("enqueue", i))
    BY <1>a, <1>2 DEF QueueInput, Ask, CallPhase
  <2> QED BY <2>1, EnqueueJoinsHolds
<1>3. ASSUME NEW op \in Operation, op.do # "enqueue", Click(op) PROVE OneHolder'
  <2>1. /\ tail' = Append(tail, op)
        /\ UNCHANGED <<queue, publishedIn, withdrawn, source, pc, step, opInput, dispatching, request>>
    BY <1>a, <1>3 DEF Click, Add
  <2>2. HeldByEnqueue'
    BY <1>3, <2>1, EnqueueOpsJoin
  <2>3. Untouched' = Untouched
    BY <2>1 DEF Untouched
  <2>4. HeldByCall'
    BY <2>1, <2>3 DEF HeldByCall
  <2>5. SentAtMostOnce' /\ WithdrawnIsNotSent' /\ HeldByQueue' /\ HeldByOperation'
    BY <2>1 DEF SentAtMostOnce, WithdrawnIsNotSent, HeldByQueue, HeldByOperation
  <2>6. HeldByDispatch' /\ HeldByRun'
    BY <2>1 DEF HeldByDispatch, HeldByRun, OneRunPerInput, Running
  <2> QED BY <2>2, <2>4, <2>5, <2>6
<1>4. ASSUME NEW i \in Input, ClickSendNow(i) \/ ClickWithdraw(i) PROVE OneHolder'
  <2>1. \E do \in {"sendNow", "withdraw"} : Click(InputOp(do, i))
    BY <1>4 DEF ClickSendNow, ClickWithdraw
  <2>2. \A do \in {"sendNow", "withdraw"} : InputOp(do, i) \in Operation /\ InputOp(do, i).do # "enqueue"
    BY OperationsTyped DEF InputOp
  <2> QED BY <1>3, <2>1, <2>2
<1>5. ASSUME Drag PROVE OneHolder'
  <2>1. PICK order \in [1 .. Len(queue) -> Elems(queue)] : Click(ReorderOp(order))
    BY <1>5 DEF Drag
  <2>2. order \in Seq(Input)
    <3>1. Len(queue) \in Nat /\ Elems(queue) \subseteq Input
      BY LenProperties, ElemsSubset DEF TypeInv, ExecutionTypeOK
    <3> QED BY <3>1
  <2> QED BY <1>3, <2>1, <2>2, OperationsTyped
<1>6. ASSUME NEW t \in Turn, CancelTurn(t) \/ ForceCancel(t) PROVE OneHolder'
  <2>1. UNCHANGED <<queue, publishedIn, withdrawn, source, pc, tail, step, opInput, dispatching, request>>
    BY <1>a, <1>6 DEF CancelTurn, ForceCancel, threadVars
  <2> QED BY <2>1, HoldersStay
<1>7. ASSUME NEW t \in Turn, StartReview(t) \/ StartShell(t) PROVE OneHolder'
  <2>1. /\ \E k \in {"review", "user_shell"} : BeginRun(t, k, NoInput)
        /\ UNCHANGED <<withdrawn, tail, step, opInput, dispatching, request>>
    BY <1>7 DEF StartReview, StartShell, Register
  <2>2. /\ SentAtMostOnce' /\ WithdrawnIsNotSent' /\ HeldByQueue' /\ HeldByRun'
        /\ UNCHANGED <<queue, publishedIn>>
        /\ Untouched \ {NoInput} \subseteq Untouched'
        /\ \A u \in Turn : Running(u)' => (Running(u) /\ source'[u] = source[u]) \/ source'[u] = NoInput
    BY <2>1, RunBegins
  <2>3. Untouched \subseteq Untouched'
    BY <2>2, NoInputAssumption DEF Untouched
  <2>4. HeldByEnqueue'
    BY <2>1, <2>3, EnqueueOpsStay
  <2>5. HeldByCall'
    BY <2>1, <2>3 DEF HeldByCall
  <2>6. NoInput \notin Elems(queue)
    BY ElemsSubset, NoInputAssumption DEF TypeInv, ExecutionTypeOK
  <2>7. HeldByDispatch' /\ HeldByOperation'
    BY <2>1, <2>2, <2>6 DEF HeldByDispatch, HeldByOperation
  <2> QED BY <2>2, <2>4, <2>5, <2>7
<1> QED BY <1>1, <1>2, <1>4, <1>5, <1>6, <1>7 DEF User

(* The deletion barrier, the maintenance gate and forced cancellations. *)
LEMMA RuntimeHolds ==
  ASSUME OwnershipInv,
         \/ BeginDeletion \/ DeletionProgress \/ \E t \in Turn : ObserveReview(t)
         \/ PrepareMigration \/ CancelMigration \/ \E t \in Turn : WriteForced(t)
  PROVE  OneHolder'
<1>1. UNCHANGED <<queue, publishedIn, source, pc>>
  BY DEF BeginDeletion, DeletionProgress, CancelSlot, SlotEmpty, CancellationsWritten,
     AdmissionsDrained, DeleteThread, DeletionFails, PrepareMigration, CancelMigration,
     ObserveReview, WriteForced, StoreTerminal, executionVars, threadVars, runVars
<1>2. UNCHANGED <<withdrawn, tail, step, opInput, dispatching, request>>
  BY DEF BeginDeletion, DeletionProgress, CancelSlot, SlotEmpty, CancellationsWritten,
     AdmissionsDrained, DeleteThread, DeletionFails, Deletion, PrepareMigration, CancelMigration,
     ObserveReview, WriteForced, queueVars
<1> QED BY <1>1, <1>2, HoldersStay

(* After a restart the queue holds what it held; calls hold nothing more. *)
LEMMA RestartHolds ==
  ASSUME OwnershipInv, Restart
  PROVE  OneHolder'
<1> USE DEF OwnershipInv, OneHolder
<1>1. /\ UNCHANGED <<queue, publishedIn, withdrawn, source>>
      /\ tail' = <<>> /\ step' = "idle"
      /\ pc' = [t \in Turn |-> IF pc[t] = "none" THEN "none" ELSE "done"]
      /\ request' = [i \in Input |-> IF request[i] \in {"none"} \cup Answer
                                       THEN request[i] ELSE "unknown"]
  BY DEF Restart
<1>2. Untouched' = Untouched
  BY <1>1 DEF Untouched
<1>3. HeldByCall'
  BY <1>1, <1>2 DEF HeldByCall, CallPhase
<1>4. HeldByEnqueue'
  <2>1. EnqueueOps' = {}
    BY <1>1, EmptySeq DEF EnqueueOps
  <2> QED BY <2>1 DEF HeldByEnqueue
<1>5. SentAtMostOnce' /\ WithdrawnIsNotSent' /\ HeldByQueue'
  BY <1>1 DEF SentAtMostOnce, WithdrawnIsNotSent, HeldByQueue
<1>6. HeldByDispatch' /\ HeldByOperation'
  BY <1>1 DEF HeldByDispatch, HeldByOperation
<1>7. \A t \in Turn : ~Running(t)' /\ pc'[t] \notin {"registered", "started"}
  BY <1>1 DEF Running
<1>8. HeldByRun'
  BY <1>7 DEF HeldByRun, OneRunPerInput
<1> QED BY <1>3, <1>4, <1>5, <1>6, <1>8

(* At first every input is with its call. *)
LEMMA InitHolds == Init => OneHolder
<1> SUFFICES ASSUME Init PROVE OneHolder
  OBVIOUS
<1> USE DEF Init, RegistryInit, ExecutionInit, QueueInit
<1>1. Elems(queue) = {} /\ EnqueueOps = {} /\ NoRepeats(queue)
  BY EmptySeq DEF Elems, EnqueueOps, NoRepeats
<1>2. Untouched = Input
  BY <1>1, NoInputAssumption DEF Untouched
<1>3. SentAtMostOnce /\ WithdrawnIsNotSent
  BY EmptySeq DEF SentAtMostOnce, WithdrawnIsNotSent
<1>4. HeldByCall /\ HeldByEnqueue /\ HeldByQueue
  BY <1>1, <1>2 DEF HeldByCall, HeldByEnqueue, HeldByQueue
<1>5. HeldByDispatch /\ HeldByOperation /\ HeldByRun
  BY DEF HeldByDispatch, HeldByOperation, HeldByRun, OneRunPerInput, Running
<1> QED BY <1>3, <1>4, <1>5 DEF OneHolder

(* Every step of the specification. *)
LEMMA NextHolds == OwnershipInv /\ [Next]_vars => OneHolder'
<1> SUFFICES ASSUME OwnershipInv, [Next]_vars PROVE OneHolder'
  OBVIOUS
<1>1. CASE UNCHANGED vars
  <2>1. UNCHANGED <<queue, publishedIn, withdrawn, source, pc, tail, step, opInput, dispatching, request>>
    BY <1>1 DEF vars, executionVars, threadVars, runVars, queueVars
  <2> QED BY <2>1, HoldersStay
<1>2. CASE Next
  BY <1>2, RunnerStepHolds, SettleRunHolds, ChainStepHolds, CallStepHolds, UserHolds,
     RuntimeHolds, RestartHolds DEF Next
<1> QED BY <1>1, <1>2

(* Ownership is an invariant: at any time one party at most can still send *)
(* or withdraw an input, across cancellations, failures and restarts.      *)
THEOREM Ownership == Spec => []OneHolder
<1>1. Init => OwnershipInv
  BY InitTyped, InitHolds DEF OwnershipInv
<1>2. OwnershipInv /\ [Next]_vars => OwnershipInv'
  BY NextTyped, NextHolds DEF OwnershipInv
<1>3. OwnershipInv => OneHolder
  BY DEF OwnershipInv
<1> QED BY <1>1, <1>2, <1>3, PTL DEF Spec

(* The user message of an input is stored once at most. *)
THEOREM NothingSentTwice == Spec => []SentAtMostOnce
<1>1. OneHolder => SentAtMostOnce
  BY DEF OneHolder
<1> QED BY <1>1, Ownership, PTL

(* What the user took back is neither queued nor sent. *)
THEOREM NothingWithdrawnIsSent == Spec => []WithdrawnIsNotSent
<1>1. OneHolder => WithdrawnIsNotSent
  BY DEF OneHolder
<1> QED BY <1>1, Ownership, PTL

(* No input drives two runs of the thread at the same time. *)
THEOREM NoInputRunsTwice == Spec => []OneRunPerInput
<1>1. OneHolder => OneRunPerInput
  BY DEF OneHolder, HeldByRun
<1> QED BY <1>1, Ownership, PTL

-----------------------------------------------------------------------------
(* The thread implements the ledger of inputs.                             *)

LedgerStep == [Ledger!LedgerNext]_(Ledger!ledgerVars)

(* Storing the message of an input is sending it. *)
LEMMA StoreMessageSends ==
  ASSUME OwnershipInv, NEW i \in Input, NEW t \in Turn, StoreMessage(i, t),
         publishedIn[i] = <<>>, i \notin withdrawn, UNCHANGED <<withdrawn, source>>
  PROVE  LedgerStep
<1>1. /\ Elems(queue') = Elems(queue) \ {i}
      /\ publishedIn' = [publishedIn EXCEPT ![i] = <<t>>]
  BY MessageStored
<1>2. Ledger!Send(i, t)
  BY <1>1 DEF Ledger!Send, Ledger!New
<1> QED BY <1>2 DEF LedgerStep, Ledger!LedgerNext

(* Whatever leaves the queue, the messages and the withdrawals alone. *)
LEMMA LedgerStutters ==
  ASSUME UNCHANGED <<queue, publishedIn, withdrawn>>
  PROVE  LedgerStep
BY DEF LedgerStep, Ledger!ledgerVars

(* Every step of the thread is a step of the ledger or none. *)
LEMMA NextIsLedgerStep ==
  ASSUME OwnershipInv, [Next]_vars
  PROVE  LedgerStep
<1> USE DEF OwnershipInv, OneHolder
<1>a. UNCHANGED <<executionVars, queueVars>> => LedgerStep
  BY LedgerStutters DEF executionVars, threadVars, queueVars
<1>1. CASE UNCHANGED vars
  BY <1>a, <1>1 DEF vars
<1>2. ASSUME NEW t \in Turn, RunnerStep(t) PROVE LedgerStep
  <2>1. UNCHANGED withdrawn
    BY <1>2 DEF RunnerStep, Proceed, queueVars
  <2>2. CASE PublishInput(t) /\ source[t] # NoInput
    <3>1. /\ StoreMessage(source[t], t)
          /\ source[t] \in Input
          /\ UNCHANGED source
          /\ pc[t] = "started"
      BY <2>2 DEF PublishInput, Goto, TypeInv, ExecutionTypeOK
    <3>2. publishedIn[source[t]] = <<>> /\ source[t] \notin withdrawn
      BY <2>2, <3>1 DEF HeldByRun
    <3> QED BY <2>1, <3>1, <3>2, StoreMessageSends
  <2>3. CASE ~(PublishInput(t) /\ source[t] # NoInput)
    <3>1. UNCHANGED <<queue, publishedIn>>
      BY <1>2, <2>3 DEF RunnerStep, Proceed, WriteStarted, ShellUnavailable, PublishInput, DrainSteers,
         CloseTurn, FinalDrain, CompleteTurn, StopByHook, CompleteStopped, CompleteShell, FailTurn,
         WriteError, NoticeAbort, LeaveAborted, CheckTerminal, WriteCancelled, StoreTerminal, threadVars
    <3> QED BY <2>1, <3>1, LedgerStutters
  <2> QED BY <2>2, <2>3
<1>3. ASSUME NEW t \in Turn, SettleRun(t) PROVE LedgerStep
  BY <1>3, LedgerStutters DEF SettleRun, EndRun, threadVars
<1>4. ASSUME ChainStep PROVE LedgerStep
  <2>1. CASE Enqueue /\ ~QueueFull
    <3>1. /\ queue' = Append(queue, Op.input)
          /\ UNCHANGED <<publishedIn, withdrawn>>
          /\ Busy /\ step = "idle" /\ Op.do = "enqueue"
      BY <2>1 DEF Enqueue, Starts
    <3>2. Op = tail[1] /\ 1 \in EnqueueOps
      BY <3>1, HeadTailProperties, LenProperties, EmptySeq DEF TypeInv, ChainTypeOK, Busy, Op, EnqueueOps
    <3>3. Op.input \in Untouched /\ Op.input \in Input
      BY <3>1, <3>2 DEF HeldByEnqueue, Untouched
    <3>4. Elems(queue') = Elems(queue) \cup {Op.input}
      BY <3>1, <3>3, AppendNew DEF TypeInv, ExecutionTypeOK
    <3>5. Ledger!Wait(Op.input)
      BY <3>1, <3>3, <3>4 DEF Ledger!Wait, Ledger!New, Untouched
    <3> QED BY <3>3, <3>5 DEF LedgerStep, Ledger!LedgerNext
  <2>2. CASE StoreReorder
    <3>1. /\ Busy
          /\ queue' \in [1 .. Len(queue) -> Elems(queue)]
          /\ Sorted(queue', queue, Op.order)
          /\ UNCHANGED <<publishedIn, withdrawn>>
      BY <2>2 DEF StoreReorder, At
    <3>2. Elems(queue') = Elems(queue)
      BY <3>1 DEF Sorted
    <3> QED BY <3>1, <3>2 DEF LedgerStep, Ledger!ledgerVars
  <2>3. CASE StoreWithdraw
    <3>1. /\ step = "withdraw"
          /\ queue' = Without(queue, opInput)
          /\ withdrawn' = withdrawn \cup {opInput}
          /\ UNCHANGED publishedIn
      BY <2>3 DEF StoreWithdraw, At
    <3>2. opInput \in Elems(queue) /\ opInput \in Input
      BY <3>1 DEF HeldByOperation, TypeInv, ChainTypeOK
    <3>3. Elems(queue') = Elems(queue) \ {opInput}
      BY <3>1, WithoutElems DEF HeldByQueue, TypeInv, ExecutionTypeOK
    <3>4. Ledger!TakeBack(opInput)
      BY <3>1, <3>2, <3>3 DEF Ledger!TakeBack
    <3> QED BY <3>2, <3>4 DEF LedgerStep, Ledger!LedgerNext
  <2>4. CASE PublishSendNow
    <3>1. /\ step = "publish"
          /\ StoreMessage(opInput, opTurn)
          /\ UNCHANGED <<withdrawn, source>>
      BY <2>4 DEF PublishSendNow, AcceptSteer, At
    <3>2. /\ opInput \in Input /\ opTurn \in Turn
          /\ publishedIn[opInput] = <<>> /\ opInput \notin withdrawn
      BY <3>1 DEF HeldByOperation, HeldByQueue, TypeInv, ChainTypeOK
    <3> QED BY <3>1, <3>2, StoreMessageSends
  <2>5. CASE ~((Enqueue /\ ~QueueFull) \/ StoreReorder \/ StoreWithdraw \/ PublishSendNow)
    <3>1. UNCHANGED <<queue, publishedIn, withdrawn>>
      BY <1>4, <2>5 DEF ChainStep, StartDispatched, Register, ObserveDispatched, BeginRun, CreateDispatched, FinalizedTurnSettled,
         DispatchFails, Enqueue, ResumeAfterEnqueue, CheckReorder, CheckWithdraw, SendNow,
         RecheckSendNow, ReadOutcome, PauseAfterInterruption, ContinueAfterCompletion,
         executionVars, threadVars
    <3> QED BY <3>1, LedgerStutters
  <2> QED BY <2>1, <2>2, <2>3, <2>4, <2>5
<1>5. ASSUME NEW i \in Input, CallStep(i) PROVE LedgerStep
  <2>1. CASE PublishSteer(i)
    <3>1. /\ request[i] = "publish"
          /\ StoreMessage(i, target[i])
          /\ UNCHANGED <<withdrawn, source>>
      BY <2>1 DEF PublishSteer, Ask, AcceptSteer, queueVars
    <3>2. i \in Untouched /\ target[i] \in Turn
      BY <3>1 DEF HeldByCall, CallPhase, TypeInv, CallTypeOK
    <3> QED BY <3>1, <3>2, StoreMessageSends DEF Untouched
  <2>2. CASE ~PublishSteer(i)
    <3>1. UNCHANGED <<queue, publishedIn, withdrawn>>
      BY <1>5, <2>2 DEF CallStep, LookForActive, LookAtQueue, RedirectToQueue, Add, CreateDirect,
         DirectWaitOver, StartDirect, Register, ObserveDirect, BeginRun, DirectFails, RecheckSteer,
         executionVars, threadVars, queueVars
    <3> QED BY <3>1, LedgerStutters
  <2> QED BY <2>1, <2>2
<1>6. ASSUME User PROVE LedgerStep
  <2>1. UNCHANGED <<queue, publishedIn, withdrawn>>
    BY <1>6 DEF User, StartTurn, StartUnattended, QueueInput, SteerTurn, ClickSendNow, ClickWithdraw,
       Drag, Click, Add, CancelTurn, ForceCancel, StartReview, StartShell, Register, BeginRun, executionVars, threadVars, queueVars
  <2> QED BY <2>1, LedgerStutters
<1>7. ASSUME BeginDeletion \/ DeletionProgress \/ PrepareMigration \/ CancelMigration
             \/ Restart \/ \E t \in Turn : WriteForced(t) \/ ObserveReview(t)
      PROVE  LedgerStep
  <2>1. UNCHANGED <<queue, publishedIn, withdrawn>>
    BY <1>7 DEF BeginDeletion, DeletionProgress, CancelSlot, SlotEmpty, CancellationsWritten,
       AdmissionsDrained, DeleteThread, DeletionFails, Deletion, PrepareMigration, CancelMigration,
       Restart, WriteForced, ObserveReview, StoreTerminal, executionVars, threadVars, queueVars
  <2> QED BY <2>1, LedgerStutters
<1> QED BY <1>1, <1>2, <1>3, <1>4, <1>5, <1>6, <1>7 DEF Next

(* What the event log says of inputs is a ledger: they wait, are sent once *)
(* or are taken back once, whatever turns, the queue and crashes do.       *)
THEOREM ImplementsLedger == Spec => LedgerSpec
<1>1. Init => Ledger!LedgerInit
  BY EmptySeq DEF Init, ExecutionInit, QueueInit, Ledger!LedgerInit, Elems
<1>2. Init => OwnershipInv
  BY InitTyped, InitHolds DEF OwnershipInv
<1>3. OwnershipInv /\ [Next]_vars => OwnershipInv'
  BY NextTyped, NextHolds DEF OwnershipInv
<1>4. OwnershipInv /\ [Next]_vars => [Ledger!LedgerNext]_(Ledger!ledgerVars)
  BY NextIsLedgerStep DEF LedgerStep
<1> QED BY <1>1, <1>2, <1>3, <1>4, PTL DEF Spec, LedgerSpec, Ledger!LedgerSpec

-----------------------------------------------------------------------------
(* The limit of the queue.                                                 *)

(* Reordering and filtering do not add, and enqueue adds below the limit. *)
LEMMA NextBounded ==
  ASSUME TypeInv, QueueIsBounded, [Next]_vars
  PROVE  QueueIsBounded'
<1> USE DEF TypeInv
<1>a. UNCHANGED queue => QueueIsBounded'
  BY DEF QueueIsBounded
<1>b. Len(queue) \in Nat /\ MaxQueued \in Nat
  BY LenProperties, QueueAssumption DEF ExecutionTypeOK
<1>c. \A i : /\ Without(queue, i) \in Seq(Input)
            /\ Len(Without(queue, i)) <= Len(queue)
  BY WithoutProperties DEF ExecutionTypeOK
<1>d. ASSUME NEW i, queue' = Without(queue, i) PROVE QueueIsBounded'
  <2>1. Len(queue') \in Nat /\ Len(queue') <= Len(queue)
    BY <1>c, <1>d, LenProperties
  <2> QED BY <1>b, <2>1 DEF QueueIsBounded
<1>1. CASE UNCHANGED vars
  BY <1>a, <1>1 DEF vars, executionVars, threadVars
<1>2. ASSUME NEW t \in Turn, RunnerStep(t) PROVE QueueIsBounded'
  BY <1>a, <1>d, <1>2 DEF RunnerStep, Proceed, WriteStarted, ShellUnavailable, PublishInput, StoreMessage,
     DrainSteers, CloseTurn, FinalDrain, CompleteTurn, StopByHook, CompleteStopped, CompleteShell,
     FailTurn, WriteError, NoticeAbort, LeaveAborted, CheckTerminal, WriteCancelled, StoreTerminal, threadVars
<1>3. ASSUME NEW t \in Turn, SettleRun(t) PROVE QueueIsBounded'
  BY <1>a, <1>3 DEF SettleRun, EndRun, threadVars
<1>4. ASSUME ChainStep PROVE QueueIsBounded'
  <2>1. CASE Enqueue /\ ~QueueFull
    <3>1. Op.input \in Input
      BY <2>1, HeadTyped DEF Enqueue, Starts
    <3>2. Len(queue') = Len(queue) + 1
      BY <2>1, <3>1, AppendProperties DEF Enqueue, ExecutionTypeOK
    <3> QED BY <1>b, <2>1, <3>2 DEF QueueFull, QueueIsBounded
  <2>2. CASE StoreReorder
    <3>1. Len(queue') = Len(queue)
      BY <1>b, <2>2 DEF StoreReorder
    <3> QED BY <3>1 DEF QueueIsBounded
  <2>3. CASE StoreWithdraw \/ PublishSendNow
    BY <1>d, <2>3 DEF StoreWithdraw, PublishSendNow, AcceptSteer, StoreMessage
  <2>4. CASE ~((Enqueue /\ ~QueueFull) \/ StoreReorder \/ StoreWithdraw \/ PublishSendNow)
    <3>1. UNCHANGED queue
      BY <1>4, <2>4 DEF ChainStep, StartDispatched, Register, ObserveDispatched, BeginRun, CreateDispatched, FinalizedTurnSettled,
         DispatchFails, Enqueue, ResumeAfterEnqueue, CheckReorder, CheckWithdraw, SendNow,
         RecheckSendNow, ReadOutcome, PauseAfterInterruption, ContinueAfterCompletion,
         executionVars, threadVars
    <3> QED BY <1>a, <3>1
  <2> QED BY <2>1, <2>2, <2>3, <2>4
<1>5. ASSUME NEW i \in Input, CallStep(i) PROVE QueueIsBounded'
  BY <1>a, <1>d, <1>5 DEF CallStep, LookForActive, LookAtQueue, RedirectToQueue, CreateDirect,
     DirectWaitOver, StartDirect, Register, ObserveDirect, BeginRun, DirectFails, RecheckSteer, PublishSteer, AcceptSteer,
     StoreMessage, executionVars, threadVars
<1>6. ASSUME User PROVE QueueIsBounded'
  BY <1>a, <1>6 DEF User, StartTurn, StartUnattended, QueueInput, SteerTurn, ClickSendNow, ClickWithdraw,
     Drag, Click, CancelTurn, ForceCancel, StartReview, StartShell, Register, BeginRun, executionVars, threadVars
<1>7. ASSUME BeginDeletion \/ DeletionProgress \/ PrepareMigration \/ CancelMigration
             \/ Restart \/ \E t \in Turn : WriteForced(t) \/ ObserveReview(t)
      PROVE  QueueIsBounded'
  BY <1>a, <1>7 DEF BeginDeletion, DeletionProgress, CancelSlot, SlotEmpty, CancellationsWritten,
     AdmissionsDrained, DeleteThread, DeletionFails, PrepareMigration, CancelMigration,
     Restart, WriteForced, ObserveReview, StoreTerminal, executionVars, threadVars
<1> QED BY <1>1, <1>2, <1>3, <1>4, <1>5, <1>6, <1>7 DEF Next

(* The queue never holds more than MAX_QUEUED_INPUTS_PER_THREAD, although  *)
(* the capacity check and the append are two awaits.                       *)
THEOREM QueueBounded == Spec => []QueueIsBounded
<1>1. Init => TypeInv /\ QueueIsBounded
  BY InitTyped, QueueAssumption, EmptySeq DEF Init, ExecutionInit, QueueIsBounded
<1>2. TypeInv /\ QueueIsBounded /\ [Next]_vars => (TypeInv /\ QueueIsBounded)'
  BY NextTyped, NextBounded
<1> QED BY <1>1, <1>2, PTL DEF Spec

=============================================================================
