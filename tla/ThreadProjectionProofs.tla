----------------------- MODULE ThreadProjectionProofs -----------------------
(***************************************************************************)
(* Type correctness of ThreadProjection; that a window implements the      *)
(* abstract view of ThreadView: every number on its way from the log to    *)
(* the window is the number of a stored event, and every batch increases;  *)
(* and that a window misses nothing when only the event writer appends, no *)
(* event rewrites the history and no older answer is put in its place.     *)
(* The last invariant follows an event from                                *)
(* the log to the window: what is stored and not yet processed by the      *)
(* connection is being published, pending or replayed, and from there on   *)
(* every frame, every event of a batch and every batch follows its         *)
(* predecessor without a gap.                                              *)
(***************************************************************************)
EXTENDS ThreadProjection, SequenceTheorems, TLAPS

(* Sequence numbers that may be on their way: 0, "nothing yet", or stored. *)
Known == 0 .. LastSeq
KnownFrame == [resync : BOOLEAN, seq : Known]
KnownBatch == [resync : Known \cup {NoSeq}, events : Seq(Known)]

LogTyped ==
  /\ LogTypeOK
  /\ before \in Known \cup {NoSeq}
  /\ own # NoSeq => before # NoSeq

HandlerTyped ==
  /\ phase \in Phase
  /\ sinceSeq \in Known /\ processed \in Known
  /\ replay \subseteq Known
  /\ pending \in Seq(Known)
  /\ sending \in Known \cup {NoSeq}
  /\ wire \in Seq(KnownFrame)

HostTyped ==
  /\ cursor \in Known
  /\ batch \in Seq(Known)
  /\ ipc \in Seq(KnownBatch)
  /\ faults \in Nat

WindowTyped ==
  /\ seq \in Known
  /\ missing \subseteq Known
  /\ setBack \in Known
  /\ wanted \in BOOLEAN
  /\ update \in {"none", "want", "clear"}
  /\ recovery \in Recovery
  /\ snapshot \in Known \cup {NoSeq}
  /\ fetched \in Known \cup {NoSeq}
  /\ visits \in Nat

TypeInv == LogTyped /\ HandlerTyped /\ HostTyped /\ WindowTyped

-----------------------------------------------------------------------------
(* Sequences and sequence numbers.                                         *)

(* The numbers a party is about to publish are numbers of stored events. *)
LEMMA IntervalTyped ==
  ASSUME NEW a \in Nat, NEW b \in Nat
  PROVE  Interval(a, b) \in Seq(1 .. b)
<1>1. CASE b - a \in Nat
  <2>1. Interval(a, b) \in [1 .. b - a -> 1 .. b]
    BY <1>1 DEF Interval
  <2> QED BY <1>1, <2>1
<1>2. CASE b - a \notin Nat
  <2>1. 1 .. b - a = {}
    BY <1>2
  <2>2. Interval(a, b) = <<>>
    BY <2>1 DEF Interval
  <2> QED BY <2>2, EmptySeq
<1> QED BY <1>1, <1>2

(* What follows a place in a queue is a queue of the same numbers. *)
LEMMA RestTyped ==
  ASSUME NEW S, NEW queue \in Seq(S), NEW i \in 1 .. Len(queue) + 1
  PROVE  /\ SubSeq(queue, i, Len(queue)) \in Seq(S)
         /\ SubSeq(queue, i + 1, Len(queue)) \in Seq(S)
         /\ i <= Len(queue) => queue[i] \in S
<1>1. Len(queue) \in Nat
  BY LenProperties
<1>2. i \in Int /\ i + 1 \in Int /\ Len(queue) \in Int
  BY <1>1
<1>3. \A j \in 1 .. Len(queue) : queue[j] \in S
  BY ElementOfSeq
<1>4. \A j \in i .. Len(queue) : queue[j] \in S
  BY <1>1, <1>3
<1>5. \A j \in i + 1 .. Len(queue) : queue[j] \in S
  BY <1>1, <1>3
<1>6. SubSeq(queue, i, Len(queue)) \in Seq(S)
  BY <1>2, <1>4, SubSeqProperties
<1>7. SubSeq(queue, i + 1, Len(queue)) \in Seq(S)
  BY <1>2, <1>5, SubSeqProperties
<1> QED BY <1>1, <1>3, <1>6, <1>7

-----------------------------------------------------------------------------
(* The log grows, and what was known stays known.                          *)

(* Nothing that is on its way is touched when the log grows. *)
LEMMA Growth ==
  ASSUME HandlerTyped, HostTyped, WindowTyped, UNCHANGED <<streamVars, projectionVars>>,
         LastSeq \in Nat, LastSeq' \in Nat, LastSeq <= LastSeq'
  PROVE  HandlerTyped' /\ HostTyped' /\ WindowTyped'
<1>1. Known \subseteq Known'
  BY DEF Known
<1>2. Seq(Known) \subseteq Seq(Known')
  BY <1>1, SeqMonotonic
<1>3. KnownFrame \subseteq KnownFrame'
  BY <1>1 DEF KnownFrame
<1>4. KnownBatch \subseteq KnownBatch'
  BY <1>1, <1>2 DEF KnownBatch
<1>5. Seq(KnownFrame) \subseteq Seq(KnownFrame')
  BY <1>3, SeqMonotonic
<1>6. Seq(KnownBatch) \subseteq Seq(KnownBatch')
  BY <1>4, SeqMonotonic
<1>7. HandlerTyped'
  BY <1>1, <1>2, <1>5 DEF HandlerTyped, streamVars
<1>8. HostTyped'
  BY <1>1, <1>2, <1>6 DEF HostTyped, streamVars
<1>9. WindowTyped'
  BY <1>1 DEF WindowTyped, projectionVars
<1> QED BY <1>7, <1>8, <1>9

(* The appenders keep the log's types, and the log only grows. *)
LEMMA StoreTyped ==
  ASSUME LogTyped,
         WriterStores \/ DirectReads \/ DirectStores \/ SilentStores \/ ArchiveDeltas
  PROVE  /\ LogTyped'
         /\ LastSeq \in Nat /\ LastSeq' \in Nat /\ LastSeq <= LastSeq'
<1> USE LogAssumption DEF LogTyped, LogTypeOK, Known, SeqNo, LastSeq, NoSeq
<1>0. Len(log) \in Nat
  BY LenProperties
<1>a. ASSUME NEW k \in Kind, Append1(k)
      PROVE  log' \in Seq(EventKind) /\ Len(log') = Len(log) + 1
  BY <1>a, <1>0, AppendProperties DEF Append1
<1>1. CASE WriterStores
  <2>1. PICK n \in 1 .. MaxBlock, kinds \in [1 .. MaxBlock -> Kind] :
          /\ writing = <<>>
          /\ log' = log \o SubSeq(kinds, 1, n)
          /\ writing' = Interval(Len(log), Len(log) + n)
          /\ UNCHANGED <<archived, before, own, silent>>
    BY <1>1 DEF WriterStores
  <2>2. \A j \in 1 .. n : kinds[j] \in EventKind
    OBVIOUS
  <2>3. SubSeq(kinds, 1, n) \in Seq(EventKind) /\ Len(SubSeq(kinds, 1, n)) = n
    BY <2>2, SubSeqProperties
  <2>4. log' \in Seq(EventKind) /\ Len(log') = Len(log) + n
    BY <2>1, <2>3, ConcatProperties
  <2>5. writing' \in Seq(1 .. Len(log'))
    <3>1. Interval(Len(log), Len(log) + n) \in Seq(1 .. Len(log) + n)
      BY <1>0, IntervalTyped
    <3> QED BY <2>1, <2>4, <3>1
  <2> QED BY <1>0, <2>1, <2>4, <2>5
<1>g. ASSUME log' \in Seq(EventKind), Len(log') = Len(log) + 1, UNCHANGED writing
      PROVE  writing' \in Seq(1 .. Len(log'))
  <2>1. 1 .. Len(log) \subseteq 1 .. Len(log')
    BY <1>0, <1>g
  <2> QED BY <1>g, <2>1, SeqMonotonic
<1>2. CASE DirectReads
  BY <1>0, <1>2 DEF DirectReads
<1>3. CASE DirectStores
  <2>1. log' \in Seq(EventKind) /\ Len(log') = Len(log) + 1
    BY <1>3, <1>a DEF DirectStores
  <2>2. /\ before # NoSeq /\ own' = Len(log) + 1
        /\ UNCHANGED <<archived, writing, before, silent>>
    BY <1>3 DEF DirectStores
  <2>3. writing' \in Seq(1 .. Len(log'))
    BY <1>g, <2>1, <2>2
  <2> QED BY <1>0, <2>1, <2>2, <2>3
<1>4. CASE SilentStores
  <2>1. log' \in Seq(EventKind) /\ Len(log') = Len(log) + 1
    BY <1>4, <1>a DEF SilentStores
  <2>2. UNCHANGED <<archived, writing, before, own>> /\ silent' = silent + 1
    BY <1>4 DEF SilentStores
  <2>3. writing' \in Seq(1 .. Len(log'))
    BY <1>g, <2>1, <2>2
  <2> QED BY <1>0, <2>1, <2>2, <2>3
<1>5. CASE ArchiveDeltas
  BY <1>0, <1>5 DEF ArchiveDeltas
<1> QED BY <1>1, <1>2, <1>3, <1>4, <1>5

-----------------------------------------------------------------------------
(* The connection's handler.                                               *)

(* Nothing is known yet. *)
LEMMA InitTyped == Init => TypeInv
<1> SUFFICES ASSUME Init PROVE TypeInv
  OBVIOUS
<1> USE DEF Init, LogInit, StreamInit
<1>1. Len(<<>>) = 0
  BY EmptySeq
<1>2. 0 \in Known
  BY <1>1 DEF Known, LastSeq
<1>3. LogTyped
  BY <1>1, EmptySeq DEF LogTyped, LogTypeOK, LastSeq, SeqNo, NoSeq
<1>4. HandlerTyped
  BY <1>2, EmptySeq DEF HandlerTyped, Phase, NoSeq
<1>5. HostTyped
  BY <1>2, EmptySeq DEF HostTyped
<1>6. WindowTyped
  BY <1>2 DEF WindowTyped, Recovery, NoSeq
<1> QED BY <1>3, <1>4, <1>5, <1>6 DEF TypeInv

(* A frame written carries a known number. *)
LEMMA WriteTyped ==
  ASSUME HandlerTyped, NEW s \in Known, Write(s)
  PROVE  sending' \in Known \cup {NoSeq} /\ wire' \in Seq(KnownFrame)
<1>1. EventFrame(s) \in KnownFrame
  BY DEF EventFrame, KnownFrame
<1> QED BY <1>1, AppendProperties DEF Write, HandlerTyped

(* A pump moves numbers from its queue to the wire. *)
LEMMA PumpTyped ==
  ASSUME HandlerTyped, NEW queue \in Seq(Known), NEW p, Pump(queue, p)
  PROVE  /\ pending' \in Seq(Known)
         /\ sending' \in Known \cup {NoSeq}
         /\ wire' \in Seq(KnownFrame)
<1>1. PICK i \in 1 .. Len(queue) + 1 :
        /\ pending' = SubSeq(queue, i + 1, Len(queue))
        /\ IF i > Len(queue) THEN sending' = NoSeq /\ UNCHANGED wire ELSE Write(queue[i])
  BY DEF Pump
<1>2. Len(queue) \in Nat
  BY LenProperties
<1>3. pending' \in Seq(Known)
  BY <1>1, RestTyped
<1>4. CASE i > Len(queue)
  BY <1>1, <1>3, <1>4 DEF HandlerTyped
<1>5. CASE ~(i > Len(queue))
  <2>1. queue[i] \in Known
    BY <1>2, <1>5, RestTyped
  <2>2. Write(queue[i])
    BY <1>1, <1>5
  <2> QED BY <1>3, <2>1, <2>2, WriteTyped
<1> QED BY <1>4, <1>5

(* Sorting what is pending keeps it what it is. *)
LEMMA GoLiveTyped ==
  ASSUME HandlerTyped, NEW p, GoLive(p)
  PROVE  /\ phase' \in Phase /\ replay' \subseteq Known
         /\ pending' \in Seq(Known)
         /\ sending' \in Known \cup {NoSeq}
         /\ wire' \in Seq(KnownFrame)
<1>1. PICK order \in Bijection(DOMAIN pending, DOMAIN pending) :
        Pump([i \in DOMAIN pending |-> pending[order[i]]], p)
  BY Zenon DEF GoLive
<1> DEFINE sorted == [i \in DOMAIN pending |-> pending[order[i]]]
<1>2. order \in [DOMAIN pending -> DOMAIN pending]
  BY <1>1 DEF Bijection, Injection, Surjection
<1>3. pending \in [1 .. Len(pending) -> Known] /\ Len(pending) \in Nat
  BY LenProperties DEF HandlerTyped
<1>4. sorted \in [1 .. Len(pending) -> Known]
  BY <1>2, <1>3
<1>5. sorted \in Seq(Known)
  BY <1>3, <1>4
<1>6. Pump(sorted, p)
  BY <1>1
<1>7. /\ pending' \in Seq(Known)
      /\ sending' \in Known \cup {NoSeq}
      /\ wire' \in Seq(KnownFrame)
  BY <1>5, <1>6, PumpTyped
<1> QED BY <1>7 DEF GoLive, Phase

(* The replay writes stored numbers only. *)
LEMMA WriteReplayTyped ==
  ASSUME HandlerTyped, NEW stored \in SUBSET Known, NEW p, WriteReplay(stored, p)
  PROVE  /\ phase' \in Phase /\ replay' \subseteq Known
         /\ pending' \in Seq(Known)
         /\ sending' \in Known \cup {NoSeq}
         /\ wire' \in Seq(KnownFrame)
<1> DEFINE rest == {s \in stored : s > p}
<1>1. CASE rest = {}
  <2>1. GoLive(p)
    BY <1>1 DEF WriteReplay
  <2> QED BY <2>1, GoLiveTyped
<1>2. CASE rest # {}
  <2>1. PICK s \in rest : /\ Write(s)
                          /\ phase' = "replay" /\ replay' = rest \ {s}
                          /\ UNCHANGED pending
    BY <1>2 DEF WriteReplay
  <2>2. sending' \in Known \cup {NoSeq} /\ wire' \in Seq(KnownFrame)
    BY <2>1, WriteTyped
  <2> QED BY <2>1, <2>2 DEF HandlerTyped, Phase
<1> QED BY <1>1, <1>2

(* The subscriber queues, writes, or closes on a full queue. *)
LEMMA AcceptTyped ==
  ASSUME HandlerTyped, NEW events \in Seq(Known), Accept(events)
  PROVE  /\ phase' \in Phase
         /\ pending' \in Seq(Known)
         /\ sending' \in Known \cup {NoSeq}
         /\ wire' \in Seq(KnownFrame)
<1> DEFINE fresh(i) == SubSeq(events, i, Len(events))
           starts(i) == phase = "live" /\ sending = NoSeq /\ fresh(i) # <<>>
           queue(i) == pending \o (IF starts(i) THEN Tail(fresh(i)) ELSE fresh(i))
<1>1. PICK i \in 1 .. Len(events) + 1 :
        IF ~Subscribed \/ fresh(i) = <<>>
        THEN UNCHANGED <<phase, pending, sending, wire>>
        ELSE IF Len(queue(i)) > MaxPending
        THEN /\ phase' = "closed" /\ pending' = <<>> /\ sending' = NoSeq
             /\ wire' = IF starts(i) THEN Append(wire, EventFrame(Head(fresh(i)))) ELSE wire
        ELSE /\ pending' = queue(i)
             /\ IF starts(i) THEN Write(Head(fresh(i))) ELSE UNCHANGED <<sending, wire>>
             /\ UNCHANGED phase
  BY DEF Accept
<1>2. fresh(i) \in Seq(Known)
  BY RestTyped
<1>3. CASE ~Subscribed \/ fresh(i) = <<>>
  BY <1>1, <1>3 DEF HandlerTyped
<1>4. CASE ~(~Subscribed \/ fresh(i) = <<>>)
  <2>1. Head(fresh(i)) \in Known /\ Tail(fresh(i)) \in Seq(Known)
    BY <1>2, <1>4, HeadTailProperties
  <2>2. queue(i) \in Seq(Known)
    BY <1>2, <2>1, ConcatProperties DEF HandlerTyped
  <2>3. EventFrame(Head(fresh(i))) \in KnownFrame
    BY <2>1 DEF EventFrame, KnownFrame
  <2>4. Append(wire, EventFrame(Head(fresh(i)))) \in Seq(KnownFrame)
    BY <2>3, AppendProperties DEF HandlerTyped
  <2> HIDE DEF fresh, starts, queue
  <2>5. CASE Len(queue(i)) > MaxPending
    BY <1>1, <1>4, <2>4, <2>5, EmptySeq DEF HandlerTyped, Phase
  <2>6. CASE ~(Len(queue(i)) > MaxPending)
    <3>1. /\ pending' = queue(i)
          /\ IF starts(i) THEN Write(Head(fresh(i))) ELSE UNCHANGED <<sending, wire>>
          /\ UNCHANGED phase
      BY <1>1, <1>4, <2>6
    <3>2. sending' \in Known \cup {NoSeq} /\ wire' \in Seq(KnownFrame)
      BY <2>1, <3>1, WriteTyped DEF HandlerTyped
    <3> QED BY <2>2, <3>1, <3>2 DEF HandlerTyped
  <2> QED BY <2>5, <2>6
<1> QED BY <1>3, <1>4

(* What is known does not change while the log does not. *)
LEMMA KnownSame ==
  ASSUME UNCHANGED log
  PROVE  Known' = Known /\ KnownFrame' = KnownFrame /\ KnownBatch' = KnownBatch
<1>1. Known' = Known
  BY DEF Known, LastSeq
<1> QED BY <1>1 DEF KnownFrame, KnownBatch

(* The handler's steps write what is stored. *)
LEMMA HandlerStepTyped ==
  ASSUME LogTyped, HandlerTyped, HostTyped, HandlerStep
  PROVE  HandlerTyped' /\ HostTyped'
<1>0. UNCHANGED log
  BY DEF HandlerStep, logVars
<1>1. Known' = Known /\ KnownFrame' = KnownFrame /\ KnownBatch' = KnownBatch
  BY <1>0, KnownSame
<1>2. LastSeq \in Nat /\ LastSeq \in Known
  BY LenProperties DEF LogTyped, LogTypeOK, LastSeq, Known
<1> DEFINE Typed == /\ phase' \in Phase
                    /\ sinceSeq' \in Known /\ processed' \in Known
                    /\ replay' \subseteq Known
                    /\ pending' \in Seq(Known)
                    /\ sending' \in Known \cup {NoSeq}
                    /\ wire' \in Seq(KnownFrame)
           Host == UNCHANGED <<cursor, batch, ipc, faults>>
<1>3. Typed /\ Host
  <2>1. CASE Connect
    BY <2>1, EmptySeq DEF Connect, Phase, HandlerTyped, HostTyped
  <2>2. CASE ReadMetadata
    BY <2>2 DEF ReadMetadata, Phase, HandlerTyped
  <2>3. CASE ReadReplay
    <3>1. HotAfter(sinceSeq) \subseteq Known
      BY <1>2 DEF HotAfter, Known, HandlerTyped
    <3>2. CASE RequiresResync(sinceSeq)
      BY <2>3, <3>2 DEF ReadReplay, Phase, HandlerTyped
    <3>3. CASE ~RequiresResync(sinceSeq)
      <4>1. WriteReplay(HotAfter(sinceSeq), processed)
        BY <2>3, <3>3 DEF ReadReplay
      <4>2. UNCHANGED <<sinceSeq, processed, cursor, batch, ipc, faults>>
        BY <2>3 DEF ReadReplay
      <4>3. /\ phase' \in Phase /\ replay' \subseteq Known
            /\ pending' \in Seq(Known)
            /\ sending' \in Known \cup {NoSeq}
            /\ wire' \in Seq(KnownFrame)
        BY <3>1, <4>1, WriteReplayTyped
      <4> QED BY <4>2, <4>3 DEF HandlerTyped
    <3> QED BY <3>2, <3>3
  <2>4. CASE ReadPage
    BY <1>2, <2>4 DEF ReadPage, Phase, HandlerTyped
  <2>5. CASE WriteResync
    <3>1. PICK s \in replay : sending' = s /\ wire' = Append(wire, ResyncFrame(s))
      BY <2>5 DEF WriteResync
    <3>2. ResyncFrame(s) \in KnownFrame /\ s \in Known
      BY <3>1 DEF ResyncFrame, KnownFrame, HandlerTyped
    <3>3. wire' \in Seq(KnownFrame)
      BY <3>1, <3>2, AppendProperties DEF HandlerTyped
    <3> QED BY <2>5, <3>1, <3>2, <3>3 DEF WriteResync, HandlerTyped
  <2>6. CASE WriteDone
    <3>1. sending \in Known /\ processed' = sending
      BY <2>6 DEF WriteDone, HandlerTyped
    <3>2. /\ phase' \in Phase /\ replay' \subseteq Known
          /\ pending' \in Seq(Known)
          /\ sending' \in Known \cup {NoSeq}
          /\ wire' \in Seq(KnownFrame)
      <4>1. CASE GoLive(sending)
        BY <4>1, GoLiveTyped
      <4>2. CASE WriteReplay(replay, sending)
        BY <4>2, WriteReplayTyped DEF HandlerTyped
      <4>3. CASE Pump(pending, sending) /\ UNCHANGED <<phase, replay>>
        <5>1. pending \in Seq(Known)
          BY DEF HandlerTyped
        <5> QED BY <4>3, <5>1, PumpTyped DEF HandlerTyped
      <4> QED BY <2>6, <4>1, <4>2, <4>3 DEF WriteDone
    <3> QED BY <2>6, <3>1, <3>2 DEF WriteDone, HandlerTyped
  <2> QED BY <2>1, <2>2, <2>3, <2>4, <2>5, <2>6 DEF HandlerStep
<1> QED BY <1>1, <1>3 DEF HandlerTyped, HostTyped

-----------------------------------------------------------------------------
(* The host.                                                               *)

(* A batch that is flushed is a batch of known numbers. *)
LEMMA FlushedTyped ==
  ASSUME NEW q \in Seq(KnownBatch), NEW events \in Seq(Known)
  PROVE  Flushed(q, events) \in Seq(KnownBatch)
<1>1. EventBatch(events) \in KnownBatch
  BY DEF EventBatch, KnownBatch
<1> QED BY <1>1, AppendProperties DEF Flushed

(* The host hands on what it reads. *)
LEMMA HostStepTyped ==
  ASSUME HandlerTyped, HostTyped, HostStep
  PROVE  HandlerTyped' /\ HostTyped'
<1>0. UNCHANGED log
  BY DEF HostStep, logVars
<1>1. Known' = Known /\ KnownFrame' = KnownFrame /\ KnownBatch' = KnownBatch
  BY <1>0, KnownSame
<1>2. Flushed(ipc, batch) \in Seq(KnownBatch) /\ <<>> \in Seq(Known)
  BY FlushedTyped, EmptySeq DEF HostTyped
<1> DEFINE Handler == UNCHANGED <<sinceSeq, processed, replay, pending, sending, faults>>
           Typed == /\ phase' \in Phase
                    /\ wire' \in Seq(KnownFrame)
                    /\ cursor' \in Known
                    /\ batch' \in Seq(Known)
                    /\ ipc' \in Seq(KnownBatch)
<1>3. Handler /\ Typed
  <2>1. CASE ReadFrame
    <3>1. /\ wire # <<>> /\ wire' = Tail(wire)
          /\ UNCHANGED <<phase, sinceSeq, processed, replay, pending, sending, faults>>
      BY <2>1 DEF ReadFrame
    <3>2. Head(wire) \in KnownFrame /\ wire' \in Seq(KnownFrame)
      BY <3>1, HeadTailProperties DEF HandlerTyped
    <3>3. Head(wire).seq \in Known
      BY <3>2 DEF KnownFrame
    <3>4. CASE Head(wire).resync
      <4>1. /\ ipc' = Append(Flushed(ipc, batch), ResyncBatch(Head(wire).seq))
            /\ batch' = <<>> /\ cursor' = Head(wire).seq
        BY <2>1, <3>4 DEF ReadFrame
      <4>2. ResyncBatch(Head(wire).seq) \in KnownBatch
        BY <1>2, <3>3 DEF ResyncBatch, KnownBatch
      <4>3. ipc' \in Seq(KnownBatch)
        BY <1>2, <4>1, <4>2, AppendProperties
      <4> QED BY <1>2, <3>1, <3>2, <3>3, <4>1, <4>3 DEF HandlerTyped
    <3>5. CASE ~Head(wire).resync /\ Head(wire).seq > cursor
      <4>1. Enqueue(Head(wire).seq) /\ cursor' = Head(wire).seq
        BY <2>1, <3>5 DEF ReadFrame
      <4>2. Append(batch, Head(wire).seq) \in Seq(Known)
        BY <3>3, AppendProperties DEF HostTyped
      <4>3. Flushed(ipc, Append(batch, Head(wire).seq)) \in Seq(KnownBatch)
        BY <4>2, FlushedTyped DEF HostTyped
      <4>4. batch' \in Seq(Known) /\ ipc' \in Seq(KnownBatch)
        BY <1>2, <4>1, <4>2, <4>3 DEF Enqueue, HostTyped
      <4> QED BY <3>1, <3>2, <3>3, <4>1, <4>4 DEF HandlerTyped
    <3>6. CASE ~Head(wire).resync /\ ~(Head(wire).seq > cursor)
      <4>1. UNCHANGED <<cursor, batch, ipc>>
        BY <2>1, <3>6 DEF ReadFrame
      <4> QED BY <3>1, <3>2, <4>1 DEF HandlerTyped, HostTyped
    <3> QED BY <3>4, <3>5, <3>6
  <2>2. CASE FlushTimer
    BY <1>2, <2>2 DEF FlushTimer, FlushBatch, HandlerTyped, HostTyped
  <2>3. CASE Disconnect
    BY <1>2, <2>3, EmptySeq DEF Disconnect, LeaveBatch, FlushBatch, Phase, HandlerTyped, HostTyped
  <2> QED BY <2>1, <2>2, <2>3 DEF HostStep
<1> QED BY <1>1, <1>3 DEF HandlerTyped, HostTyped

(* A new subscription starts from a known number. *)
LEMMA SubscribeTyped ==
  ASSUME UNCHANGED <<log, faults>>, HostTyped, NEW s \in Known, Subscribe(s)
  PROVE  HandlerTyped' /\ HostTyped'
<1>1. Known' = Known /\ KnownFrame' = KnownFrame /\ KnownBatch' = KnownBatch
  BY KnownSame
<1> QED BY <1>1, EmptySeq DEF Subscribe, HandlerTyped, HostTyped, Phase

(* A closed connection forgets what it had not written. *)
LEMMA CloseTyped ==
  ASSUME HandlerTyped, HostTyped, Close, faults' \in Nat, UNCHANGED log,
         UNCHANGED <<sinceSeq, processed, wire, cursor, batch, ipc>>
  PROVE  HandlerTyped' /\ HostTyped'
<1>1. Known' = Known /\ KnownFrame' = KnownFrame /\ KnownBatch' = KnownBatch
  BY KnownSame
<1> QED BY <1>1, EmptySeq DEF Close, HandlerTyped, HostTyped, Phase

(* A publication is a step of the connection's subscriber. *)
LEMMA DeliverTyped ==
  ASSUME HandlerTyped, HostTyped, UNCHANGED log, NEW events \in Seq(Known), Deliver(events)
  PROVE  HandlerTyped' /\ HostTyped'
<1>1. Known' = Known /\ KnownFrame' = KnownFrame /\ KnownBatch' = KnownBatch
  BY KnownSame
<1>2. /\ phase' \in Phase
      /\ pending' \in Seq(Known)
      /\ sending' \in Known \cup {NoSeq}
      /\ wire' \in Seq(KnownFrame)
  BY AcceptTyped DEF Deliver
<1> QED BY <1>1, <1>2 DEF Deliver, HandlerTyped, HostTyped

-----------------------------------------------------------------------------
(* The window.                                                             *)

(* No event of a batch is beyond its last, which is what the window takes  *)
(* for the batch's end, and the host's cursor is at or past its batch.     *)
TopLast(events) == \A i \in 1 .. Len(events) : events[i] <= events[Len(events)]

(* A batch of the window is one of events or one of a resync. *)
InOrder(b) == TopLast(b.events) /\ (b.resync # NoSeq => b.events = <<>>)

Ordered ==
  /\ TopLast(batch)
  /\ \A i \in 1 .. Len(batch) : batch[i] <= cursor
  /\ \A k \in 1 .. Len(ipc) : InOrder(ipc[k])

(* The two ways in which the projection changes. *)
Refreshed == seq' \in Known /\ seq <= seq' /\ missing' = {}
Followed ==
  /\ seq' \in Known /\ seq <= seq'
  /\ missing \subseteq missing'
  /\ missing' \subseteq missing \cup (seq + 1 .. seq')

(* The window applies a batch without going back or forgetting a gap. *)
LEMMA ApplyBatchView ==
  ASSUME LogTyped, HostTyped, WindowTyped, Ordered, ApplyBatch
  PROVE  /\ Refreshed \/ Followed
         /\ update' \in {"none", "want", "clear"}
<1> DEFINE resync == Head(ipc).resync
           events == Head(ipc).events
<1>0. LastSeq \in Nat
  BY LenProperties DEF LogTyped, LogTypeOK, LastSeq
<1>1. /\ ipc # <<>>
      /\ IF Adopts(resync)
         THEN seq' = resync /\ missing' = {} /\ UNCHANGED update
         ELSE IF events # <<>> /\ Accepted(events, seq) # {}
         THEN /\ seq' = Last(events)
              /\ missing' = missing \cup Skipped(events, seq) \cup Cuts(events, seq)
              /\ Request(NeedsSnapshot(events, seq))
         ELSE UNCHANGED <<seq, missing, update>>
  BY DEF ApplyBatch
<1>2. Head(ipc) \in KnownBatch
  BY <1>1, HeadTailProperties DEF HostTyped
<1>3. resync \in Known \cup {NoSeq} /\ events \in Seq(Known)
  BY <1>2 DEF KnownBatch
<1>4. Len(ipc) \in Nat \ {0} /\ Head(ipc) = ipc[1]
  BY <1>1, EmptySeq DEF HostTyped
<1>5. TopLast(events)
  BY <1>4 DEF Ordered, InOrder
<1> HIDE DEF resync, events
<1>6. CASE Adopts(resync)
  BY <1>0, <1>1, <1>3, <1>6 DEF Adopts, Refreshed, WindowTyped, Known
<1>7. CASE ~Adopts(resync) /\ events # <<>> /\ Accepted(events, seq) # {}
  <2>1. /\ seq' = Last(events)
        /\ missing' = missing \cup Skipped(events, seq) \cup Cuts(events, seq)
        /\ Request(NeedsSnapshot(events, seq))
    BY <1>1, <1>7
  <2>2. /\ Len(events) \in Nat \ {0}
        /\ DOMAIN events = 1 .. Len(events)
        /\ \A i \in 1 .. Len(events) : events[i] \in Known
    BY <1>3, <1>7, EmptySeq, LenProperties, ElementOfSeq
  <2>3. Last(events) = events[Len(events)] /\ Last(events) \in Known
    BY <2>2 DEF Last
  <2>4. \A s \in Accepted(events, seq) : s > seq /\ s \in Known /\ s <= Last(events)
    BY <1>5, <2>2, <2>3 DEF Accepted, ToSet, TopLast
  <2>5. PICK s \in Accepted(events, seq) : TRUE
    BY <1>7
  <2>6. seq <= Last(events)
    BY <1>0, <2>3, <2>4, <2>5 DEF WindowTyped, Known
  <2>7. Skipped(events, seq) \subseteq seq + 1 .. Last(events)
    BY <1>0, <2>3 DEF Skipped, WindowTyped, Known
  <2>8. Cuts(events, seq) \subseteq seq + 1 .. Last(events)
    BY <1>0, <2>3, <2>4 DEF Cuts, WindowTyped, Known
  <2>9. Followed
    BY <2>1, <2>3, <2>6, <2>7, <2>8 DEF Followed
  <2> QED BY <2>1, <2>9 DEF Request, WindowTyped
<1>8. CASE ~Adopts(resync) /\ ~(events # <<>> /\ Accepted(events, seq) # {})
  BY <1>0, <1>1, <1>8 DEF Followed, WindowTyped, Known
<1> QED BY <1>6, <1>7, <1>8

(* Both ways keep the projection within what is stored. *)
LEMMA ViewTyped ==
  ASSUME LogTyped, WindowTyped, Refreshed \/ Followed
  PROVE  seq' \in Known /\ missing' \subseteq Known
<1>1. LastSeq \in Nat
  BY LenProperties DEF LogTyped, LogTypeOK, LastSeq
<1>2. CASE Refreshed
  BY <1>2 DEF Refreshed
<1>3. CASE Followed
  <2>1. seq' \in Known /\ missing' \subseteq missing \cup (seq + 1 .. seq')
    BY <1>3 DEF Followed
  <2>2. seq + 1 .. seq' \subseteq Known
    BY <1>1, <2>1 DEF WindowTyped, Known
  <2> QED BY <2>1, <2>2 DEF WindowTyped
<1> QED BY <1>2, <1>3

(* An accepted snapshot is not older than the projection. *)
LEMMA AcceptableRefreshes ==
  ASSUME LogTyped, WindowTyped, NEW s \in Known \cup {NoSeq}, Acceptable(s),
         seq' = s, missing' = {}
  PROVE  Refreshed
<1>1. LastSeq \in Nat
  BY LenProperties DEF LogTyped, LogTypeOK, LastSeq
<1> QED BY <1>1 DEF Acceptable, Refreshed, WindowTyped, Known

(* What a party publishes is stored. *)
LEMMA PublicationTyped ==
  ASSUME LogTyped
  PROVE  /\ writing \in Seq(Known)
         /\ own # NoSeq => PublishesOwn \in Seq(Known) /\ PublishesSince \in Seq(Known)
<1>1. LastSeq \in Nat
  BY LenProperties DEF LogTyped, LogTypeOK, LastSeq
<1>2. 1 .. LastSeq \subseteq Known
  BY <1>1 DEF Known
<1>3. writing \in Seq(Known)
  BY <1>2, SeqMonotonic DEF LogTyped, LogTypeOK, SeqNo
<1>4. ASSUME own # NoSeq
      PROVE  PublishesOwn \in Seq(Known) /\ PublishesSince \in Seq(Known)
  <2>1. own \in Known
    BY <1>2, <1>4 DEF LogTyped, LogTypeOK, SeqNo
  <2>2. PublishesOwn \in Seq(Known)
    BY <2>1 DEF PublishesOwn
  <2>3. before \in Nat
    BY <1>1, <1>4 DEF LogTyped, Known
  <2>4. PublishesSince \in Seq(1 .. LastSeq)
    BY <1>1, <2>3, IntervalTyped DEF PublishesSince
  <2> QED BY <1>2, <2>2, <2>4, SeqMonotonic
<1> QED BY <1>3, <1>4

-----------------------------------------------------------------------------
(* Every step.                                                             *)

(* What a step does not name stays typed. *)
LEMMA Frames ==
  ASSUME TypeInv
  PROVE  /\ UNCHANGED logVars => LogTyped'
         /\ UNCHANGED <<logVars, streamVars>> => HandlerTyped' /\ HostTyped'
         /\ UNCHANGED log /\ UNCHANGED projectionVars => WindowTyped'
<1>1. ASSUME UNCHANGED log
      PROVE  Known' = Known /\ KnownFrame' = KnownFrame /\ KnownBatch' = KnownBatch
  BY <1>1, KnownSame
<1>2. ASSUME UNCHANGED logVars
      PROVE  LogTyped'
  <2>1. Known' = Known
    BY <1>1, <1>2 DEF logVars
  <2> QED BY <1>2, <2>1 DEF logVars, TypeInv, LogTyped, LogTypeOK, LastSeq, SeqNo
<1>3. ASSUME UNCHANGED <<logVars, streamVars>>
      PROVE  HandlerTyped' /\ HostTyped'
  BY <1>1, <1>3 DEF logVars, streamVars, TypeInv, HandlerTyped, HostTyped
<1>4. ASSUME UNCHANGED log, UNCHANGED projectionVars
      PROVE  WindowTyped'
  BY <1>1, <1>4 DEF projectionVars, TypeInv, WindowTyped
<1> QED BY <1>2, <1>3, <1>4

(* A publication forgets what it published. *)
LEMMA PublishedTyped ==
  ASSUME LogTyped, WriterPublished \/ DirectPublished \/ LogCrash
  PROVE  LogTyped' /\ UNCHANGED log
<1>1. UNCHANGED log
  BY DEF WriterPublished, DirectPublished, LogCrash
<1>2. Known' = Known
  BY <1>1, KnownSame
<1> USE DEF LogTyped, LogTypeOK, LastSeq, SeqNo, NoSeq
<1>3. CASE WriterPublished
  BY <1>1, <1>2, <1>3, EmptySeq DEF WriterPublished
<1>4. CASE DirectPublished
  BY <1>1, <1>2, <1>4 DEF DirectPublished
<1>5. CASE LogCrash
  BY <1>1, <1>2, <1>5, EmptySeq DEF LogCrash
<1> QED BY <1>1, <1>3, <1>4, <1>5

(* The type invariant is kept by every step. *)
LEMMA StepTyped ==
  ASSUME TypeInv, Ordered, [Next]_vars
  PROVE  TypeInv'
<1>0. LogTyped /\ HandlerTyped /\ HostTyped /\ WindowTyped
  BY DEF TypeInv
<1>L. LastSeq \in Nat /\ LastSeq \in Known
  BY <1>0, LenProperties DEF LogTyped, LogTypeOK, LastSeq, Known
<1>k. ASSUME UNCHANGED log
      PROVE  Known' = Known
  BY <1>k, KnownSame
<1>1. CASE StoreStep
  <2>1. UNCHANGED <<streamVars, projectionVars>>
    BY <1>1 DEF StoreStep
  <2>2. /\ LogTyped'
        /\ LastSeq \in Nat /\ LastSeq' \in Nat /\ LastSeq <= LastSeq'
    BY <1>0, <1>1, StoreTyped DEF StoreStep
  <2> QED BY <1>0, <2>1, <2>2, Growth DEF TypeInv
<1>2. CASE WriterPublishes
  <2>1. Deliver(writing) /\ WriterPublished /\ UNCHANGED projectionVars
    BY <1>2 DEF WriterPublishes
  <2>2. LogTyped' /\ UNCHANGED log
    BY <1>0, <2>1, PublishedTyped
  <2>3. HandlerTyped' /\ HostTyped'
    BY <1>0, <2>1, <2>2, PublicationTyped, DeliverTyped
  <2> QED BY <2>1, <2>2, <2>3, Frames DEF TypeInv
<1>3. CASE DirectPublishes
  <2>1. /\ own # NoSeq
        /\ Deliver(PublishesOwn) \/ Deliver(PublishesSince)
        /\ DirectPublished /\ UNCHANGED projectionVars
    BY <1>3 DEF DirectPublishes
  <2>2. LogTyped' /\ UNCHANGED log
    BY <1>0, <2>1, PublishedTyped
  <2>3. PublishesOwn \in Seq(Known) /\ PublishesSince \in Seq(Known)
    BY <1>0, <2>1, PublicationTyped
  <2>4. HandlerTyped' /\ HostTyped'
    BY <1>0, <2>1, <2>2, <2>3, DeliverTyped
  <2> QED BY <2>1, <2>2, <2>4, Frames DEF TypeInv
<1>4. CASE HandlerStep
  <2>1. UNCHANGED <<logVars, projectionVars>>
    BY <1>4 DEF HandlerStep
  <2>2. LogTyped' /\ WindowTyped'
    BY <2>1, Frames DEF logVars
  <2> QED BY <1>0, <1>4, <2>2, HandlerStepTyped DEF TypeInv
<1>5. CASE HostStep
  <2>1. UNCHANGED <<logVars, projectionVars>>
    BY <1>5 DEF HostStep
  <2>2. LogTyped' /\ WindowTyped'
    BY <2>1, Frames DEF logVars
  <2> QED BY <1>0, <1>5, <2>2, HostStepTyped DEF TypeInv
<1>6. CASE DropConnection
  <2>1. LoseConnection /\ UNCHANGED <<logVars, projectionVars>>
    BY <1>6 DEF DropConnection
  <2>2. LogTyped' /\ WindowTyped'
    BY <2>1, Frames DEF logVars
  <2>3. /\ Close /\ faults' \in Nat /\ UNCHANGED log
        /\ UNCHANGED <<sinceSeq, processed, wire, cursor, batch, ipc>>
    BY <1>0, <2>1 DEF LoseConnection, logVars, HostTyped
  <2> QED BY <1>0, <2>2, <2>3, CloseTyped DEF TypeInv
<1>7. CASE RuntimeCrash
  <2>1. LogTyped' /\ UNCHANGED log
    BY <1>0, <1>7, PublishedTyped DEF RuntimeCrash
  <2>2. /\ Close /\ faults' \in Nat
        /\ UNCHANGED <<sinceSeq, processed, wire, cursor, batch, ipc>>
    BY <1>0, <1>7 DEF RuntimeCrash, HostTyped
  <2>3. HandlerTyped' /\ HostTyped'
    BY <1>0, <2>1, <2>2, CloseTyped
  <2>4. WindowTyped'
    BY <1>0, <1>7, <1>k, <2>1 DEF RuntimeCrash, WindowTyped, Recovery
  <2> QED BY <2>1, <2>3, <2>4 DEF TypeInv
<1>8. CASE ApplyBatch
  <2>1. UNCHANGED <<logVars, phase, sinceSeq, processed, replay, pending, sending, wire,
                    cursor, batch, faults, setBack, wanted, recovery, snapshot, fetched, visits>>
    BY <1>8 DEF ApplyBatch
  <2>2. UNCHANGED log /\ LogTyped'
    BY <2>1, Frames DEF logVars
  <2>3. Known' = Known /\ KnownFrame' = KnownFrame /\ KnownBatch' = KnownBatch
    BY <2>2, KnownSame
  <2>4. Refreshed \/ Followed
    BY <1>0, <1>8, ApplyBatchView
  <2>5. update' \in {"none", "want", "clear"}
    BY <1>0, <1>8, ApplyBatchView
  <2>6. WindowTyped'
    BY <1>0, <2>1, <2>3, <2>4, <2>5, ViewTyped DEF WindowTyped
  <2>7. ipc' \in Seq(KnownBatch)
    BY <1>0, <1>8, HeadTailProperties DEF ApplyBatch, HostTyped
  <2>8. HandlerTyped' /\ HostTyped'
    BY <1>0, <2>1, <2>3, <2>7 DEF HandlerTyped, HostTyped
  <2> QED BY <2>2, <2>6, <2>8 DEF TypeInv
<1>w. ASSUME UNCHANGED <<logVars, streamVars>>, WindowTyped'
      PROVE  TypeInv'
  <2>1. UNCHANGED logVars
    BY <1>w
  <2> QED BY <1>w, <2>1, Frames DEF TypeInv
<1>9. CASE Render \/ RecoveryReads \/ RetryTimer \/ ReadThread
  <2>1. UNCHANGED <<logVars, streamVars>>
    BY <1>9 DEF Render, RecoveryReads, RetryTimer, ReadThread
  <2>2. Known' = Known
    BY <1>k, <2>1 DEF logVars
  <2>3. WindowTyped'
    BY <1>0, <1>9, <1>L, <2>2
    DEF Render, RecoveryReads, RetryTimer, ReadThread, WindowTyped, Recovery
  <2> QED BY <1>w, <2>1, <2>3
<1>10. CASE RecoveryReturns
  <2>1. UNCHANGED <<logVars, streamVars>>
    BY <1>10 DEF RecoveryReturns
  <2>2. Known' = Known
    BY <1>k, <2>1 DEF logVars
  <2>3. WindowTyped'
    BY <1>0, <1>10, <2>2 DEF RecoveryReturns, Acceptable, WindowTyped, Recovery
  <2> QED BY <1>w, <2>1, <2>3
<1>11. CASE AdoptThread
  <2>1. UNCHANGED <<logVars, streamVars>>
    BY <1>11 DEF AdoptThread
  <2>2. Known' = Known
    BY <1>k, <2>1 DEF logVars
  <2>3. WindowTyped'
    BY <1>0, <1>11, <2>2 DEF AdoptThread, Acceptable, WindowTyped
  <2> QED BY <1>w, <2>1, <2>3
<1>12. CASE RecoveryFails
  <2>1. UNCHANGED <<logVars, phase, sinceSeq, processed, replay, pending, sending, wire,
                    cursor, batch, ipc, seq, missing, setBack, wanted, update, fetched,
                    visits>>
    BY <1>12 DEF RecoveryFails
  <2>2. UNCHANGED log /\ LogTyped'
    BY <2>1, Frames DEF logVars
  <2>3. Known' = Known /\ KnownFrame' = KnownFrame /\ KnownBatch' = KnownBatch
    BY <2>2, KnownSame
  <2>4. faults' \in Nat
    BY <1>0, <1>12 DEF RecoveryFails, HostTyped
  <2>5. HandlerTyped' /\ HostTyped'
    BY <1>0, <2>1, <2>3, <2>4 DEF HandlerTyped, HostTyped
  <2>6. WindowTyped'
    BY <1>0, <1>12, <2>3 DEF RecoveryFails, WindowTyped, Recovery
  <2> QED BY <2>2, <2>5, <2>6 DEF TypeInv
<1>13. CASE OpenThread
  <2>1. UNCHANGED <<logVars, faults>> /\ Subscribe(fetched) /\ fetched # NoSeq
    BY <1>13 DEF OpenThread
  <2>2. UNCHANGED log /\ LogTyped'
    BY <2>1, Frames DEF logVars
  <2>3. fetched \in Known
    BY <1>0, <2>1 DEF WindowTyped
  <2>4. HandlerTyped' /\ HostTyped'
    BY <1>0, <2>1, <2>2, <2>3, SubscribeTyped
  <2>5. Known' = Known /\ 0 \in Known
    BY <1>k, <1>L, <2>2 DEF Known
  <2>6. /\ visits' = visits + 1 /\ seq' = fetched /\ missing' = {} /\ setBack' = 0
        /\ fetched' = NoSeq
        /\ wanted' = FALSE /\ update' = "none" /\ recovery' = "off" /\ snapshot' = NoSeq
    BY <1>13 DEF OpenThread
  <2>7. wanted' \in BOOLEAN /\ visits' \in Nat
    <3>1. wanted' \in BOOLEAN
      BY <2>6, Zenon
    <3>2. visits' \in Nat
      BY <1>0, <2>6 DEF WindowTyped
    <3> QED BY <3>1, <3>2
  <2>8. WindowTyped'
    BY <2>3, <2>5, <2>6, <2>7 DEF WindowTyped, Recovery
  <2> QED BY <2>2, <2>4, <2>8 DEF TypeInv
<1>14. CASE Resubscribe
  <2>1. UNCHANGED <<logVars, faults>> /\ Subscribe(seq)
    BY <1>14 DEF Resubscribe
  <2>2. UNCHANGED log /\ LogTyped'
    BY <2>1, Frames DEF logVars
  <2>3. seq \in Known
    BY <1>0 DEF WindowTyped
  <2>4. HandlerTyped' /\ HostTyped'
    BY <1>0, <2>1, <2>2, <2>3, SubscribeTyped
  <2>5. WindowTyped'
    BY <1>0, <1>14, <1>k, <2>2 DEF Resubscribe, WindowTyped
  <2> QED BY <2>2, <2>4, <2>5 DEF TypeInv
<1>15. CASE InstallThread
  <2>1. UNCHANGED <<logVars, streamVars>>
    BY <1>15 DEF InstallThread
  <2>2. Known' = Known
    BY <1>k, <2>1 DEF logVars
  <2>3. WindowTyped'
    BY <1>0, <1>15, <2>2 DEF InstallThread, WindowTyped
  <2> QED BY <1>w, <2>1, <2>3
<1>16. CASE UNCHANGED vars
  <2>1. UNCHANGED <<logVars, streamVars>> /\ UNCHANGED projectionVars /\ UNCHANGED logVars
    BY <1>16 DEF vars
  <2>2. WindowTyped'
    BY <2>1, Frames DEF logVars
  <2> QED BY <1>w, <2>1, <2>2
<1> QED BY <1>1, <1>2, <1>3, <1>4, <1>5, <1>6, <1>7, <1>8, <1>9, <1>10, <1>11, <1>12,
           <1>13, <1>14, <1>15, <1>16 DEF Next

-----------------------------------------------------------------------------
(* The order of batches, and that the host hands over what it accepted.    *)

(* A flush appends the batch it flushes, and nothing else. *)
LEMMA FlushedOrder ==
  ASSUME NEW q \in Seq(KnownBatch), NEW events \in Seq(Known), TopLast(events),
         \A k \in 1 .. Len(q) : InOrder(q[k])
  PROVE  /\ \A k \in 1 .. Len(Flushed(q, events)) : InOrder(Flushed(q, events)[k])
         /\ Len(q) <= Len(Flushed(q, events))
         /\ \A k \in 1 .. Len(q) : Flushed(q, events)[k] = q[k]
         /\ events # <<>> =>
              /\ Len(Flushed(q, events)) = Len(q) + 1
              /\ Flushed(q, events)[Len(q) + 1] = EventBatch(events)
<1>1. Len(q) \in Nat
  BY LenProperties
<1>2. CASE events = <<>>
  <2>1. Flushed(q, events) = q
    BY <1>2 DEF Flushed
  <2> QED BY <1>1, <1>2, <2>1
<1>3. CASE events # <<>>
  <2>1. EventBatch(events) \in KnownBatch
    BY DEF EventBatch, KnownBatch
  <2>2. Flushed(q, events) = Append(q, EventBatch(events))
    BY <1>3 DEF Flushed
  <2>3. /\ Len(Flushed(q, events)) = Len(q) + 1
        /\ \A k \in 1 .. Len(q) : Flushed(q, events)[k] = q[k]
        /\ Flushed(q, events)[Len(q) + 1] = EventBatch(events)
    BY <2>1, <2>2, AppendProperties
  <2>4. InOrder(EventBatch(events))
    BY DEF EventBatch, InOrder
  <2>5. ASSUME NEW k \in 1 .. Len(q) + 1
        PROVE  InOrder(Flushed(q, events)[k])
    <3>1. CASE k \in 1 .. Len(q)
      <4>1. Flushed(q, events)[k] = q[k]
        BY <2>3, <3>1
      <4>2. InOrder(q[k])
        BY <3>1
      <4> QED BY <4>1, <4>2, Zenon
    <3>2. CASE k = Len(q) + 1
      <4>1. Flushed(q, events)[k] = EventBatch(events)
        BY <2>3, <3>2
      <4> QED BY <2>4, <4>1, Zenon
    <3> QED BY <1>1, <3>1, <3>2
  <2> QED BY <1>1, <2>3, <2>5
<1> QED BY <1>2, <1>3

(* An event beyond all of a batch becomes its last. *)
LEMMA AppendOrder ==
  ASSUME NEW events \in Seq(Known), NEW s \in Known, LastSeq \in Nat,
         \A i \in 1 .. Len(events) : events[i] <= s
  PROVE  /\ TopLast(Append(events, s))
         /\ \A i \in 1 .. Len(Append(events, s)) : Append(events, s)[i] <= s
<1>1. Len(events) \in Nat
  BY LenProperties
<1>2. /\ Len(Append(events, s)) = Len(events) + 1
      /\ \A i \in 1 .. Len(events) : Append(events, s)[i] = events[i]
      /\ Append(events, s)[Len(events) + 1] = s
  BY AppendProperties
<1>3. ASSUME NEW i \in 1 .. Len(events) + 1
      PROVE  Append(events, s)[i] <= s
  <2>1. CASE i \in 1 .. Len(events)
    BY <1>2, <2>1
  <2>2. CASE i = Len(events) + 1
    BY <1>2, <2>2 DEF Known
  <2> QED BY <1>1, <2>1, <2>2
<1> QED BY <1>2, <1>3 DEF TopLast

(* AcceptedIsHandedOver, with places instead of sets. *)
HandedOver ==
  \/ cursor <= seq \/ cursor <= setBack
  \/ \E i \in 1 .. Len(batch) : batch[i] = cursor
  \/ \E k \in 1 .. Len(ipc) :
       \/ ipc[k].resync = cursor
       \/ \E i \in 1 .. Len(ipc[k].events) : ipc[k].events[i] = cursor

(* The host's steps keep both, whichever way the batch leaves. *)
LEMMA HostStepOrder ==
  ASSUME LogTyped, HandlerTyped, HostTyped, WindowTyped, Ordered, HandedOver, HostStep
  PROVE  Ordered' /\ HandedOver'
<1>0. UNCHANGED <<seq, setBack>> /\ LastSeq \in Nat
  BY LenProperties DEF HostStep, projectionVars, LogTyped, LogTypeOK, LastSeq
<1>1. Len(ipc) \in Nat /\ Len(batch) \in Nat /\ cursor \in Int
  BY <1>0, LenProperties DEF HostTyped, Known
<1>2. /\ ipc \in Seq(KnownBatch) /\ batch \in Seq(Known)
      /\ TopLast(batch)
      /\ \A k \in 1 .. Len(ipc) : InOrder(ipc[k])
  BY DEF HostTyped, Ordered
<1>3. Len(<<>>) = 0
  BY EmptySeq
<1>4. ASSUME NEW events \in Seq(Known), TopLast(events), ipc' = Flushed(ipc, events),
             batch' = <<>>,
             \/ UNCHANGED cursor /\ events = batch
             \/ events # <<>> /\ cursor' = events[Len(events)]
      PROVE  Ordered' /\ HandedOver'
  <2> DEFINE q == Flushed(ipc, events)
  <2>1. /\ \A k \in 1 .. Len(q) : InOrder(q[k])
        /\ Len(ipc) <= Len(q)
        /\ \A k \in 1 .. Len(ipc) : q[k] = ipc[k]
        /\ events # <<>> =>
             Len(q) = Len(ipc) + 1 /\ q[Len(ipc) + 1] = EventBatch(events)
    BY <1>2, <1>4, FlushedOrder
  <2>2. Len(q) \in Nat
    BY <1>2, FlushedTyped, LenProperties
  <2>3. Len(events) \in Nat
    BY LenProperties
  <2> HIDE DEF q
  <2>4. Ordered'
    BY <1>3, <1>4, <2>1 DEF Ordered, InOrder, TopLast, q
  <2>5. ASSUME NEW i \in 1 .. Len(events), events[i] = cursor'
        PROVE  HandedOver'
    <3>1. events # <<>>
      BY <1>3, <2>5
    <3>2. Len(ipc) + 1 \in 1 .. Len(q) /\ q[Len(ipc) + 1].events = events
      BY <1>1, <2>1, <3>1 DEF EventBatch
    <3> QED BY <1>4, <2>5, <3>2 DEF HandedOver, q
  <2>6. CASE events # <<>> /\ cursor' = events[Len(events)]
    <3>1. Len(events) \in 1 .. Len(events)
      BY <2>3, <2>6, EmptySeq
    <3> QED BY <2>4, <2>5, <2>6, <3>1
  <2>7. CASE UNCHANGED cursor /\ events = batch
    <3>1. CASE cursor <= seq \/ cursor <= setBack
      <4>1. cursor' <= seq' \/ cursor' <= setBack'
        BY <1>0, <2>7, <3>1
      <4> QED BY <2>4, <4>1 DEF HandedOver
    <3>2. CASE \E i \in 1 .. Len(batch) : batch[i] = cursor
      BY <2>4, <2>5, <2>7, <3>2
    <3>3. ASSUME NEW k \in 1 .. Len(ipc),
                 \/ ipc[k].resync = cursor
                 \/ \E i \in 1 .. Len(ipc[k].events) : ipc[k].events[i] = cursor
          PROVE  HandedOver'
      <4>1. k \in 1 .. Len(q) /\ q[k] = ipc[k]
        BY <1>1, <2>1, <2>2
      <4>2. \/ q[k].resync = cursor'
            \/ \E i \in 1 .. Len(q[k].events) : q[k].events[i] = cursor'
        BY <2>7, <3>3, <4>1
      <4>3. q = ipc'
        BY <1>4 DEF q
      <4> QED BY <4>1, <4>2, <4>3 DEF HandedOver
    <3> QED BY <2>4, <3>1, <3>2, <3>3 DEF HandedOver
  <2> QED BY <1>4, <2>4, <2>6, <2>7
<1>5. CASE ReadFrame
  <2>1. wire # <<>> /\ Head(wire) \in KnownFrame
    BY <1>5, HeadTailProperties DEF ReadFrame, HandlerTyped
  <2>2. Head(wire).seq \in Known
    BY <2>1 DEF KnownFrame
  <2>3. CASE Head(wire).resync
    <3> DEFINE q == Flushed(ipc, batch)
               r == ResyncBatch(Head(wire).seq)
    <3>1. ipc' = Append(q, r) /\ batch' = <<>> /\ cursor' = Head(wire).seq
      BY <1>5, <2>3 DEF ReadFrame
    <3>2. \A k \in 1 .. Len(q) : InOrder(q[k])
      BY <1>2, FlushedOrder
    <3>3. q \in Seq(KnownBatch) /\ Len(q) \in Nat
      BY <1>2, FlushedTyped, LenProperties
    <3>4. r \in KnownBatch
      BY <2>2, EmptySeq DEF ResyncBatch, KnownBatch
    <3>5. /\ Len(ipc') = Len(q) + 1
          /\ \A k \in 1 .. Len(q) : ipc'[k] = q[k]
          /\ ipc'[Len(q) + 1] = r
      BY <3>1, <3>3, <3>4, AppendProperties
    <3>6. r.resync = cursor' /\ r.events = <<>>
      BY <3>1 DEF ResyncBatch
    <3> HIDE DEF q, r
    <3>7. ASSUME NEW k \in 1 .. Len(q) + 1
          PROVE  InOrder(ipc'[k])
      <4>1. CASE k \in 1 .. Len(q)
        <5>1. ipc'[k] = q[k]
          BY <3>5, <4>1
        <5>2. InOrder(q[k])
          BY <3>2, <4>1
        <5> QED BY <5>1, <5>2, Zenon
      <4>2. CASE k = Len(q) + 1
        BY <1>3, <3>5, <3>6, <4>2 DEF InOrder, TopLast
      <4> QED BY <3>3, <4>1, <4>2
    <3>8. Ordered'
      BY <1>3, <3>1, <3>5, <3>7 DEF Ordered, InOrder, TopLast
    <3>9. Len(q) + 1 \in 1 .. Len(ipc') /\ ipc'[Len(q) + 1].resync = cursor'
      BY <3>3, <3>5, <3>6
    <3> QED BY <3>8, <3>9 DEF HandedOver
  <2>4. CASE ~Head(wire).resync /\ Head(wire).seq > cursor
    <3> DEFINE s == Head(wire).seq
               events == Append(batch, s)
    <3>1. Enqueue(s) /\ cursor' = s
      BY <1>5, <2>4 DEF ReadFrame
    <3>2. \A i \in 1 .. Len(batch) : batch[i] \in Known
      BY <1>2, ElementOfSeq
    <3>3. \A i \in 1 .. Len(batch) : batch[i] <= s
      BY <1>0, <1>1, <2>2, <2>4, <3>2 DEF Ordered, Known
    <3>4. TopLast(events) /\ \A i \in 1 .. Len(events) : events[i] <= s
      BY <1>0, <1>2, <2>2, <3>3, AppendOrder
    <3>5. /\ events \in Seq(Known) /\ events # <<>>
          /\ Len(events) = Len(batch) + 1 /\ events[Len(batch) + 1] = s
      BY <1>2, <2>2, AppendProperties
    <3>6. CASE ipc' = Flushed(ipc, events) /\ batch' = <<>>
      BY <1>4, <3>1, <3>4, <3>5, <3>6
    <3>7. CASE batch' = events /\ UNCHANGED ipc
      <4> HIDE DEF events, s
      <4>1. TopLast(batch') /\ \A i \in 1 .. Len(batch') : batch'[i] <= cursor'
        BY <3>1, <3>4, <3>7
      <4>2. Ordered'
        BY <3>7, <4>1 DEF Ordered, InOrder, TopLast
      <4>3. Len(batch) + 1 \in 1 .. Len(batch') /\ batch'[Len(batch) + 1] = cursor'
        BY <1>1, <3>1, <3>5, <3>7
      <4> QED BY <4>2, <4>3 DEF HandedOver
    <3> QED BY <3>1, <3>6, <3>7 DEF Enqueue
  <2>5. CASE ~Head(wire).resync /\ ~(Head(wire).seq > cursor)
    <3>1. UNCHANGED <<cursor, batch, ipc>>
      BY <1>5, <2>5 DEF ReadFrame
    <3> QED BY <1>0, <3>1 DEF Ordered, InOrder, HandedOver, TopLast
  <2> QED BY <2>3, <2>4, <2>5
<1>6. CASE FlushTimer \/ Disconnect
  <2>1. ipc' = Flushed(ipc, batch) /\ batch' = <<>> /\ UNCHANGED cursor
    BY <1>6 DEF FlushTimer, Disconnect, LeaveBatch, FlushBatch
  <2> QED BY <1>2, <1>4, <2>1
<1> QED BY <1>5, <1>6 DEF HostStep

(* The window takes a batch over: what it held is behind the projection.   *)
LEMMA ApplyBatchOrder ==
  ASSUME LogTyped, HostTyped, WindowTyped, Ordered, HandedOver, ApplyBatch
  PROVE  Ordered' /\ HandedOver'
<1> DEFINE resync == Head(ipc).resync
           events == Head(ipc).events
<1>1. /\ ipc # <<>> /\ ipc' = Tail(ipc) /\ UNCHANGED <<cursor, batch, setBack>>
      /\ IF Adopts(resync)
         THEN seq' = resync /\ missing' = {} /\ UNCHANGED update
         ELSE IF events # <<>> /\ Accepted(events, seq) # {}
         THEN /\ seq' = Last(events)
              /\ missing' = missing \cup Skipped(events, seq) \cup Cuts(events, seq)
              /\ Request(NeedsSnapshot(events, seq))
         ELSE UNCHANGED <<seq, missing, update>>
  BY DEF ApplyBatch
<1>2. /\ Head(ipc) \in KnownBatch
      /\ Len(Tail(ipc)) = Len(ipc) - 1
      /\ \A i \in 1 .. Len(Tail(ipc)) : Tail(ipc)[i] = ipc[i + 1]
  BY <1>1, HeadTailProperties DEF HostTyped
<1>3. Len(ipc) \in Nat \ {0} /\ Head(ipc) = ipc[1]
  BY <1>1, EmptySeq DEF HostTyped
<1>4. InOrder(Head(ipc))
  BY <1>3 DEF Ordered
<1>5. LastSeq \in Nat
  BY LenProperties DEF LogTyped, LogTypeOK, LastSeq
<1>6. seq <= seq' /\ seq \in Int /\ seq' \in Int /\ cursor \in Nat
  BY <1>5, ApplyBatchView DEF Refreshed, Followed, WindowTyped, HostTyped, Known
<1>7. resync \in Known \cup {NoSeq} /\ events \in Seq(Known)
  BY <1>2 DEF KnownBatch
<1>8. ASSUME NEW k \in 1 .. Len(ipc')
      PROVE  k + 1 \in 1 .. Len(ipc) /\ ipc'[k] = ipc[k + 1]
  BY <1>1, <1>2, <1>3, <1>8
<1>9. Ordered'
  <2>1. \A k \in 1 .. Len(ipc') : InOrder(ipc[k + 1])
    BY <1>8 DEF Ordered
  <2>2. \A k \in 1 .. Len(ipc') : InOrder(ipc'[k])
    BY <1>8, <2>1
  <2> QED BY <1>1, <2>2 DEF Ordered, InOrder, TopLast
<1>10. HandedOver'
  <2>1. CASE cursor <= seq \/ cursor <= setBack
    <3>1. cursor' <= seq' \/ cursor' <= setBack'
      BY <1>1, <1>6, <2>1
    <3> QED BY <3>1 DEF HandedOver
  <2>2. CASE \E i \in 1 .. Len(batch) : batch[i] = cursor
    BY <1>1, <2>2 DEF HandedOver
  <2>3. ASSUME NEW k \in 2 .. Len(ipc),
               \/ ipc[k].resync = cursor
               \/ \E i \in 1 .. Len(ipc[k].events) : ipc[k].events[i] = cursor
        PROVE  HandedOver'
    <3>1. k - 1 \in 1 .. Len(ipc') /\ ipc'[k - 1] = ipc[k]
      BY <1>1, <1>2, <1>3
    <3>2. \/ ipc'[k - 1].resync = cursor'
          \/ \E i \in 1 .. Len(ipc'[k - 1].events) : ipc'[k - 1].events[i] = cursor'
      BY <1>1, <2>3, <3>1
    <3> QED BY <3>1, <3>2 DEF HandedOver
  <2>4. CASE resync = cursor
    <3>1. cursor <= seq'
      BY <1>1, <1>6, <2>4 DEF Adopts, NoSeq
    <3>2. cursor' <= seq'
      BY <1>1, <3>1
    <3> QED BY <3>2 DEF HandedOver
  <2>5. ASSUME NEW i \in 1 .. Len(events), events[i] = cursor
        PROVE  HandedOver'
    <3>1. events # <<>> /\ DOMAIN events = 1 .. Len(events) /\ Len(events) \in Nat
      BY <1>7, <2>5, EmptySeq, LenProperties
    <3>2. ~Adopts(resync)
      BY <1>4, <3>1 DEF InOrder, Adopts
    <3>3. cursor <= Last(events)
      BY <1>4, <2>5, <3>1 DEF InOrder, TopLast, Last
    <3>4. cursor > seq => Accepted(events, seq) # {}
      BY <2>5, <3>1 DEF Accepted, ToSet
    <3>5. cursor <= seq'
      <4>1. CASE cursor > seq
        BY <1>1, <3>1, <3>2, <3>3, <3>4, <4>1
      <4>2. CASE ~(cursor > seq)
        BY <1>6, <4>2
      <4> QED BY <4>1, <4>2
    <3>6. cursor' <= seq'
      BY <1>1, <3>5
    <3> QED BY <3>6 DEF HandedOver
  <2>6. ASSUME NEW k \in 1 .. Len(ipc),
               \/ ipc[k].resync = cursor
               \/ \E i \in 1 .. Len(ipc[k].events) : ipc[k].events[i] = cursor
        PROVE  HandedOver'
    <3>1. CASE k = 1
      BY <1>3, <2>4, <2>5, <2>6, <3>1
    <3>2. CASE k # 1
      <4>1. k \in 2 .. Len(ipc)
        BY <1>3, <3>2
      <4> QED BY <2>3, <2>6, <4>1
    <3> QED BY <3>1, <3>2
  <2> QED BY <2>1, <2>2, <2>6 DEF HandedOver
<1> QED BY <1>9, <1>10

(* Every step keeps batches ordered and accepted events handed over. *)
LEMMA StepOrder ==
  ASSUME TypeInv, Ordered, HandedOver, [Next]_vars
  PROVE  Ordered' /\ HandedOver'
<1>0. LogTyped /\ HandlerTyped /\ HostTyped /\ WindowTyped
  BY DEF TypeInv
<1>1. LastSeq \in Nat
  BY <1>0, LenProperties DEF LogTyped, LogTypeOK, LastSeq
<1>2. seq \in Int /\ setBack \in Int /\ cursor \in Int
  BY <1>0, <1>1 DEF WindowTyped, HostTyped, Known
<1>s. ASSUME UNCHANGED <<cursor, batch, ipc>>, seq' \in Int, setBack' \in Int,
             seq <= seq' \/ seq <= setBack', setBack <= setBack'
      PROVE  Ordered' /\ HandedOver'
  <2>1. Ordered'
    BY <1>s DEF Ordered, InOrder, TopLast
  <2>2. cursor <= seq \/ cursor <= setBack => cursor' <= seq' \/ cursor' <= setBack'
    BY <1>2, <1>s
  <2>3. HandedOver'
    BY <1>s, <2>2 DEF HandedOver
  <2> QED BY <2>1, <2>3
<1>n. ASSUME cursor' = seq', batch' = <<>>, ipc' = <<>>, seq' \in Int
      PROVE  Ordered' /\ HandedOver'
  <2>1. Len(<<>>) = 0
    BY EmptySeq
  <2>2. Ordered'
    BY <1>n, <2>1 DEF Ordered, TopLast
  <2>3. cursor' <= seq'
    BY <1>n
  <2> QED BY <2>2, <2>3 DEF HandedOver
<1>3. CASE StoreStep \/ WriterPublishes \/ DirectPublishes \/ HandlerStep \/ DropConnection
  <2>1. UNCHANGED <<cursor, batch, ipc, seq, setBack>>
    <3>1. CASE StoreStep
      BY <3>1 DEF StoreStep, streamVars, projectionVars
    <3>2. CASE WriterPublishes \/ DirectPublishes
      BY <3>2 DEF WriterPublishes, DirectPublishes, Deliver, projectionVars
    <3>3. CASE HandlerStep
      BY <3>3 DEF HandlerStep, Connect, ReadMetadata, ReadReplay, ReadPage, WriteResync,
         WriteDone, projectionVars
    <3>4. CASE DropConnection
      BY <3>4 DEF DropConnection, LoseConnection, projectionVars
    <3> QED BY <1>3, <3>1, <3>2, <3>3, <3>4
  <2> QED BY <1>2, <1>s, <2>1
<1>4. CASE HostStep
  BY <1>0, <1>4, HostStepOrder
<1>5. CASE ApplyBatch
  BY <1>0, <1>5, ApplyBatchOrder
<1>6. CASE RuntimeCrash \/ Render \/ RecoveryReads \/ RecoveryFails \/ RetryTimer \/ ReadThread
  <2>1. UNCHANGED <<cursor, batch, ipc, seq, setBack>>
    BY <1>6 DEF RuntimeCrash, Render, RecoveryReads, RecoveryFails, RetryTimer, ReadThread,
       streamVars
  <2> QED BY <1>2, <1>s, <2>1
<1>7. CASE RecoveryReturns \/ AdoptThread
  <2>1. UNCHANGED <<cursor, batch, ipc, setBack>>
    BY <1>7 DEF RecoveryReturns, AdoptThread, streamVars
  <2>2. seq' \in Int /\ seq <= seq'
    BY <1>0, <1>1, <1>2, <1>7
    DEF RecoveryReturns, AdoptThread, Acceptable, WindowTyped, Known
  <2> QED BY <1>2, <1>s, <2>1, <2>2
<1>8. CASE OpenThread \/ Resubscribe
  <2>1. cursor' = seq' /\ batch' = <<>> /\ ipc' = <<>>
    BY <1>8 DEF OpenThread, Resubscribe, Subscribe
  <2>2. seq' \in Int
    BY <1>0, <1>1, <1>2, <1>8 DEF OpenThread, Resubscribe, WindowTyped, Known
  <2> QED BY <1>n, <2>1, <2>2
<1>9. CASE InstallThread
  <2>1. UNCHANGED <<cursor, batch, ipc>>
    BY <1>9 DEF InstallThread, streamVars
  <2>2. seq' = fetched /\ setBack' = IF fetched < seq /\ setBack < seq THEN seq ELSE setBack
    BY <1>9 DEF InstallThread
  <2>3. fetched \in Int
    BY <1>0, <1>1 DEF WindowTyped, Known, NoSeq
  <2> QED BY <1>2, <1>s, <2>1, <2>2, <2>3
<1>10. CASE UNCHANGED vars
  <2>1. UNCHANGED <<cursor, batch, ipc, seq, setBack>>
    BY <1>10 DEF vars, streamVars, projectionVars
  <2> QED BY <1>2, <1>s, <2>1
<1> QED BY <1>3, <1>4, <1>5, <1>6, <1>7, <1>8, <1>9, <1>10 DEF Next

-----------------------------------------------------------------------------
(* The theorems.                                                           *)

Inv == TypeInv /\ Ordered /\ HandedOver

(* The invariant holds in every state of every behaviour. *)
LEMMA InvHolds == Spec => []Inv
<1>1. Init => Inv
  <2> SUFFICES ASSUME Init PROVE Inv
    OBVIOUS
  <2>1. Len(<<>>) = 0
    BY EmptySeq
  <2>2. Ordered /\ HandedOver
    BY <2>1 DEF Init, StreamInit, Ordered, TopLast, HandedOver
  <2> QED BY <2>2, InitTyped DEF Inv
<1>2. Inv /\ [Next]_vars => Inv'
  BY StepTyped, StepOrder DEF Inv
<1> QED BY <1>1, <1>2, PTL DEF Spec

(* Every variable keeps its type; in particular what is on its way to a    *)
(* window is the number of an event, wherever the code takes it from.      *)
THEOREM TypeCorrect == Spec => []TypeOK
<1>1. TypeInv => TypeOK
  <2> SUFFICES ASSUME TypeInv PROVE TypeOK
    OBVIOUS
  <2>1. LogTyped /\ HandlerTyped /\ HostTyped /\ WindowTyped
    BY DEF TypeInv
  <2>2. LastSeq \in Nat
    BY <2>1, LenProperties DEF LogTyped, LogTypeOK, LastSeq
  <2>3. Known \subseteq Nat /\ NoSeq \in Int
    BY <2>2 DEF Known, NoSeq
  <2>4. Seq(Known) \subseteq Seq(Nat)
    BY <2>3, SeqMonotonic
  <2>5. KnownFrame \subseteq Frame /\ KnownBatch \subseteq Batch
    BY <2>3, <2>4 DEF KnownFrame, KnownBatch, Frame, Batch
  <2>6. Seq(KnownFrame) \subseteq Seq(Frame) /\ Seq(KnownBatch) \subseteq Seq(Batch)
    BY <2>5, SeqMonotonic
  <2>7. StreamTypeOK
    BY <2>1, <2>3, <2>4, <2>6 DEF StreamTypeOK, HandlerTyped, HostTyped
  <2> QED BY <2>1, <2>3, <2>7 DEF TypeOK, LogTyped, WindowTyped
<1> QED BY <1>1, InvHolds, PTL DEF Inv

(* RuntimeHost.readSse: a reconnection resumes from the cursor, and what   *)
(* the cursor has passed is in the batcher, under way to the window, or    *)
(* the window has shown it: it still does, unless an answer nobody         *)
(* compared with the projection took that back.                            *)
THEOREM AcceptedEventsAreHandedOver == Spec => []AcceptedIsHandedOver
<1>1. TypeInv /\ HandedOver => AcceptedIsHandedOver
  <2> SUFFICES ASSUME TypeInv, HandedOver PROVE AcceptedIsHandedOver
    OBVIOUS
  <2>1. batch \in Seq(Known) /\ ipc \in Seq(KnownBatch)
    BY DEF TypeInv, HostTyped
  <2>2. DOMAIN batch = 1 .. Len(batch) /\ DOMAIN ipc = 1 .. Len(ipc)
    BY <2>1, LenProperties
  <2>3. CASE cursor <= seq \/ cursor <= setBack
    BY <2>3 DEF AcceptedIsHandedOver
  <2>4. CASE \E i \in 1 .. Len(batch) : batch[i] = cursor
    BY <2>2, <2>4 DEF AcceptedIsHandedOver, ToSet
  <2>5. ASSUME NEW k \in 1 .. Len(ipc),
               \/ ipc[k].resync = cursor
               \/ \E i \in 1 .. Len(ipc[k].events) : ipc[k].events[i] = cursor
        PROVE  AcceptedIsHandedOver
    <3>1. ipc[k] \in KnownBatch /\ ipc[k] \in ToSet(ipc)
      BY <2>1, <2>2, ElementOfSeq DEF ToSet
    <3>2. ipc[k].events \in Seq(Known)
      BY <3>1 DEF KnownBatch
    <3>3. DOMAIN ipc[k].events = 1 .. Len(ipc[k].events)
      BY <3>2, LenProperties
    <3>4. cursor \in ToSet(ipc[k].events) \cup {ipc[k].resync}
      BY <2>5, <3>3 DEF ToSet
    <3>5. cursor \in InBatches
      BY <3>1, <3>4 DEF InBatches
    <3> QED BY <3>5 DEF AcceptedIsHandedOver
  <2> QED BY <2>3, <2>4, <2>5 DEF HandedOver
<1> QED BY <1>1, InvHolds, PTL DEF Inv

(* A step of the whole path is a step of the abstract view, or none. *)
LEMMA StepView ==
  ASSUME Inv, [Next]_vars
  PROVE  [View!Next]_View!viewVars
<1>0. LogTyped /\ HandlerTyped /\ HostTyped /\ WindowTyped /\ Ordered
  BY DEF Inv, TypeInv
<1>1. LastSeq \in Nat
  BY <1>0, LenProperties DEF LogTyped, LogTypeOK, LastSeq
<1>2. seq \in 0 .. LastSeq /\ missing \subseteq Known
  BY <1>0 DEF WindowTyped, Known
<1>3. ASSUME UNCHANGED <<log, visits>>, Refreshed \/ Followed
      PROVE  View!Next
  <2>1. UNCHANGED LastSeq
    BY <1>3 DEF LastSeq
  <2>2. CASE Refreshed
    <3>1. View!Refresh
      BY <1>1, <1>2, <1>3, <2>1, <2>2 DEF View!Refresh, Refreshed, Known
    <3> QED BY <3>1 DEF View!Next
  <2>3. CASE Followed
    <3>1. View!Follow
      BY <1>1, <1>2, <1>3, <2>1, <2>3 DEF View!Follow, Followed, Known
    <3> QED BY <3>1 DEF View!Next
  <2> QED BY <1>3, <2>2, <2>3
<1>4. ASSUME UNCHANGED <<log, seq, missing, visits>>
      PROVE  UNCHANGED View!viewVars
  BY <1>4 DEF View!viewVars, LastSeq
<1>5. CASE StoreStep
  <2>1. UNCHANGED <<seq, missing, visits>>
    BY <1>5 DEF StoreStep, projectionVars
  <2>2. LastSeq' \in Nat /\ LastSeq <= LastSeq'
    BY <1>0, <1>5, StoreTyped DEF StoreStep
  <2>3. CASE LastSeq' = LastSeq
    BY <2>1, <2>3 DEF View!viewVars
  <2>4. CASE LastSeq' # LastSeq
    <3>1. View!Store
      BY <1>1, <2>1, <2>2, <2>4 DEF View!Store
    <3> QED BY <3>1 DEF View!Next
  <2> QED BY <2>3, <2>4
<1>6. CASE WriterPublishes \/ DirectPublishes \/ RuntimeCrash
  <2>1. UNCHANGED <<log, seq, missing, visits>>
    BY <1>6 DEF WriterPublishes, WriterPublished, DirectPublishes, DirectPublished,
       RuntimeCrash, LogCrash, projectionVars
  <2> QED BY <1>4, <2>1
<1>7. CASE HandlerStep \/ HostStep \/ DropConnection
  <2>1. UNCHANGED <<log, seq, missing, visits>>
    BY <1>7 DEF HandlerStep, HostStep, DropConnection, logVars, projectionVars
  <2> QED BY <1>4, <2>1
<1>8. CASE ApplyBatch
  <2>1. UNCHANGED <<log, visits>>
    BY <1>8 DEF ApplyBatch, logVars
  <2> QED BY <1>0, <1>3, <1>8, <2>1, ApplyBatchView
<1>9. CASE Render \/ RecoveryReads \/ RecoveryFails \/ RetryTimer \/ ReadThread
  <2>1. UNCHANGED <<log, seq, missing, visits>>
    BY <1>9 DEF Render, RecoveryReads, RecoveryFails, RetryTimer, ReadThread, logVars
  <2> QED BY <1>4, <2>1
<1>10. CASE RecoveryReturns
  <2>1. UNCHANGED <<log, visits>>
    BY <1>10 DEF RecoveryReturns, logVars
  <2>2. CASE Acceptable(snapshot)
    <3>1. seq' = snapshot /\ missing' = {}
      BY <1>10, <2>2 DEF RecoveryReturns
    <3>2. snapshot \in Known \cup {NoSeq}
      BY <1>0 DEF WindowTyped
    <3>3. Refreshed
      BY <1>0, <2>2, <3>1, <3>2, AcceptableRefreshes
    <3> QED BY <1>3, <2>1, <3>3
  <2>3. CASE ~Acceptable(snapshot)
    <3>1. UNCHANGED <<seq, missing>>
      BY <1>10, <2>3 DEF RecoveryReturns
    <3> QED BY <1>4, <2>1, <3>1
  <2> QED BY <2>2, <2>3
<1>11. CASE AdoptThread
  <2>1. UNCHANGED <<log, visits>>
    BY <1>11 DEF AdoptThread, logVars
  <2>2. CASE Acceptable(fetched)
    <3>1. seq' = fetched /\ missing' = {}
      BY <1>11, <2>2 DEF AdoptThread
    <3>2. fetched \in Known \cup {NoSeq}
      BY <1>0 DEF WindowTyped
    <3>3. Refreshed
      BY <1>0, <2>2, <3>1, <3>2, AcceptableRefreshes
    <3> QED BY <1>3, <2>1, <3>3
  <2>3. CASE ~Acceptable(fetched)
    <3>1. UNCHANGED <<seq, missing>>
      BY <1>11, <2>3 DEF AdoptThread
    <3> QED BY <1>4, <2>1, <3>1
  <2> QED BY <2>2, <2>3
<1>12. CASE InstallThread \/ OpenThread \/ Resubscribe
  <2>1. UNCHANGED LastSeq /\ visits' = visits + 1
    BY <1>12 DEF InstallThread, OpenThread, Resubscribe, logVars, LastSeq
  <2>2. \/ seq' \in 0 .. LastSeq /\ missing' = {}
        \/ UNCHANGED <<seq, missing>>
    BY <1>0, <1>12 DEF InstallThread, OpenThread, Resubscribe, WindowTyped, Known
  <2>3. View!Visit
    BY <2>1, <2>2 DEF View!Visit
  <2> QED BY <2>3 DEF View!Next
<1>13. CASE UNCHANGED vars
  <2>1. UNCHANGED <<log, seq, missing, visits>>
    BY <1>13 DEF vars, logVars, projectionVars
  <2> QED BY <1>4, <2>1
<1> QED BY <1>5, <1>6, <1>7, <1>8, <1>9, <1>10, <1>11, <1>12, <1>13 DEF Next

(* The whole path, with its retries, overlaps and crashes, implements the  *)
(* abstract view: the window never shows what is not stored, goes back     *)
(* only when the user opens the thread or changes it by a call whose       *)
(* answer nobody compares, and never forgets that it lacks an event.       *)
THEOREM ImplementsView == Spec => ViewSpec
<1>1. Init => View!Init
  <2>1. Len(<<>>) = 0
    BY EmptySeq
  <2> QED BY <2>1 DEF Init, LogInit, View!Init, LastSeq
<1>2. Inv /\ [Next]_vars => [View!Next]_View!viewVars
  BY StepView
<1> QED BY <1>1, <1>2, InvHolds, PTL DEF Spec, ViewSpec, View!Spec

-----------------------------------------------------------------------------
(* The case LosslessDelivery is about. *)
OnlyWriter == ~DirectAppends /\ MaxSilent = 0 /\ "cut" \notin Kind

-----------------------------------------------------------------------------
(* The invariant.                                                          *)

(* The last event whose publication is over, or was lost with the process. *)
Published == LastSeq - Len(writing)

WriterInv ==
  /\ before = NoSeq /\ own = NoSeq
  /\ \A s \in 1 .. LastSeq : log[s] \in Kind
  /\ \A i \in 1 .. Len(writing) : writing[i] = Published + i

(* How far the window has come, an answer that took it back aside. *)
Reached == IF setBack > seq THEN setBack ELSE seq

(* Without such an answer nothing is missing and no recovery is asked for. *)
WindowInv ==
  /\ missing \subseteq 1 .. setBack
  /\ update # "none" \/ recovery # "off" => setBack # 0

(* Events without a gap, and without one after e. *)
Gapless(events, e) ==
  /\ events # <<>>
  /\ \A i \in 1 .. Len(events) : events[i] = events[1] + i - 1
  /\ events[1] <= e + 1

(* A batch can be applied to a projection at e without a recovery. *)
Follows(b, e) == b.resync = NoSeq => Gapless(b.events, e)

End(b) == IF b.resync # NoSeq THEN b.resync ELSE b.events[Len(b.events)]

Chained(q, e) ==
  /\ q # <<>> => Follows(q[1], e)
  /\ \A k \in 1 .. Len(q) - 1 : Follows(q[k + 1], End(q[k]))

Tip(q, e) == IF q = <<>> THEN e ELSE End(q[Len(q)])

(* The batches q and then the batcher's continue from e up to the cursor. *)
Continues(q, e) ==
  /\ Chained(q, e)
  /\ batch = <<>> => cursor <= Tip(q, e)
  /\ batch # <<>> => Gapless(batch, Tip(q, e)) /\ batch[Len(batch)] = cursor

PipeInv == Continues(ipc, Reached)

(* The frames continue from the cursor, except those that replace it. *)
WireInv ==
  /\ wire # <<>> => wire[1].resync \/ wire[1].seq <= cursor + 1
  /\ \A k \in 1 .. Len(wire) - 1 : wire[k + 1].resync \/ wire[k + 1].seq <= wire[k].seq + 1

WireTip == IF wire = <<>> THEN cursor ELSE wire[Len(wire)].seq

(* How far the connection's writes have come, the awaited one included. *)
Written == IF sending # NoSeq THEN sending ELSE processed

(* What was published after p waits in the queue. *)
Holds(queue, p) == \A s \in p + 1 .. Published : \E i \in 1 .. Len(queue) : queue[i] = s

Sorted(queue) == \A i, j \in 1 .. Len(queue) : i < j => queue[i] <= queue[j]

HandlerInv ==
  /\ Written <= WireTip /\ processed <= Written
  /\ \A i \in 1 .. Len(pending) : pending[i] <= Published
  /\ phase \in {"connected", "reading", "paging"} => processed = sinceSeq /\ sending = NoSeq
  /\ phase = "resync" =>
       \E l \in Nat : replay = {l} /\ processed <= l /\ sending \in {NoSeq, l} /\ Holds(pending, l)
  /\ phase = "replay" =>
       /\ sending # NoSeq
       /\ \E m \in Nat : sending <= m /\ replay = sending + 1 .. m /\ Holds(pending, m)
  /\ phase = "live" =>
       /\ Sorted(pending) /\ Holds(pending, Written)
       /\ sending = NoSeq => pending = <<>>

LosslessInv ==
  /\ WriterInv /\ WindowInv /\ PipeInv /\ WireInv
  /\ Open => HandlerInv

-----------------------------------------------------------------------------
(* Sequences.                                                              *)

(* What follows the last batch keeps the chain. *)
LEMMA AppendChained ==
  ASSUME NEW q \in Seq(KnownBatch), NEW b \in KnownBatch, NEW e,
         Chained(q, e), Follows(b, Tip(q, e))
  PROVE  Chained(Append(q, b), e) /\ Tip(Append(q, b), e) = End(b)
<1> DEFINE r == Append(q, b)
<1>1. Len(q) \in Nat /\ (q # <<>> => Len(q) # 0) /\ (q = <<>> => Len(q) = 0)
  BY EmptySeq, LenProperties
<1>2. /\ r # <<>> /\ Len(r) = Len(q) + 1
      /\ \A k \in 1 .. Len(q) : r[k] = q[k]
      /\ r[Len(q) + 1] = b
  BY AppendProperties
<1> HIDE DEF r
<1>3. Tip(r, e) = End(b)
  BY <1>2 DEF Tip
<1>4. Follows(r[1], e)
  <2>1. CASE q = <<>>
    BY <1>1, <1>2, <2>1 DEF Tip
  <2>2. CASE q # <<>>
    <3>1. r[1] = q[1]
      BY <1>1, <1>2, <2>2
    <3> QED BY <2>2, <3>1 DEF Chained
  <2> QED BY <2>1, <2>2
<1>5. ASSUME NEW k \in 1 .. Len(r) - 1
      PROVE  Follows(r[k + 1], End(r[k]))
  <2>1. k \in 1 .. Len(q) /\ r[k] = q[k]
    BY <1>1, <1>2
  <2>2. CASE k = Len(q)
    <3>1. Tip(q, e) = End(q[k]) /\ r[k + 1] = b
      BY <1>1, <1>2, <2>1, <2>2 DEF Tip
    <3> QED BY <2>1, <3>1
  <2>3. CASE k # Len(q)
    <3>1. k \in 1 .. Len(q) - 1 /\ r[k + 1] = q[k + 1]
      BY <1>1, <1>2, <2>1, <2>3
    <3> QED BY <2>1, <3>1 DEF Chained
  <2> QED BY <2>2, <2>3
<1> QED BY <1>3, <1>4, <1>5 DEF Chained, r

(* A flushed batch is the new end, at the cursor. *)
LEMMA FlushChained ==
  ASSUME LastSeq \in Nat, HostTyped, NEW e \in Known, Chained(ipc, e),
         NEW events \in Seq(Known),
         Gapless(events, Tip(ipc, e))
  PROVE  /\ Chained(Flushed(ipc, events), e)
         /\ Tip(Flushed(ipc, events), e) = events[Len(events)]
         /\ Flushed(ipc, events) \in Seq(KnownBatch)
<1>1. EventBatch(events) \in KnownBatch
  BY DEF EventBatch, KnownBatch
<1>2. Flushed(ipc, events) = Append(ipc, EventBatch(events))
  BY DEF Gapless, Flushed
<1>3. Follows(EventBatch(events), Tip(ipc, e)) /\ End(EventBatch(events)) = events[Len(events)]
  BY DEF Follows, End, EventBatch
<1>4. ipc \in Seq(KnownBatch)
  BY DEF HostTyped
<1> QED BY <1>1, <1>2, <1>3, <1>4, AppendChained, AppendProperties

(* The end of the wire is a known number. *)
LEMMA WireTipKnown ==
  ASSUME HandlerTyped, HostTyped
  PROVE  WireTip \in Known
<1>1. wire \in Seq(KnownFrame)
  BY DEF HandlerTyped
<1>2. CASE wire = <<>>
  BY <1>2 DEF WireTip, HostTyped
<1>3. CASE wire # <<>>
  <2>1. Len(wire) \in 1 .. Len(wire)
    BY <1>1, <1>3, EmptySeq
  <2>2. wire[Len(wire)] \in KnownFrame
    BY <1>1, <2>1, ElementOfSeq
  <2> QED BY <1>3, <2>2 DEF WireTip, KnownFrame
<1> QED BY <1>2, <1>3

(* A frame is written at the end of the wire. *)
LEMMA AppendWire ==
  ASSUME HandlerTyped, WireInv, NEW f \in KnownFrame, wire' = Append(wire, f),
         UNCHANGED cursor, f.resync \/ f.seq <= WireTip + 1
  PROVE  WireInv' /\ WireTip' = f.seq
<1>1. wire \in Seq(KnownFrame)
  BY DEF HandlerTyped
<1>2. Len(wire) \in Nat /\ (wire # <<>> => Len(wire) # 0) /\ (wire = <<>> => Len(wire) = 0)
  BY <1>1, EmptySeq, LenProperties
<1>3. /\ wire' # <<>> /\ Len(wire') = Len(wire) + 1
      /\ \A k \in 1 .. Len(wire) : wire'[k] = wire[k]
      /\ wire'[Len(wire) + 1] = f
  BY <1>1, AppendProperties
<1>4. WireTip' = f.seq
  BY <1>3 DEF WireTip
<1>5. wire'[1].resync \/ wire'[1].seq <= cursor' + 1
  <2>1. CASE wire = <<>>
    BY <1>2, <1>3, <2>1 DEF WireTip
  <2>2. CASE wire # <<>>
    BY <1>2, <1>3, <2>2 DEF WireInv
  <2> QED BY <2>1, <2>2
<1>6. ASSUME NEW k \in 1 .. Len(wire') - 1
      PROVE  wire'[k + 1].resync \/ wire'[k + 1].seq <= wire'[k].seq + 1
  <2>1. k \in 1 .. Len(wire) /\ wire'[k] = wire[k]
    BY <1>2, <1>3
  <2>2. CASE k = Len(wire)
    BY <1>2, <1>3, <2>1, <2>2 DEF WireTip
  <2>3. CASE k # Len(wire)
    BY <1>2, <1>3, <2>1, <2>3 DEF WireInv
  <2> QED BY <2>2, <2>3
<1> QED BY <1>4, <1>5, <1>6 DEF WireInv

-----------------------------------------------------------------------------
(* The connection's pump and its replay.                                   *)

(* What is being published is the end of the log. *)
LEMMA PublishedNumber ==
  ASSUME LogTyped
  PROVE  LastSeq \in Nat /\ Len(writing) \in Nat /\ Published \in Int /\ Published <= LastSeq
<1>1. LastSeq \in Nat
  BY LenProperties DEF LogTyped, LogTypeOK, LastSeq
<1>2. Len(writing) \in Nat
  BY LenProperties DEF LogTyped, LogTypeOK
<1> QED BY <1>1, <1>2 DEF Published

(* A live connection that has processed p, and what it still owes. *)
Live(p) ==
  /\ WireInv /\ Written <= WireTip /\ p <= Written
  /\ \A i \in 1 .. Len(pending) : pending[i] <= Published
  /\ Sorted(pending) /\ Holds(pending, Written)
  /\ sending = NoSeq => pending = <<>>

(* The pump of a sorted queue writes the event after p, which is there, or *)
(* nothing is left that was published after p.                             *)
LEMMA PumpContinues ==
  ASSUME LogTyped, HandlerTyped, HostTyped, WireInv, UNCHANGED <<log, writing, cursor>>,
         NEW queue \in Seq(Known), NEW p \in Known, p <= WireTip,
         Sorted(queue), Holds(queue, p), \A i \in 1 .. Len(queue) : queue[i] <= Published,
         Pump(queue, p), processed' = p
  PROVE  Live(p)'
<1>0. LastSeq \in Nat /\ Published \in Int
  BY PublishedNumber
<1>1. Published' = Published
  BY DEF Published, LastSeq
<1>2. PICK i \in 1 .. Len(queue) + 1 :
        /\ FirstBeyond(queue, p, i)
        /\ pending' = SubSeq(queue, i + 1, Len(queue))
        /\ IF i > Len(queue) THEN sending' = NoSeq /\ UNCHANGED wire ELSE Write(queue[i])
  BY DEF Pump
<1>3. Len(queue) \in Nat /\ \A j \in 1 .. Len(queue) : queue[j] \in Known
  BY LenProperties, ElementOfSeq
<1>4. /\ Len(pending') = IF i + 1 <= Len(queue) THEN Len(queue) - i ELSE 0
      /\ \A j \in 1 .. Len(queue) - i : pending'[j] = queue[i + j]
  <2>1. \A j \in i + 1 .. Len(queue) : queue[j] \in Known
    BY <1>3
  <2>2. i + 1 \in Int /\ Len(queue) \in Int
    BY <1>3
  <2>3. /\ Len(pending') = IF i + 1 <= Len(queue) THEN Len(queue) - (i + 1) + 1 ELSE 0
        /\ \A j \in 1 .. Len(queue) - (i + 1) + 1 : pending'[j] = queue[(i + 1) + j - 1]
    BY <1>2, <2>1, <2>2, SubSeqProperties
  <2> QED BY <1>3, <2>3
<1>5. \A j \in 1 .. Len(pending') : i + j \in 1 .. Len(queue) /\ pending'[j] = queue[i + j]
  BY <1>3, <1>4
<1>6. \A j \in 1 .. Len(pending') : pending'[j] <= Published'
  BY <1>1, <1>5
<1>7. Sorted(pending')
  <2>1. ASSUME NEW j \in 1 .. Len(pending'), NEW k \in 1 .. Len(pending'), j < k
        PROVE  pending'[j] <= pending'[k]
    BY <1>3, <1>5, <2>1 DEF Sorted
  <2> QED BY <2>1 DEF Sorted
<1>8. CASE i > Len(queue)
  <2>1. sending' = NoSeq /\ UNCHANGED wire /\ Written' = p
    BY <1>2, <1>8 DEF Written
  <2>2. pending' = <<>>
    BY <1>2, <1>3, <1>8, SubSeqEmpty
  <2>3. \A j \in 1 .. Len(queue) : queue[j] <= p
    BY <1>2, <1>3, <1>8 DEF FirstBeyond
  <2>4. p + 1 .. Published = {}
    BY <1>0, <1>3, <2>3 DEF Holds, Known
  <2>5. Holds(pending, Written)'
    BY <1>1, <2>1, <2>4 DEF Holds
  <2>6. WireInv' /\ WireTip' = WireTip
    BY <2>1 DEF WireInv, WireTip
  <2>7. Written' <= WireTip' /\ p <= Written'
    BY <1>0, <2>1, <2>6 DEF Known
  <2> QED BY <1>6, <1>7, <2>2, <2>5, <2>6, <2>7 DEF Live
<1>9. CASE ~(i > Len(queue))
  <2>1. Write(queue[i]) /\ i \in 1 .. Len(queue) /\ queue[i] \in Known /\ queue[i] > p
    BY <1>2, <1>3, <1>9 DEF FirstBeyond
  <2>2. queue[i] = p + 1
    <3>1. p + 1 \in p + 1 .. Published
      BY <1>0, <2>1 DEF Known
    <3>2. PICK j \in 1 .. Len(queue) : queue[j] = p + 1
      BY <3>1 DEF Holds
    <3>3. j >= i
      BY <1>0, <1>2, <1>3, <3>2 DEF FirstBeyond, Known
    <3>4. queue[i] <= queue[j]
      BY <1>0, <1>3, <2>1, <3>3 DEF Sorted, Known
    <3> QED BY <1>0, <2>1, <3>2, <3>4 DEF Known
  <2>3. sending' = p + 1 /\ wire' = Append(wire, EventFrame(p + 1)) /\ p + 1 \in Known
    BY <2>1, <2>2 DEF Write
  <2>4. Written' = p + 1
    BY <1>0, <2>3 DEF Written, NoSeq, Known
  <2>5. WireInv' /\ WireTip' = p + 1
    <3>1. EventFrame(p + 1) \in KnownFrame /\ EventFrame(p + 1).seq = p + 1
      BY <2>3 DEF EventFrame, KnownFrame
    <3>2. p + 1 <= WireTip + 1
      <4>1. WireTip \in Known
        BY WireTipKnown
      <4> QED BY <1>0, <4>1 DEF Known
    <3> QED BY <2>3, <3>1, <3>2, AppendWire
  <2>6. ASSUME NEW s \in p + 2 .. Published
        PROVE  \E j \in 1 .. Len(pending') : pending'[j] = s
    <3>1. s \in p + 1 .. Published /\ s > p + 1
      BY <1>0, <2>6 DEF Known
    <3>2. PICK j \in 1 .. Len(queue) : queue[j] = s
      BY <3>1 DEF Holds
    <3>3. j > i
      <4>1. ~(j < i)
        BY <1>0, <1>2, <1>3, <3>1, <3>2 DEF FirstBeyond, Known
      <4>2. j # i
        BY <1>0, <2>2, <3>1, <3>2 DEF Known
      <4> QED BY <1>3, <4>1, <4>2
    <3>4. j - i \in 1 .. Len(pending') /\ pending'[j - i] = queue[j]
      BY <1>3, <1>4, <3>3
    <3> QED BY <3>2, <3>4
  <2>7. Holds(pending, Written)'
    BY <1>0, <1>1, <2>4, <2>6 DEF Holds, Known
  <2>8. Written' <= WireTip' /\ p <= Written' /\ sending' # NoSeq
    BY <1>0, <2>3, <2>4, <2>5 DEF Known, NoSeq
  <2> QED BY <1>6, <1>7, <2>5, <2>7, <2>8 DEF Live
<1> QED BY <1>8, <1>9

(* Sorting moves what is pending and adds or drops nothing. *)
LEMMA GoLiveContinues ==
  ASSUME LogTyped, HandlerTyped, HostTyped, WireInv, UNCHANGED <<log, writing, cursor>>,
         NEW p \in Known, p <= WireTip, Holds(pending, p),
         \A i \in 1 .. Len(pending) : pending[i] <= Published,
         GoLive(p), processed' = p
  PROVE  phase' = "live" /\ Live(p)'
<1>1. PICK order \in Bijection(DOMAIN pending, DOMAIN pending) :
        LET sorted == [i \in DOMAIN pending |-> pending[order[i]]]
        IN  /\ \A i, j \in DOMAIN pending : i < j => sorted[i] <= sorted[j]
            /\ Pump(sorted, p)
  BY Zenon DEF GoLive
<1> DEFINE sorted == [i \in DOMAIN pending |-> pending[order[i]]]
<1>2. /\ order \in [DOMAIN pending -> DOMAIN pending]
      /\ \A j \in DOMAIN pending : \E i \in DOMAIN pending : order[i] = j
  BY <1>1 DEF Bijection, Injection, Surjection
<1>3. /\ pending \in [1 .. Len(pending) -> Known] /\ Len(pending) \in Nat
      /\ DOMAIN pending = 1 .. Len(pending)
  BY LenProperties DEF HandlerTyped
<1>4. sorted \in [1 .. Len(pending) -> Known]
  BY <1>2, <1>3
<1>5. sorted \in Seq(Known) /\ Len(sorted) = Len(pending)
  BY <1>3, <1>4
<1>6. Sorted(sorted)
  BY <1>1, <1>3, <1>5 DEF Sorted
<1>7. Pump(sorted, p)
  BY <1>1
<1>8. Holds(sorted, p)
  <2>1. ASSUME NEW s \in p + 1 .. Published
        PROVE  \E i \in 1 .. Len(sorted) : sorted[i] = s
    <3>1. PICK j \in 1 .. Len(pending) : pending[j] = s
      BY DEF Holds
    <3>2. PICK i \in 1 .. Len(pending) : order[i] = j
      BY <1>2, <1>3
    <3>3. sorted[i] = s
      BY <1>3, <3>1, <3>2
    <3> QED BY <1>5, <3>3
  <2> QED BY <2>1 DEF Holds
<1>9. \A i \in 1 .. Len(sorted) : sorted[i] <= Published
  BY <1>2, <1>3, <1>5
<1> HIDE DEF sorted
<1>10. Live(p)'
  BY <1>5, <1>6, <1>7, <1>8, <1>9, PumpContinues
<1> QED BY <1>10 DEF GoLive

(* The replay writes the event after p, or nothing of it is left and the   *)
(* connection goes live.                                                   *)
LEMMA ReplayContinues ==
  ASSUME LogTyped, HandlerTyped, HostTyped, WireInv, UNCHANGED <<log, writing, cursor>>,
         NEW p \in Known, p <= WireTip, NEW m \in Known, p <= m, Holds(pending, m),
         \A i \in 1 .. Len(pending) : pending[i] <= Published,
         WriteReplay(p + 1 .. m, p),
         processed' = p
  PROVE  WireInv' /\ HandlerInv' /\ phase' \in {"replay", "live"}
<1>0. LastSeq \in Nat /\ Published \in Int
  BY PublishedNumber
<1>1. Published' = Published
  BY DEF Published, LastSeq
<1> DEFINE rest == {s \in p + 1 .. m : s > p}
<1>2. rest = p + 1 .. m
  BY <1>0 DEF Known
<1>3. CASE rest = {}
  <2>1. GoLive(p)
    BY <1>3 DEF WriteReplay
  <2>2. p = m
    <3>1. p < m => m \in p + 1 .. m
      BY <1>0 DEF Known
    <3>2. ~(p < m)
      BY <1>2, <1>3, <3>1
    <3> QED BY <1>0, <3>2 DEF Known
  <2>3. phase' = "live" /\ Live(p)'
    BY <2>1, <2>2, GoLiveContinues
  <2> QED BY <2>2, <2>3 DEF Live, HandlerInv
<1>4. CASE rest # {}
  <2>1. PICK s \in rest : /\ \A r \in rest : s <= r
                          /\ Write(s)
                          /\ phase' = "replay" /\ replay' = rest \ {s}
                          /\ UNCHANGED pending
    BY <1>4 DEF WriteReplay
  <2>2. s = p + 1 /\ s \in Known /\ s <= m
    BY <1>0, <1>2, <2>1 DEF Known
  <2>3. replay' = s + 1 .. m
    BY <1>0, <1>2, <2>1, <2>2 DEF Known
  <2>4. WireInv' /\ WireTip' = s
    <3>1. EventFrame(s) \in KnownFrame /\ EventFrame(s).seq = s
      BY <2>2 DEF EventFrame, KnownFrame
    <3>2. WireTip \in Known
      BY WireTipKnown
    <3>3. s <= WireTip + 1
      BY <1>0, <2>2, <3>2 DEF Known
    <3> QED BY <2>1, <3>1, <3>3, AppendWire DEF Write
  <2>5. sending' = s /\ sending' # NoSeq
    BY <1>0, <2>1, <2>2 DEF Write, Known, NoSeq
  <2>6. Written' = s
    BY <2>5 DEF Written
  <2>7. Holds(pending, m)'
    BY <1>1, <2>1 DEF Holds
  <2>8. m \in Nat /\ processed' <= s
    BY <1>0, <2>2 DEF Known
  <2>9. \E n \in Nat : sending' <= n /\ replay' = sending' + 1 .. n /\ Holds(pending, n)'
    BY <2>2, <2>3, <2>5, <2>7, <2>8
  <2>10. Written' <= WireTip'
    BY <1>0, <2>2, <2>4, <2>6 DEF Known
  <2>11. \A i \in 1 .. Len(pending') : pending'[i] <= Published'
    BY <1>1, <2>1
  <2> QED BY <2>1, <2>4, <2>5, <2>6, <2>8, <2>9, <2>10, <2>11 DEF HandlerInv
<1> QED BY <1>3, <1>4

(* The handler's steps continue where they are. *)
LEMMA HandlerContinues ==
  ASSUME LogTyped, HandlerTyped, HostTyped, WireInv, Open => HandlerInv, HandlerStep
  PROVE  WireInv' /\ HandlerInv'
<1>0. LastSeq \in Nat /\ Published \in Int /\ Published <= LastSeq /\ LastSeq \in Known
  BY PublishedNumber DEF Known
<1>1. UNCHANGED <<log, writing, cursor, batch, ipc, seq, missing, setBack, update, recovery>>
  BY DEF HandlerStep, logVars, projectionVars, Connect, ReadMetadata, ReadReplay, ReadPage,
     WriteResync, WriteDone
<1>2. Published' = Published
  BY <1>1 DEF Published, LastSeq
<1>3. /\ sinceSeq \in Known /\ processed \in Known /\ cursor \in Known
      /\ sending \in Known \cup {NoSeq} /\ WireTip \in Known
  BY WireTipKnown DEF HandlerTyped, HostTyped
<1>4. ASSUME UNCHANGED <<processed, sending, wire, pending, sinceSeq>>
      PROVE  /\ WireInv' /\ Written' = Written /\ WireTip' = WireTip
             /\ \A q : Holds(pending, q)' <=> Holds(pending, q)
             /\ (\A i \in 1 .. Len(pending) : pending[i] <= Published)'
                  <=> \A i \in 1 .. Len(pending) : pending[i] <= Published
  BY <1>1, <1>2, <1>4 DEF WireInv, Written, WireTip, Holds
<1>5. CASE Connect
  <2>1. /\ processed' = cursor /\ sinceSeq' = cursor /\ sending' = NoSeq /\ wire' = <<>>
        /\ pending' = <<>> /\ phase' = "connected" /\ UNCHANGED cursor
    BY <1>5 DEF Connect
  <2>2. Len(<<>>) = 0
    BY EmptySeq
  <2>3. Written' = cursor /\ WireTip' = cursor
    BY <2>1 DEF Written, WireTip
  <2>4. WireInv'
    BY <2>1, <2>2 DEF WireInv
  <2> QED BY <1>0, <1>3, <2>1, <2>2, <2>3, <2>4 DEF HandlerInv, Known
<1>6. CASE ReadMetadata
  <2>1. /\ phase = "connected" /\ phase' \in {"paging", "reading"}
        /\ UNCHANGED <<processed, sending, wire, pending, sinceSeq>>
    BY <1>6 DEF ReadMetadata
  <2>2. HandlerInv
    BY <2>1 DEF Open
  <2> QED BY <1>4, <2>1, <2>2 DEF HandlerInv
<1>7. CASE ReadReplay
  <2>1. phase = "reading" /\ UNCHANGED <<sinceSeq, processed>> /\ HandlerInv
    BY <1>7 DEF ReadReplay, Open
  <2>2. processed = sinceSeq /\ sending = NoSeq /\ Written = processed
    BY <2>1 DEF HandlerInv, Written
  <2>3. CASE RequiresResync(sinceSeq)
    <3>1. phase' = "paging" /\ UNCHANGED <<pending, sending, wire>>
      BY <1>7, <2>3 DEF ReadReplay
    <3> QED BY <1>4, <2>1, <2>2, <3>1 DEF HandlerInv
  <2>4. CASE ~RequiresResync(sinceSeq)
    <3>1. WriteReplay(HotAfter(sinceSeq), processed)
      BY <1>7, <2>4 DEF ReadReplay
    <3>2. archived \in Nat /\ archived <= sinceSeq
      BY <1>0, <1>3, <2>4 DEF RequiresResync, LogTyped, LogTypeOK, Known
    <3>3. HotAfter(sinceSeq) = processed + 1 .. LastSeq
      BY <1>0, <1>3, <2>2, <3>2 DEF HotAfter, Known
    <3>4. Holds(pending, LastSeq)
      BY <1>0 DEF Holds
    <3>5. processed <= WireTip /\ processed <= LastSeq /\ processed' = processed
      BY <1>0, <1>3, <2>1, <2>2 DEF HandlerInv, Known
    <3>6. \A i \in 1 .. Len(pending) : pending[i] <= Published
      BY <2>1 DEF HandlerInv
    <3>7. WriteReplay(processed + 1 .. LastSeq, processed)
      BY <3>1, <3>3
    <3> QED BY <1>0, <1>1, <1>3, <3>4, <3>5, <3>6, <3>7, ReplayContinues
  <2> QED BY <2>3, <2>4
<1>8. CASE ReadPage
  <2>1. /\ phase = "paging" /\ phase' = "resync" /\ replay' = {LastSeq}
        /\ UNCHANGED <<processed, sending, wire, pending, sinceSeq>> /\ HandlerInv
    BY <1>8 DEF ReadPage, Open
  <2>2. Holds(pending, LastSeq)
    BY <1>0 DEF Holds
  <2>3. processed' <= LastSeq /\ sending' = NoSeq
    BY <1>0, <1>3, <2>1 DEF HandlerInv, Known
  <2> QED BY <1>0, <1>4, <2>1, <2>2, <2>3 DEF HandlerInv
<1>9. CASE WriteResync
  <2>1. /\ phase = "resync" /\ sending = NoSeq
        /\ UNCHANGED <<phase, processed, pending, replay>> /\ HandlerInv
    BY <1>9 DEF WriteResync, Open
  <2>2. PICK l \in Nat : replay = {l} /\ processed <= l /\ Holds(pending, l)
    BY <2>1 DEF HandlerInv
  <2>3. sending' = l /\ wire' = Append(wire, ResyncFrame(l)) /\ l \in Known
    BY <1>9, <2>2 DEF WriteResync, HandlerTyped
  <2>4. ResyncFrame(l) \in KnownFrame /\ ResyncFrame(l).resync /\ ResyncFrame(l).seq = l
    BY <2>3 DEF ResyncFrame, KnownFrame
  <2>5. WireInv' /\ WireTip' = l
    BY <1>1, <2>3, <2>4, AppendWire
  <2>6. Written' = l
    BY <2>2, <2>3 DEF Written, NoSeq
  <2>7. Holds(pending, l)' /\ \A i \in 1 .. Len(pending') : pending'[i] <= Published'
    BY <1>2, <2>1, <2>2 DEF Holds, HandlerInv
  <2> QED BY <2>1, <2>2, <2>3, <2>5, <2>6, <2>7 DEF HandlerInv
<1>10. CASE WriteDone
  <2>1. Open /\ sending # NoSeq /\ processed' = sending /\ HandlerInv
    BY <1>10 DEF WriteDone
  <2>2. PICK p \in Known : sending = p
    BY <1>3, <2>1
  <2>3. /\ Written = p /\ p <= WireTip
        /\ \A i \in 1 .. Len(pending) : pending[i] <= Published
    BY <2>1, <2>2 DEF HandlerInv, Written
  <2>4. ASSUME phase' = "live", Live(p)'
        PROVE  WireInv' /\ HandlerInv'
    BY <2>1, <2>2, <2>4 DEF Live, HandlerInv
  <2>5. CASE phase = "resync" /\ GoLive(p)
    <3>1. Holds(pending, p)
      BY <2>1, <2>2, <2>5 DEF HandlerInv, NoSeq, Known
    <3> QED BY <1>1, <2>1, <2>2, <2>3, <2>4, <2>5, <3>1, GoLiveContinues
  <2>6. CASE phase = "replay" /\ WriteReplay(replay, p)
    <3>1. PICK m \in Nat : /\ p <= m /\ replay = p + 1 .. m
                           /\ Holds(pending, m)
      BY <2>1, <2>2, <2>6 DEF HandlerInv
    <3>2. m \in Known
      <4>1. CASE m = p
        BY <2>2, <4>1
      <4>2. CASE m # p
        <5>1. m \in replay
          BY <1>0, <2>2, <3>1, <4>2 DEF Known
        <5> QED BY <5>1 DEF HandlerTyped
      <4> QED BY <4>1, <4>2
    <3> QED BY <1>1, <2>1, <2>2, <2>3, <2>6, <3>1, <3>2, ReplayContinues
  <2>7. CASE phase = "live" /\ Pump(pending, p) /\ UNCHANGED <<phase, replay>>
    <3>1. Sorted(pending) /\ Holds(pending, p) /\ pending \in Seq(Known)
      BY <2>1, <2>3, <2>7 DEF HandlerInv, HandlerTyped
    <3>2. Live(p)'
      BY <1>1, <2>1, <2>2, <2>3, <2>7, <3>1, PumpContinues
    <3> QED BY <2>4, <2>7, <3>2
  <2> QED BY <1>10, <2>2, <2>5, <2>6, <2>7 DEF WriteDone
<1> QED BY <1>5, <1>6, <1>7, <1>8, <1>9, <1>10 DEF HandlerStep

-----------------------------------------------------------------------------
(* Publications.                                                           *)

(* What the writer publishes follows all that was published before: it is  *)
(* queued behind it, or begins with the event a live idle pump is due.     *)
LEMMA PublicationContinues ==
  ASSUME LogTyped, HandlerTyped, HostTyped, WriterInv, WireInv, Open => HandlerInv,
         WriterPublishes
  PROVE  WireInv' /\ (Open => HandlerInv)'
<1>0. LastSeq \in Nat /\ Len(writing) \in Nat /\ Published \in Int
  BY PublishedNumber
<1>1. /\ Accept(writing) /\ writing' = <<>>
      /\ UNCHANGED <<log, sinceSeq, processed, replay, cursor>>
  BY DEF WriterPublishes, Deliver, WriterPublished
<1>2. Published' = LastSeq /\ Published = LastSeq - Len(writing)
  <2>1. Len(<<>>) = 0
    BY EmptySeq
  <2> QED BY <1>0, <1>1, <2>1 DEF Published, LastSeq
<1> DEFINE fresh(i) == SubSeq(writing, i, Len(writing))
           starts(i) == phase = "live" /\ sending = NoSeq /\ fresh(i) # <<>>
           queue(i) == pending \o (IF starts(i) THEN Tail(fresh(i)) ELSE fresh(i))
<1>3. PICK i \in 1 .. Len(writing) + 1 :
        /\ FirstBeyond(writing, processed, i)
        /\ IF ~Subscribed \/ fresh(i) = <<>>
           THEN UNCHANGED <<phase, pending, sending, wire>>
           ELSE IF Len(queue(i)) > MaxPending
           THEN /\ phase' = "closed" /\ pending' = <<>> /\ sending' = NoSeq
                /\ wire' = IF starts(i) THEN Append(wire, EventFrame(Head(fresh(i)))) ELSE wire
           ELSE /\ pending' = queue(i)
                /\ IF starts(i) THEN Write(Head(fresh(i))) ELSE UNCHANGED <<sending, wire>>
                /\ UNCHANGED phase
  BY <1>1 DEF Accept
<1>4. /\ processed \in Known /\ sending \in Known \cup {NoSeq} /\ WireTip \in Known
      /\ pending \in Seq(Known) /\ wire \in Seq(KnownFrame)
      /\ writing \in Seq(Known)
  BY WireTipKnown, PublicationTyped DEF HandlerTyped
<1>5. \A j \in 1 .. Len(writing) : writing[j] = Published + j /\ writing[j] \in Known
  BY <1>4, ElementOfSeq DEF WriterInv
<1>6. /\ \A j \in 1 .. i - 1 : Published + j <= processed
      /\ i <= Len(writing) => Published + i > processed
  <2>1. FirstBeyond(writing, processed, i)
    BY <1>3
  <2>2. ASSUME NEW j \in 1 .. i - 1
        PROVE  Published + j <= processed
    <3>1. j \in 1 .. Len(writing) /\ writing[j] <= processed
      BY <1>0, <2>1 DEF FirstBeyond
    <3> QED BY <1>5, <3>1
  <2>3. ASSUME i <= Len(writing)
        PROVE  Published + i > processed
    <3>1. i \in 1 .. Len(writing) /\ writing[i] > processed
      BY <1>0, <2>1, <2>3 DEF FirstBeyond
    <3> QED BY <1>5, <3>1
  <2> QED BY <2>2, <2>3
<1>7. /\ fresh(i) \in Seq(Known)
      /\ Len(fresh(i)) = Len(writing) + 1 - i
      /\ \A j \in 1 .. Len(fresh(i)) : fresh(i)[j] = Published + i + j - 1
  <2>1. \A j \in i .. Len(writing) : writing[j] \in Known
    BY <1>0, <1>5
  <2>2. /\ fresh(i) \in Seq(Known)
        /\ Len(fresh(i)) = IF i <= Len(writing) THEN Len(writing) - i + 1 ELSE 0
        /\ \A j \in 1 .. Len(writing) - i + 1 : fresh(i)[j] = writing[i + j - 1]
    BY <1>0, <2>1, SubSeqProperties
  <2>3. Len(fresh(i)) = Len(writing) + 1 - i
    BY <1>0, <2>2
  <2>4. ASSUME NEW j \in 1 .. Len(fresh(i))
        PROVE  fresh(i)[j] = Published + i + j - 1
    <3>1. i + j - 1 \in 1 .. Len(writing) /\ fresh(i)[j] = writing[i + j - 1]
      BY <1>0, <2>2, <2>3
    <3> QED BY <1>0, <1>5, <3>1
  <2> QED BY <2>2, <2>3, <2>4
<1> HIDE DEF fresh
<1>p. ASSUME NEW q \in Nat, processed <= q, Holds(pending, q), NEW s \in q + 1 .. LastSeq
      PROVE  \/ \E j \in 1 .. Len(pending) : pending[j] = s
             \/ \E j \in 1 .. Len(fresh(i)) : fresh(i)[j] = s
  <2>1. CASE s <= Published
    BY <1>0, <1>p, <2>1 DEF Holds, Known
  <2>2. CASE ~(s <= Published)
    <3> DEFINE j == s - Published
               k == j - i + 1
    <3>1. j \in 1 .. Len(writing) /\ Published + j = s
      BY <1>0, <1>2, <2>2 DEF Known
    <3>2. s > processed /\ k \in Int /\ j = k + i - 1
      BY <1>0, <1>4, <1>p, <3>1 DEF Known
    <3> HIDE DEF j, k
    <3>3. ~(j \in 1 .. i - 1)
      <4>1. j \in 1 .. i - 1 => Published + j <= processed
        BY <1>6
      <4> QED BY <1>0, <1>4, <3>1, <3>2, <4>1 DEF Known
    <3>4. k \in 1 .. Len(fresh(i))
      BY <1>0, <1>7, <3>1, <3>2, <3>3
    <3>5. fresh(i)[k] = Published + i + k - 1
      BY <1>7, <3>4
    <3>6. fresh(i)[k] = s
      BY <1>0, <3>1, <3>2, <3>5
    <3> QED BY <3>4, <3>6
  <2> QED BY <2>1, <2>2
<1>8. CASE ~Open
  <2>1. UNCHANGED <<phase, wire>>
    BY <1>3, <1>8 DEF Subscribed
  <2> QED BY <1>1, <1>8, <2>1 DEF Open, WireInv
<1>h. /\ Len(pending) \in Nat /\ Len(fresh(i)) \in Nat
      /\ \A j \in 1 .. Len(pending) : pending[j] \in Known
      /\ \A j \in 1 .. Len(fresh(i)) : fresh(i)[j] \in Known
  BY <1>4, <1>7, LenProperties, ElementOfSeq
<1>9. ASSUME Open, UNCHANGED <<phase, sending, wire>>, pending' = pending \o fresh(i),
             fresh(i) = <<>> \/ ~starts(i)
      PROVE  WireInv' /\ (Open => HandlerInv)'
  <2>1. HandlerInv
    BY <1>9
  <2>2. /\ pending' \in Seq(Known)
        /\ Len(pending') = Len(pending) + Len(fresh(i))
        /\ \A j \in 1 .. Len(pending') :
             pending'[j] = IF j <= Len(pending) THEN pending[j] ELSE fresh(i)[j - Len(pending)]
    <3> DEFINE both == pending \o fresh(i)
    <3>1. /\ both \in Seq(Known)
          /\ Len(both) = Len(pending) + Len(fresh(i))
          /\ \A j \in 1 .. Len(pending) + Len(fresh(i)) :
               both[j] = IF j <= Len(pending) THEN pending[j] ELSE fresh(i)[j - Len(pending)]
      BY <1>4, <1>7, ConcatProperties
    <3> HIDE DEF both
    <3>2. pending' = both
      BY <1>9 DEF both
    <3> QED BY <3>1, <3>2
  <2>3. \A j \in 1 .. Len(pending') : pending'[j] <= Published'
    <3>1. \A j \in 1 .. Len(pending') : pending'[j] \in Known
      BY <2>2, ElementOfSeq
    <3> QED BY <1>0, <1>2, <3>1 DEF Known
  <2>4. ASSUME NEW q \in Nat, processed <= q, Holds(pending, q)
        PROVE  Holds(pending, q)'
    <3>1. ASSUME NEW s \in q + 1 .. LastSeq
          PROVE  \E j \in 1 .. Len(pending') : pending'[j] = s
      <4>1. CASE \E j \in 1 .. Len(pending) : pending[j] = s
        BY <1>h, <2>2, <4>1
      <4>2. ASSUME NEW j \in 1 .. Len(fresh(i)), fresh(i)[j] = s
            PROVE  \E k \in 1 .. Len(pending') : pending'[k] = s
        <5>1. /\ Len(pending) + j \in 1 .. Len(pending')
              /\ ~(Len(pending) + j <= Len(pending))
              /\ Len(pending) + j - Len(pending) = j
          BY <1>h, <2>2
        <5>2. pending'[Len(pending) + j] = fresh(i)[j]
          BY <2>2, <5>1
        <5> QED BY <4>2, <5>1, <5>2
      <4> QED BY <1>p, <2>4, <4>1, <4>2
    <3> QED BY <1>2, <3>1 DEF Holds
  <2>5. WireInv' /\ Written' = Written /\ WireTip' = WireTip
    BY <1>1, <1>9 DEF WireInv, Written, WireTip
  <2>6. ASSUME phase = "live"
        PROVE  Sorted(pending')
    <3>1. \A j \in 1 .. Len(pending) : pending[j] <= Published
      BY <2>1 DEF HandlerInv
    <3>2. Sorted(pending)
      BY <2>1, <2>6 DEF HandlerInv
    <3>3. ASSUME NEW j \in 1 .. Len(pending'), NEW k \in 1 .. Len(pending'), j < k
          PROVE  pending'[j] <= pending'[k]
      <4>1. CASE k <= Len(pending)
        BY <1>h, <2>2, <3>2, <3>3, <4>1 DEF Sorted
      <4>2. CASE ~(k <= Len(pending))
        <5>1. /\ k - Len(pending) \in 1 .. Len(fresh(i))
              /\ pending'[k] = fresh(i)[k - Len(pending)]
          BY <1>h, <2>2, <4>2
        <5>2. pending'[k] = Published + i + (k - Len(pending)) - 1
          BY <1>7, <5>1
        <5>3. CASE j <= Len(pending)
          <6>1. j \in 1 .. Len(pending) /\ pending'[j] = pending[j]
            BY <1>h, <2>2, <5>3
          <6>2. pending'[j] <= Published /\ pending'[j] \in Int
            BY <1>0, <1>h, <3>1, <6>1 DEF Known
          <6> QED BY <1>0, <1>h, <4>2, <5>2, <6>2
        <5>4. CASE ~(j <= Len(pending))
          <6>1. /\ j - Len(pending) \in 1 .. Len(fresh(i))
                /\ pending'[j] = fresh(i)[j - Len(pending)]
            BY <1>h, <2>2, <5>4
          <6>2. pending'[j] = Published + i + (j - Len(pending)) - 1
            BY <1>7, <6>1
          <6> QED BY <1>0, <1>h, <3>3, <5>2, <6>2
        <5> QED BY <5>3, <5>4
      <4> QED BY <4>1, <4>2
    <3> QED BY <3>3 DEF Sorted
  <2>7. ASSUME phase = "live", sending = NoSeq
        PROVE  pending' = <<>>
    <3>1. pending = <<>> /\ fresh(i) = <<>>
      BY <1>9, <2>1, <2>7 DEF HandlerInv
    <3> QED BY <1>9, <3>1
  <2>8. Written \in Nat
    BY <1>0, <1>4 DEF Written, NoSeq, Known
  <2>9. processed <= Written
    BY <2>1 DEF HandlerInv
  <2>10. phase = "live" => Holds(pending, Written)'
    <3>1. ASSUME phase = "live"
          PROVE  Holds(pending, Written)'
      <4>1. Holds(pending, Written)
        BY <2>1, <3>1 DEF HandlerInv
      <4>2. PICK q \in Nat : q = Written
        BY <2>8
      <4>3. Holds(pending, q)'
        BY <2>4, <2>9, <4>1, <4>2
      <4> QED BY <2>5, <4>2, <4>3 DEF Holds
    <3> QED BY <3>1
  <2>11. phase = "resync" =>
           \E l \in Nat : /\ replay' = {l} /\ processed' <= l /\ sending' \in {NoSeq, l}
                          /\ Holds(pending, l)'
    BY <1>1, <1>9, <2>1, <2>4 DEF HandlerInv
  <2>12. phase = "replay" =>
           /\ sending' # NoSeq
           /\ \E m \in Nat : /\ sending' <= m /\ replay' = sending' + 1 .. m
                             /\ Holds(pending, m)'
    <3>1. ASSUME phase = "replay"
          PROVE  /\ sending' # NoSeq
                 /\ \E m \in Nat : /\ sending' <= m /\ replay' = sending' + 1 .. m
                                   /\ Holds(pending, m)'
      <4>1. sending # NoSeq /\ sending = Written
        BY <2>1, <3>1 DEF HandlerInv, Written
      <4>2. PICK m \in Nat : sending <= m /\ replay = sending + 1 .. m /\ Holds(pending, m)
        BY <2>1, <3>1 DEF HandlerInv
      <4>3. processed <= m
        BY <1>0, <1>4, <2>8, <2>9, <4>1, <4>2 DEF Known
      <4>4. Holds(pending, m)'
        BY <2>4, <4>2, <4>3
      <4> QED BY <1>1, <1>9, <4>1, <4>2, <4>4
    <3> QED BY <3>1
  <2>13. HandlerInv'
    <3>1. Written' <= WireTip' /\ processed' <= Written'
      BY <1>1, <2>1, <2>5 DEF HandlerInv
    <3>2. phase' \in {"connected", "reading", "paging"} =>
            processed' = sinceSeq' /\ sending' = NoSeq
      BY <1>1, <1>9, <2>1 DEF HandlerInv
    <3>3. phase' = phase /\ (sending' = NoSeq => sending = NoSeq)
      BY <1>9
    <3> QED BY <2>3, <2>6, <2>7, <2>10, <2>11, <2>12, <3>1, <3>2, <3>3 DEF HandlerInv
  <2> QED BY <2>5, <2>13
<1>10. CASE Open /\ fresh(i) = <<>>
  <2>1. UNCHANGED <<phase, pending, sending, wire>>
    BY <1>3, <1>10
  <2>2. pending \o fresh(i) = pending
    BY <1>4, <1>10, ConcatEmptySeq
  <2> QED BY <1>9, <1>10, <2>1, <2>2
<1>11. CASE Open /\ fresh(i) # <<>> /\ ~starts(i)
  <2>1. queue(i) = pending \o fresh(i)
    BY <1>11
  <2>2. CASE Len(queue(i)) > MaxPending
    <3>1. phase' = "closed" /\ UNCHANGED wire
      BY <1>3, <1>11, <2>2 DEF Subscribed
    <3> QED BY <1>1, <3>1 DEF Open, WireInv
  <2>3. CASE ~(Len(queue(i)) > MaxPending)
    <3>1. pending' = queue(i) /\ UNCHANGED <<phase, sending, wire>>
      BY <1>3, <1>11, <2>3 DEF Subscribed
    <3> QED BY <1>9, <1>11, <2>1, <3>1
  <2> QED BY <2>2, <2>3
<1>12. CASE Open /\ fresh(i) # <<>> /\ starts(i)
  <2>1. /\ HandlerInv /\ phase = "live" /\ sending = NoSeq /\ pending = <<>>
        /\ Written = processed /\ Holds(pending, processed)
    BY <1>12 DEF HandlerInv, Written
  <2>2. Len(fresh(i)) >= 1 /\ Len(pending) = 0
    BY <1>7, <1>12, <2>1, EmptySeq
  <2>3. Published <= processed
    BY <1>0, <1>4, <2>1, <2>2 DEF Holds, Known
  <2>4. PICK s \in Known : s = Head(fresh(i))
    BY <1>7, <1>12, HeadTailProperties
  <2>5. s = Published + i
    <3>1. Head(fresh(i)) = fresh(i)[1] /\ fresh(i)[1] = Published + i + 1 - 1
      BY <1>7, <2>2
    <3> QED BY <1>0, <2>4, <3>1
  <2>6. s = processed + 1
    <3>1. i <= Len(writing)
      BY <1>0, <1>7, <2>2
    <3>2. s > processed
      BY <1>6, <2>5, <3>1
    <3>3. CASE i = 1
      BY <1>0, <1>4, <2>3, <2>5, <3>2, <3>3 DEF Known
    <3>4. CASE i # 1
      <4>1. Published + (i - 1) <= processed
        BY <1>6, <3>4
      <4> QED BY <1>0, <1>4, <2>5, <3>2, <4>1 DEF Known
    <3> QED BY <3>3, <3>4
  <2>7. ASSUME wire' = Append(wire, EventFrame(s))
        PROVE  WireInv' /\ WireTip' = s
    <3>1. EventFrame(s) \in KnownFrame /\ EventFrame(s).seq = s
      BY DEF EventFrame, KnownFrame
    <3>2. s <= WireTip + 1
      BY <1>0, <1>4, <2>1, <2>6 DEF HandlerInv, Known
    <3> QED BY <1>1, <2>7, <3>1, <3>2, AppendWire
  <2>8. queue(i) = Tail(fresh(i))
    <3>1. Tail(fresh(i)) \in Seq(Known)
      BY <1>7, <1>12, HeadTailProperties
    <3> QED BY <1>12, <2>1, <3>1, ConcatEmptySeq
  <2>9. CASE Len(queue(i)) > MaxPending
    <3>1. phase' = "closed" /\ wire' = Append(wire, EventFrame(s))
      BY <1>3, <1>12, <2>4, <2>9 DEF Subscribed
    <3> QED BY <2>7, <3>1 DEF Open
  <2>10. CASE ~(Len(queue(i)) > MaxPending)
    <3>1. /\ pending' = Tail(fresh(i)) /\ phase' = "live" /\ sending' = s
          /\ wire' = Append(wire, EventFrame(s))
      BY <1>3, <1>12, <2>1, <2>4, <2>8, <2>10 DEF Subscribed, Write
    <3>2. /\ Len(pending') = Len(fresh(i)) - 1
          /\ \A j \in 1 .. Len(pending') : pending'[j] = fresh(i)[j + 1]
      BY <1>7, <1>12, <3>1, HeadTailProperties
    <3>3. \A j \in 1 .. Len(pending') : pending'[j] = s + j /\ s + j <= LastSeq
      <4>1. ASSUME NEW j \in 1 .. Len(pending')
            PROVE  pending'[j] = s + j /\ s + j <= LastSeq
        <5>1. j + 1 \in 1 .. Len(fresh(i)) /\ pending'[j] = fresh(i)[j + 1]
          BY <1>h, <3>2
        <5>2. fresh(i)[j + 1] = Published + i + (j + 1) - 1
          BY <1>7, <5>1
        <5>3. fresh(i)[j + 1] \in Known
          BY <1>h, <5>1
        <5> QED BY <1>0, <2>5, <5>1, <5>2, <5>3 DEF Known
      <4> QED BY <4>1
    <3>4. Holds(pending, s)'
      <4>1. ASSUME NEW t \in s + 1 .. LastSeq
            PROVE  t - s \in 1 .. Len(pending') /\ pending'[t - s] = t
        <5>1. t - s \in 1 .. Len(pending')
          BY <1>0, <1>2, <1>7, <1>h, <2>5, <3>2, <4>1
        <5>2. pending'[t - s] = s + (t - s)
          BY <3>3, <5>1
        <5> QED BY <1>0, <5>1, <5>2 DEF Known
      <4> QED BY <1>2, <4>1 DEF Holds
    <3>5. Sorted(pending')
      BY <1>0, <1>h, <3>2, <3>3 DEF Sorted, Known
    <3>6. Written' = s /\ sending' # NoSeq /\ processed' <= s
      BY <1>0, <1>1, <1>4, <2>6, <3>1 DEF Written, NoSeq, Known
    <3>7. WireInv' /\ WireTip' = s
      BY <2>7, <3>1
    <3>8. Holds(pending, Written)'
      BY <3>4, <3>6 DEF Holds
    <3>9. Written' <= WireTip' /\ processed' <= Written'
      BY <1>0, <3>6, <3>7 DEF Known
    <3>10. \A j \in 1 .. Len(pending') : pending'[j] <= Published'
      BY <1>2, <3>3
    <3>11. HandlerInv'
      BY <3>1, <3>5, <3>6, <3>8, <3>9, <3>10 DEF HandlerInv
    <3> QED BY <3>7, <3>11
  <2> QED BY <2>9, <2>10
<1> QED BY <1>8, <1>10, <1>11, <1>12

-----------------------------------------------------------------------------
(* The host and the window.                                                *)

(* The next event continues the batch. *)
LEMMA GaplessAppend ==
  ASSUME LastSeq \in Nat, NEW events \in Seq(Known), NEW e \in Known, NEW s \in Known,
         IF events = <<>> THEN s <= e + 1
         ELSE Gapless(events, e) /\ s = events[Len(events)] + 1
  PROVE  /\ Gapless(Append(events, s), e)
         /\ Append(events, s)[Len(Append(events, s))] = s
<1> DEFINE r == Append(events, s)
<1>1. Len(events) \in Nat /\ \A i \in 1 .. Len(events) : events[i] \in Known
  BY LenProperties, ElementOfSeq
<1>2. /\ r # <<>> /\ Len(r) = Len(events) + 1
      /\ \A i \in 1 .. Len(events) : r[i] = events[i]
      /\ r[Len(events) + 1] = s
  BY AppendProperties
<1> HIDE DEF r
<1>3. CASE events = <<>>
  <2>1. Len(events) = 0
    BY <1>3, EmptySeq
  <2> QED BY <1>2, <1>3, <2>1 DEF Gapless, Known, r
<1>4. CASE events # <<>>
  <2>1. Len(events) >= 1 /\ Gapless(events, e) /\ s = events[Len(events)] + 1
    BY <1>4, EmptySeq
  <2>2. r[1] = events[1] /\ events[1] \in Known /\ events[Len(events)] = events[1] + Len(events) - 1
    BY <1>1, <1>2, <2>1 DEF Gapless
  <2>3. ASSUME NEW i \in 1 .. Len(r)
        PROVE  r[i] = r[1] + i - 1
    <3>1. CASE i <= Len(events)
      BY <1>1, <1>2, <2>1, <2>2, <3>1 DEF Gapless
    <3>2. CASE ~(i <= Len(events))
      BY <1>1, <1>2, <2>1, <2>2, <3>2 DEF Known
    <3> QED BY <3>1, <3>2
  <2> QED BY <1>2, <2>1, <2>2, <2>3 DEF Gapless, r
<1> QED BY <1>3, <1>4

(* Where a batch ends is a known number. *)
LEMMA EndKnown ==
  ASSUME NEW b \in KnownBatch, b.resync = NoSeq => b.events # <<>>
  PROVE  End(b) \in Known
<1>1. CASE b.resync # NoSeq
  BY <1>1 DEF End, KnownBatch
<1>2. CASE b.resync = NoSeq
  <2>1. b.events \in Seq(Known) /\ b.events # <<>>
    BY <1>2 DEF KnownBatch
  <2>2. Len(b.events) \in 1 .. Len(b.events)
    BY <2>1, EmptySeq
  <2>3. b.events[Len(b.events)] \in Known
    BY <2>1, <2>2, ElementOfSeq
  <2> QED BY <1>2, <2>3 DEF End
<1> QED BY <1>1, <1>2

(* Where the last batch ends is one, too. *)
LEMMA TipKnown ==
  ASSUME NEW q \in Seq(KnownBatch), NEW e \in Known, Chained(q, e)
  PROVE  Tip(q, e) \in Known
<1>1. CASE q = <<>>
  BY <1>1 DEF Tip
<1>2. CASE q # <<>>
  <2>1. Len(q) \in Nat \ {0}
    BY <1>2, EmptySeq
  <2>2. q[Len(q)] \in KnownBatch
    BY <2>1, ElementOfSeq
  <2>3. q[Len(q)].resync = NoSeq => q[Len(q)].events # <<>>
    <3>1. CASE Len(q) = 1
      BY <1>2, <3>1 DEF Chained, Follows, Gapless
    <3>2. CASE Len(q) # 1
      <4>1. PICK n \in Nat : n = Len(q)
        BY <2>1
      <4>2. n - 1 \in 1 .. n - 1 /\ n - 1 + 1 = n
        BY <2>1, <3>2, <4>1
      <4>3. Follows(q[n - 1 + 1], End(q[n - 1]))
        BY <4>1, <4>2 DEF Chained
      <4> QED BY <4>1, <4>2, <4>3 DEF Follows, Gapless
    <3> QED BY <3>1, <3>2
  <2> QED BY <1>2, <2>2, <2>3, EndKnown DEF Tip
<1> QED BY <1>1, <1>2

(* The host takes frames in turn, and no batch it hands over has a gap. *)
LEMMA HostContinues ==
  ASSUME LogTyped, HandlerTyped, HostTyped, WindowTyped, PipeInv, WireInv,
         Open => HandlerInv, HostStep
  PROVE  PipeInv' /\ WireInv' /\ (Open => HandlerInv)'
<1>0. LastSeq \in Nat /\ UNCHANGED <<log, writing, seq, setBack>>
  BY PublishedNumber DEF HostStep, logVars, projectionVars
<1>e. PICK e \in Known : e = Reached
  BY DEF Reached, WindowTyped
<1>f. Continues(ipc, e) /\ (Continues(ipc, e)' => PipeInv')
  BY <1>0, <1>e DEF PipeInv, Reached
<1>1. /\ ipc \in Seq(KnownBatch) /\ batch \in Seq(Known) /\ cursor \in Known
      /\ e \in Known /\ Tip(ipc, e) \in Known
  BY <1>f, TipKnown DEF HostTyped, Continues
<1>2. Published' = Published
  BY <1>0 DEF Published, LastSeq
<1>3. /\ Chained(Flushed(ipc, batch), e) /\ cursor <= Tip(Flushed(ipc, batch), e)
      /\ Flushed(ipc, batch) \in Seq(KnownBatch)
  <2>1. CASE batch = <<>>
    BY <1>f, <1>1, <2>1 DEF Continues, Flushed
  <2>2. CASE batch # <<>>
    <3>1. batch[Len(batch)] = cursor /\ Gapless(batch, Tip(ipc, e)) /\ Chained(ipc, e)
      BY <1>f, <2>2 DEF Continues
    <3>2. cursor <= cursor
      BY <1>0, <1>1 DEF Known
    <3> QED BY <1>0, <1>1, <3>1, <3>2, FlushChained
  <2> QED BY <2>1, <2>2
<1>4. ASSUME ipc' = Flushed(ipc, batch), batch' = <<>>, UNCHANGED cursor
      PROVE  PipeInv'
  BY <1>f, <1>0, <1>3, <1>4 DEF Continues
<1>5. CASE FlushTimer
  <2>1. PipeInv'
    BY <1>4, <1>5 DEF FlushTimer, FlushBatch
  <2>2. UNCHANGED <<phase, sinceSeq, processed, replay, pending, sending, wire, cursor>>
    BY <1>5 DEF FlushTimer
  <2>3. WireInv'
    BY <2>2 DEF WireInv
  <2>4. (Open => HandlerInv)'
    BY <1>2, <2>2 DEF Open, HandlerInv, Written, WireTip, Holds, Sorted
  <2> QED BY <2>1, <2>3, <2>4
<1>6. CASE Disconnect
  <2>1. PipeInv'
    BY <1>4, <1>6 DEF Disconnect, LeaveBatch, FlushBatch
  <2>2. phase' = "down" /\ wire' = <<>> /\ Len(<<>>) = 0
    BY <1>6, EmptySeq DEF Disconnect
  <2> QED BY <2>1, <2>2 DEF WireInv, Open
<1>7. CASE ReadFrame
  <2>1. /\ wire # <<>> /\ wire' = Tail(wire) /\ wire \in Seq(KnownFrame)
        /\ UNCHANGED <<phase, sinceSeq, processed, replay, pending, sending>>
    BY <1>7 DEF ReadFrame, HandlerTyped
  <2>2. /\ Len(wire) \in Nat \ {0} /\ Head(wire) = wire[1] /\ Head(wire) \in KnownFrame
        /\ Len(wire') = Len(wire) - 1
        /\ wire' \in Seq(KnownFrame)
        /\ \A k \in 1 .. Len(wire') : wire'[k] = wire[k + 1]
    BY <2>1, EmptySeq, HeadTailProperties
  <2>3. PICK s \in Known : s = Head(wire).seq
    BY <2>2 DEF KnownFrame
  <2>w. ASSUME cursor' \in Known, s <= cursor'
        PROVE  WireInv' /\ (Open => HandlerInv)'
    <3>1. WireInv'
      <4>1. ASSUME wire' # <<>>
            PROVE  wire'[1].resync \/ wire'[1].seq <= cursor' + 1
        <5>1. Len(wire') \in Nat \ {0}
          BY <2>2, <4>1, EmptySeq
        <5>2. 1 \in 1 .. Len(wire) - 1 /\ wire'[1] = wire[1 + 1] /\ wire'[1] \in KnownFrame
          BY <2>2, <5>1, ElementOfSeq
        <5>3. wire'[1].resync \/ wire'[1].seq <= s + 1
          BY <2>2, <2>3, <5>2 DEF WireInv
        <5> QED BY <1>0, <2>w, <5>2, <5>3 DEF Known, KnownFrame
      <4>2. ASSUME NEW k \in 1 .. Len(wire') - 1
            PROVE  wire'[k + 1].resync \/ wire'[k + 1].seq <= wire'[k].seq + 1
        <5>1. /\ k + 1 \in 1 .. Len(wire) - 1
              /\ wire'[k] = wire[k + 1] /\ wire'[k + 1] = wire[(k + 1) + 1]
          BY <2>2
        <5> QED BY <5>1 DEF WireInv
      <4> QED BY <4>1, <4>2 DEF WireInv
    <3>2. WireTip <= WireTip'
      <4>1. CASE Len(wire) = 1
        <5>1. wire' = <<>>
          BY <2>2, <4>1, EmptySeq
        <5> QED BY <2>1, <2>2, <2>3, <2>w, <4>1, <5>1 DEF WireTip
      <4>2. CASE Len(wire) # 1
        <5>1. wire' # <<>>
          BY <2>2, <4>2, EmptySeq
        <5>2. wire'[Len(wire')] = wire[Len(wire)]
          BY <2>2, <4>2
        <5>3. WireTip' = WireTip /\ WireTip \in Known
          BY <2>1, <5>1, <5>2, WireTipKnown DEF WireTip
        <5> QED BY <1>0, <5>3 DEF Known
      <4> QED BY <4>1, <4>2
    <3>3. WireTip \in Int /\ WireTip' \in Int /\ Written \in Int
      <4>1. WireTip \in Known
        BY WireTipKnown
      <4>2. WireTip' \in Known
        <5>1. CASE wire' = <<>>
          BY <2>w, <5>1 DEF WireTip
        <5>2. CASE wire' # <<>>
          <6>1. Len(wire') \in 1 .. Len(wire')
            BY <2>2, <5>2, EmptySeq
          <6>2. wire'[Len(wire')] \in KnownFrame
            BY <2>2, <6>1, ElementOfSeq
          <6> QED BY <5>2, <6>2 DEF WireTip, KnownFrame
        <5> QED BY <5>1, <5>2
      <4> QED BY <1>0, <4>1, <4>2 DEF Written, HandlerTyped, Known, NoSeq
    <3>4. Written' = Written
      BY <2>1 DEF Written
    <3>5. Open /\ HandlerInv => Written' <= WireTip'
      BY <3>2, <3>3, <3>4 DEF HandlerInv
    <3>6. (Open => HandlerInv)'
      BY <1>2, <2>1, <3>4, <3>5 DEF Open, HandlerInv, Holds, Sorted
    <3> QED BY <3>1, <3>6
  <2>4. CASE Head(wire).resync
    <3> DEFINE q == Flushed(ipc, batch)
               b == ResyncBatch(s)
    <3>1. ipc' = Append(q, b) /\ batch' = <<>> /\ cursor' = s
      BY <1>7, <2>3, <2>4 DEF ReadFrame
    <3>2. b \in KnownBatch
      BY EmptySeq DEF ResyncBatch, KnownBatch
    <3>3. s # NoSeq /\ s <= s
      BY <1>0 DEF Known, NoSeq
    <3>4. Follows(b, Tip(q, e)) /\ End(b) = s
      BY <3>3 DEF Follows, End, ResyncBatch
    <3> HIDE DEF q, b
    <3>5. Chained(Append(q, b), e) /\ Tip(Append(q, b), e) = s
      BY <1>3, <3>2, <3>4, AppendChained DEF q
    <3>6. PipeInv'
      BY <1>f, <1>0, <3>1, <3>3, <3>5 DEF Continues
    <3> QED BY <2>w, <3>1, <3>3, <3>6
  <2>5. CASE ~Head(wire).resync /\ s > cursor
    <3> DEFINE events == Append(batch, s)
    <3>1. Enqueue(s) /\ cursor' = s
      BY <1>7, <2>3, <2>5 DEF ReadFrame
    <3>2. s = cursor + 1
      BY <1>0, <1>1, <2>1, <2>2, <2>3, <2>5 DEF WireInv, Known
    <3>3. IF batch = <<>> THEN s <= Tip(ipc, e) + 1
          ELSE Gapless(batch, Tip(ipc, e)) /\ s = batch[Len(batch)] + 1
      BY <1>f, <1>0, <1>1, <3>2 DEF Continues, Known
    <3>4. Gapless(events, Tip(ipc, e)) /\ events[Len(events)] = s
      BY <1>0, <1>1, <3>3, GaplessAppend
    <3>5. events \in Seq(Known) /\ events # <<>>
      BY <1>1, AppendProperties
    <3> HIDE DEF events
    <3>6. s <= s
      BY <1>0 DEF Known
    <3>7. CASE ipc' = Flushed(ipc, events) /\ batch' = <<>>
      <4>1. Chained(ipc, e)
        BY <1>f DEF Continues
      <4>2. Chained(Flushed(ipc, events), e) /\ Tip(Flushed(ipc, events), e) = s
        BY <1>0, <1>1, <3>4, <3>5, <4>1, FlushChained
      <4>3. PipeInv'
        BY <1>f, <1>0, <3>1, <3>6, <3>7, <4>2 DEF Continues
      <4> QED BY <2>w, <3>1, <3>6, <4>3
    <3>8. CASE batch' = events /\ UNCHANGED ipc
      <4>1. PipeInv'
        BY <1>f, <1>0, <3>1, <3>4, <3>5, <3>8 DEF Continues
      <4> QED BY <2>w, <3>1, <3>6, <4>1
    <3> QED BY <3>1, <3>7, <3>8 DEF Enqueue, events
  <2>6. CASE ~Head(wire).resync /\ ~(s > cursor)
    <3>1. UNCHANGED <<cursor, batch, ipc>>
      BY <1>7, <2>3, <2>6 DEF ReadFrame
    <3>2. s <= cursor' /\ cursor' \in Known
      BY <1>0, <1>1, <2>6, <3>1 DEF Known
    <3>3. PipeInv'
      BY <1>f, <1>0, <3>1 DEF Continues
    <3> QED BY <2>w, <3>2, <3>3
  <2> QED BY <2>4, <2>5, <2>6
<1> QED BY <1>5, <1>6, <1>7 DEF HostStep

(* A projection further on can still be followed. *)
LEMMA ChainedFrom ==
  ASSUME LastSeq \in Nat, NEW q \in Seq(KnownBatch), NEW e \in Known, NEW f \in Known, e <= f,
         Chained(q, e)
  PROVE  /\ Chained(q, f)
         /\ q = <<>> => Tip(q, e) = e /\ Tip(q, f) = f
         /\ q # <<>> => Tip(q, f) = Tip(q, e)
<1>1. q # <<>> => Follows(q[1], f)
  <2>1. ASSUME q # <<>>, q[1].resync = NoSeq
        PROVE  Gapless(q[1].events, f)
    <3>1. q[1] \in KnownBatch
      BY <2>1, EmptySeq, ElementOfSeq
    <3>2. q[1].events \in Seq(Known) /\ Gapless(q[1].events, e)
      BY <2>1, <3>1 DEF Chained, Follows, KnownBatch
    <3>3. q[1].events[1] \in Known
      BY <3>2, EmptySeq, ElementOfSeq DEF Gapless
    <3> QED BY <3>2, <3>3 DEF Gapless, Known
  <2> QED BY <2>1 DEF Follows
<1> QED BY <1>1 DEF Chained, Tip

(* The window moves on, and what it is sent still follows. *)
LEMMA MovesOn ==
  ASSUME LogTyped, HostTyped, NEW q \in Seq(KnownBatch), NEW e \in Known, NEW f \in Known,
         e <= f, Continues(q, e)
  PROVE  Continues(q, f)
<1>1. LastSeq \in Nat /\ cursor \in Known /\ batch \in Seq(Known)
  BY PublishedNumber DEF HostTyped
<1>2. Chained(q, e)
  BY DEF Continues
<1>3. /\ Chained(q, f)
      /\ q = <<>> => Tip(q, e) = e /\ Tip(q, f) = f
      /\ q # <<>> => Tip(q, f) = Tip(q, e)
  BY <1>1, <1>2, ChainedFrom
<1>4. Tip(q, e) \in Known /\ Tip(q, f) \in Known /\ Tip(q, e) <= Tip(q, f)
  BY <1>1, <1>2, <1>3, TipKnown DEF Known
<1>5. batch = <<>> => cursor <= Tip(q, f)
  BY <1>1, <1>4 DEF Continues, Known
<1>6. ASSUME batch # <<>>
      PROVE  Gapless(batch, Tip(q, f)) /\ batch[Len(batch)] = cursor
  <2>1. batch[1] \in Known
    BY <1>1, <1>6, EmptySeq, ElementOfSeq
  <2>2. Gapless(batch, Tip(q, e)) /\ batch[Len(batch)] = cursor
    BY <1>6 DEF Continues
  <2> QED BY <1>1, <1>4, <2>1, <2>2 DEF Gapless, Known
<1> QED BY <1>3, <1>5, <1>6 DEF Continues

(* The window applies a batch without a gap and stands at its end or past it. *)
LEMMA ApplyContinues ==
  ASSUME LogTyped, HostTyped, WindowTyped, Ordered, WriterInv, WindowInv, PipeInv,
         "cut" \notin Kind, ApplyBatch
  PROVE  WindowInv' /\ PipeInv'
<1> DEFINE b == ipc[1]
           rest == Tail(ipc)
<1>0. LastSeq \in Nat
  BY PublishedNumber
<1>1. /\ ipc # <<>> /\ ipc \in Seq(KnownBatch) /\ Head(ipc) = ipc[1] /\ ipc' = Tail(ipc)
      /\ UNCHANGED <<log, cursor, batch, recovery, setBack>>
  BY DEF ApplyBatch, HostTyped, logVars
<1>e. PICK e \in Known : e = Reached
  BY DEF Reached, WindowTyped
<1>p. Continues(ipc, e)
  BY <1>e DEF PipeInv
<1>2. Len(ipc) \in Nat \ {0}
  BY <1>1, EmptySeq
<1>3. /\ b \in KnownBatch /\ b.resync \in Known \cup {NoSeq} /\ b.events \in Seq(Known)
      /\ Follows(b, e) /\ InOrder(b)
  <2>1. b \in KnownBatch
    BY <1>1, <1>2, ElementOfSeq
  <2>2. Follows(b, e)
    BY <1>1, <1>p DEF Continues, Chained
  <2>3. InOrder(b)
    BY <1>2 DEF Ordered
  <2> QED BY <2>1, <2>2, <2>3 DEF KnownBatch
<1>4. /\ IF Adopts(b.resync)
         THEN seq' = b.resync /\ missing' = {} /\ UNCHANGED update
         ELSE IF b.events # <<>> /\ Accepted(b.events, seq) # {}
         THEN /\ seq' = Last(b.events)
              /\ missing' = missing \cup Skipped(b.events, seq) \cup Cuts(b.events, seq)
              /\ Request(NeedsSnapshot(b.events, seq))
         ELSE UNCHANGED <<seq, missing, update>>
  BY <1>1 DEF ApplyBatch
<1>5. seq \in Known /\ seq' \in Known /\ setBack \in Known
  <2>1. Refreshed \/ Followed
    BY ApplyBatchView
  <2> QED BY <2>1 DEF Refreshed, Followed, WindowTyped
<1>r. /\ seq <= e /\ seq' <= Reached' /\ Reached' \in Known
      /\ \A s \in Known : s > seq /\ s <= e => s \in 1 .. setBack /\ setBack # 0
  BY <1>0, <1>1, <1>5, <1>e DEF Reached, Known
<1> HIDE DEF b
<1>6. WindowInv' /\ End(b) <= Reached'
  <2>1. CASE b.resync # NoSeq
    <3>1. b.events = <<>> /\ End(b) = b.resync
      BY <1>3, <2>1 DEF InOrder, End
    <3>2. CASE Adopts(b.resync)
      <4>1. seq' = b.resync /\ missing' = {} /\ UNCHANGED update
        BY <1>4, <3>2
      <4> QED BY <1>1, <1>r, <3>1, <4>1 DEF WindowInv
    <3>3. CASE ~Adopts(b.resync)
      <4>1. UNCHANGED <<seq, missing, update>>
        BY <1>4, <3>1, <3>3
      <4>2. b.resync <= seq'
        BY <1>0, <1>3, <1>5, <2>1, <3>3, <4>1 DEF Adopts, Known
      <4>3. b.resync <= Reached'
        BY <1>0, <1>3, <1>5, <1>r, <2>1, <4>2 DEF Known
      <4> QED BY <1>1, <3>1, <4>1, <4>3 DEF WindowInv
    <3> QED BY <3>2, <3>3
  <2>2. CASE b.resync = NoSeq
    <3> DEFINE events == b.events
    <3>1. ~Adopts(b.resync) /\ Gapless(events, e) /\ events # <<>>
      BY <1>3, <2>2 DEF Adopts, Follows, Gapless
    <3>2. /\ Len(events) \in Nat \ {0}
          /\ DOMAIN events = 1 .. Len(events)
          /\ \A i \in 1 .. Len(events) : events[i] \in Known
      BY <1>3, <3>1, EmptySeq, LenProperties, ElementOfSeq
    <3>3. /\ Last(events) = events[Len(events)] /\ End(b) = Last(events)
          /\ Last(events) = events[1] + Len(events) - 1 /\ events[1] \in Known
      BY <2>2, <3>1, <3>2 DEF Last, End, Gapless
    <3>4. CASE Accepted(events, seq) = {}
      <4>1. ~(events[Len(events)] > seq)
        BY <3>2, <3>4 DEF Accepted, ToSet
      <4>2. UNCHANGED <<seq, missing, update>>
        BY <1>4, <3>1, <3>4
      <4>3. End(b) <= seq' /\ End(b) \in Known
        BY <1>0, <1>5, <3>2, <3>3, <4>1, <4>2 DEF Known
      <4>4. End(b) <= Reached'
        BY <1>0, <1>5, <1>r, <4>3 DEF Known
      <4> QED BY <1>1, <4>2, <4>4 DEF WindowInv
    <3>5. CASE Accepted(events, seq) # {}
      <4>1. /\ seq' = Last(events)
            /\ missing' = missing \cup Skipped(events, seq) \cup Cuts(events, seq)
            /\ Request(NeedsSnapshot(events, seq))
        BY <1>4, <3>1, <3>5
      <4>2. ASSUME NEW s \in Skipped(events, seq)
            PROVE  s \in 1 .. setBack /\ setBack # 0
        <5>1. s \in 1 .. Last(events) /\ s > seq /\ s \notin Accepted(events, seq)
          BY DEF Skipped
        <5>2. s \in Known
          <6>1. Len(events) \in 1 .. Len(events)
            BY <3>2
          <6>2. events[Len(events)] \in Known
            BY <3>2, <6>1
          <6> QED BY <1>0, <3>3, <5>1, <6>2 DEF Known
        <5>3. events[1] <= e + 1
          BY <3>1 DEF Gapless
        <5>4. CASE s > e
          <6>1. PICK i \in 1 .. Len(events) : s = events[1] + i - 1
            <7>1. s - events[1] + 1 \in 1 .. Len(events)
              BY <1>0, <3>2, <3>3, <5>1, <5>3, <5>4 DEF Known
            <7>2. s = events[1] + (s - events[1] + 1) - 1
              BY <1>0, <3>3, <5>2 DEF Known
            <7> QED BY <7>1, <7>2
          <6>2. events[i] = s
            BY <3>1, <6>1 DEF Gapless
          <6> QED BY <3>2, <5>1, <6>2 DEF Accepted, ToSet
        <5>5. CASE ~(s > e)
          <6>1. s <= e
            BY <1>0, <5>2, <5>5 DEF Known
          <6> QED BY <1>r, <5>1, <5>2, <6>1
        <5> QED BY <5>4, <5>5
      <4>3. Cuts(events, seq) = {}
        <5>1. ASSUME NEW s \in Accepted(events, seq)
              PROVE  log[s] # "cut"
          <6>1. s \in Known /\ s > seq
            BY <3>2 DEF Accepted, ToSet
          <6>2. s \in 1 .. LastSeq
            BY <1>0, <1>5, <6>1 DEF Known
          <6> QED BY <6>2 DEF WriterInv
        <5> QED BY <5>1 DEF Cuts
      <4>4. missing' \subseteq 1 .. setBack'
        BY <1>1, <4>1, <4>2, <4>3 DEF WindowInv
      <4>5. update' # "none" \/ recovery' # "off" => setBack' # 0
        <5>1. CASE NeedsSnapshot(events, seq)
          <6>1. PICK s \in Skipped(events, seq) : TRUE
            BY <4>3, <5>1 DEF NeedsSnapshot
          <6> QED BY <1>1, <4>2, <6>1
        <5>2. CASE ~NeedsSnapshot(events, seq)
          <6>1. UNCHANGED update
            BY <4>1, <5>2 DEF Request
          <6> QED BY <1>1, <6>1 DEF WindowInv
        <5> QED BY <5>1, <5>2
      <4>6. End(b) <= Reached'
        <5>1. End(b) = seq'
          BY <3>3, <4>1
        <5> QED BY <1>r, <5>1
      <4> QED BY <4>4, <4>5, <4>6 DEF WindowInv
    <3> QED BY <3>4, <3>5
  <2> QED BY <2>1, <2>2
<1>7. End(b) \in Known
  BY <1>3, EndKnown DEF Follows, Gapless
<1>8. /\ Len(rest) = Len(ipc) - 1 /\ rest \in Seq(KnownBatch)
      /\ \A k \in 1 .. Len(rest) : rest[k] = ipc[k + 1]
  BY <1>1, HeadTailProperties
<1> HIDE DEF rest
<1>9. Continues(rest, End(b))
  <2>1. Chained(rest, End(b))
    <3>1. ASSUME rest # <<>>
          PROVE  Follows(rest[1], End(b))
      <4>1. Len(rest) \in Nat \ {0}
        BY <1>8, <3>1, EmptySeq
      <4>2. 1 \in 1 .. Len(ipc) - 1 /\ rest[1] = ipc[1 + 1]
        BY <1>8, <4>1
      <4> QED BY <1>p, <4>2 DEF Continues, Chained, b
    <3>2. ASSUME NEW k \in 1 .. Len(rest) - 1
          PROVE  Follows(rest[k + 1], End(rest[k]))
      <4>1. /\ k + 1 \in 1 .. Len(ipc) - 1
            /\ rest[k] = ipc[k + 1] /\ rest[k + 1] = ipc[(k + 1) + 1]
        BY <1>2, <1>8
      <4> QED BY <1>p, <4>1 DEF Continues, Chained
    <3> QED BY <3>1, <3>2 DEF Chained
  <2>2. Tip(rest, End(b)) = Tip(ipc, e)
    <3>1. CASE Len(ipc) = 1
      <4>1. rest = <<>>
        BY <1>8, <3>1, EmptySeq
      <4> QED BY <1>1, <3>1, <4>1 DEF Tip, b
    <3>2. CASE Len(ipc) # 1
      <4>1. rest # <<>> /\ rest[Len(rest)] = ipc[Len(ipc)]
        BY <1>2, <1>8, <3>2, EmptySeq
      <4> QED BY <1>1, <4>1 DEF Tip
    <3> QED BY <3>1, <3>2
  <2> QED BY <1>p, <2>1, <2>2 DEF Continues
<1>10. PICK f \in Known : f = Reached'
  BY <1>r
<1>11. Continues(rest, f)
  <2>1. PICK g \in Known : g = End(b)
    BY <1>7
  <2> QED BY <1>6, <1>8, <1>9, <1>10, <2>1, MovesOn
<1> QED BY <1>1, <1>6, <1>10, <1>11 DEF PipeInv, Continues, rest

-----------------------------------------------------------------------------
(* Every step.                                                             *)

(* The numbers after a, n of them. *)
LEMMA IntervalElements ==
  ASSUME NEW a \in Nat, NEW n \in Nat
  PROVE  /\ Len(Interval(a, a + n)) = n
         /\ \A i \in 1 .. n : Interval(a, a + n)[i] = a + i
<1>1. PICK d \in Nat : d = n /\ d = (a + n) - a
  OBVIOUS
<1>2. Interval(a, a + n) = [i \in 1 .. (a + n) - a |-> a + i]
  BY Zenon DEF Interval
<1>3. Interval(a, a + n) = [i \in 1 .. d |-> a + i]
  BY <1>1, <1>2, Zenon
<1> QED BY <1>1, <1>3

(* What the writer stores is published next, and nobody else stores. *)
LEMMA StoreContinues ==
  ASSUME OnlyWriter, LogTyped, WriterInv,
         WriterStores \/ DirectReads \/ DirectStores \/ SilentStores \/ ArchiveDeltas
  PROVE  WriterInv' /\ Published' = Published
<1>0. LastSeq \in Nat /\ Len(writing) \in Nat /\ log \in Seq(EventKind)
  BY PublishedNumber DEF LogTyped, LogTypeOK
<1>1. ~(DirectReads \/ DirectStores \/ SilentStores)
  BY DEF OnlyWriter, WriterInv, DirectReads, DirectStores, SilentStores, LogTyped, LogTypeOK
<1>2. CASE ArchiveDeltas
  BY <1>2 DEF ArchiveDeltas, WriterInv, Published, LastSeq
<1>3. CASE WriterStores
  <2>1. PICK n \in 1 .. MaxBlock, kinds \in [1 .. MaxBlock -> Kind] :
          /\ writing = <<>>
          /\ log' = log \o SubSeq(kinds, 1, n)
          /\ writing' = Interval(LastSeq, LastSeq + n)
          /\ UNCHANGED <<before, own>>
    BY <1>3 DEF WriterStores
  <2>2. \A j \in 1 .. n : kinds[j] \in Kind /\ kinds[j] \in EventKind
    BY LogAssumption
  <2>3. /\ SubSeq(kinds, 1, n) \in Seq(EventKind) /\ Len(SubSeq(kinds, 1, n)) = n
        /\ \A j \in 1 .. n : SubSeq(kinds, 1, n)[j] = kinds[j]
    <3>1. n \in Int /\ 1 \in Int /\ 1 <= n
      BY LogAssumption
    <3>2. /\ SubSeq(kinds, 1, n) \in Seq(EventKind)
          /\ Len(SubSeq(kinds, 1, n)) = IF 1 <= n THEN n - 1 + 1 ELSE 0
          /\ \A j \in 1 .. n - 1 + 1 : SubSeq(kinds, 1, n)[j] = kinds[1 + j - 1]
      BY <2>2, <3>1, SubSeqProperties
    <3> QED BY <3>1, <3>2
  <2> DEFINE new == SubSeq(kinds, 1, n)
  <2>4. /\ Len(log \o new) = LastSeq + n
        /\ \A s \in 1 .. LastSeq + n :
             (log \o new)[s] = IF s <= LastSeq THEN log[s] ELSE new[s - LastSeq]
    BY <1>0, <2>3, ConcatProperties DEF LastSeq
  <2>5. \A j \in 1 .. n : new[j] \in Kind
    BY <2>2, <2>3
  <2> HIDE DEF new
  <2>6. LastSeq' = LastSeq + n /\ \A s \in 1 .. LastSeq' : log'[s] \in Kind
    <3>1. log' = log \o new
      BY <2>1 DEF new
    <3>2. LastSeq' = LastSeq + n
      BY <2>4, <3>1 DEF LastSeq
    <3>3. ASSUME NEW s \in 1 .. LastSeq + n
          PROVE  log'[s] \in Kind
      <4>1. CASE s <= LastSeq
        BY <1>0, <2>4, <3>1, <4>1 DEF WriterInv
      <4>2. CASE ~(s <= LastSeq)
        <5>1. s - LastSeq \in 1 .. n /\ log'[s] = new[s - LastSeq]
          BY <1>0, <2>4, <3>1, <4>2
        <5> QED BY <2>5, <5>1
      <4> QED BY <4>1, <4>2
    <3> QED BY <3>2, <3>3
  <2>7. /\ Len(writing') = n
        /\ \A i \in 1 .. n : writing'[i] = LastSeq + i
    <3>1. n \in Nat /\ writing' = Interval(LastSeq, LastSeq + n)
      BY <2>1
    <3> QED BY <1>0, <3>1, IntervalElements
  <2>8. Published' = LastSeq /\ Published = LastSeq
    <3>1. Len(<<>>) = 0
      BY EmptySeq
    <3>2. Published = LastSeq
      BY <1>0, <2>1, <3>1 DEF Published
    <3>3. LastSeq' = LastSeq + n /\ Len(writing') = n
      BY <2>6, <2>7
    <3>4. Published' = LastSeq' - Len(writing')
      BY DEF Published
    <3> QED BY <1>0, <3>2, <3>3, <3>4
  <2>9. before' = NoSeq /\ own' = NoSeq
    BY <2>1 DEF WriterInv
  <2> QED BY <2>6, <2>7, <2>8, <2>9 DEF WriterInv
<1> QED BY <1>1, <1>2, <1>3

(* A closed connection owes nothing: its successor starts from the cursor. *)
LEMMA ClosedContinues ==
  ASSUME WireInv, UNCHANGED <<wire, cursor>>, Close
  PROVE  WireInv' /\ (Open => HandlerInv)'
<1>1. WireInv'
  BY DEF WireInv
<1>2. ~Open'
  BY DEF Close, Open
<1> QED BY <1>1, <1>2

(* A new subscription starts with nothing under way. *)
LEMMA SubscriptionContinues ==
  ASSUME LogTyped, NEW s \in Known, Subscribe(s), seq' = s, setBack' \in Known
  PROVE  PipeInv' /\ WireInv' /\ (Open => HandlerInv)'
<1>1. /\ phase' = "down" /\ cursor' = s /\ wire' = <<>> /\ batch' = <<>> /\ ipc' = <<>>
  BY DEF Subscribe
<1>2. Len(<<>>) = 0 /\ s <= Reached'
  BY PublishedNumber, EmptySeq DEF Reached, Known
<1>3. PipeInv'
  BY <1>1, <1>2 DEF PipeInv, Continues, Chained, Tip
<1> QED BY <1>1, <1>2, <1>3 DEF WireInv, Open

(* The invariant is kept by every step. *)
LEMMA StepLossless ==
  ASSUME OnlyWriter, Inv, LosslessInv, [Next]_vars
  PROVE  LosslessInv'
<1>0. /\ LogTyped /\ HandlerTyped /\ HostTyped /\ WindowTyped /\ Ordered
      /\ WriterInv /\ WindowInv /\ PipeInv /\ WireInv /\ (Open => HandlerInv)
  BY DEF Inv, TypeInv, LosslessInv
<1>L. LastSeq \in Nat /\ seq \in Known /\ setBack \in Known /\ Reached \in Known
  BY <1>0, PublishedNumber DEF WindowTyped, Reached
<1>w. ASSUME UNCHANGED <<log, writing, before, own>>
      PROVE  WriterInv' /\ Published' = Published
  BY <1>0, <1>w DEF WriterInv, Published, LastSeq
<1>p. ASSUME UNCHANGED <<cursor, batch, ipc, seq, setBack>>
      PROVE  PipeInv'
  BY <1>0, <1>p DEF PipeInv, Continues, Reached
<1>m. ASSUME UNCHANGED <<cursor, batch, ipc>>, Reached' \in Known, Reached <= Reached'
      PROVE  PipeInv'
  <2>1. PICK e \in Known : e = Reached
    BY <1>L
  <2>2. PICK f \in Known : f = Reached'
    BY <1>m
  <2>3. ipc \in Seq(KnownBatch) /\ Continues(ipc, e) /\ e <= f
    BY <1>0, <1>m, <2>1, <2>2 DEF HostTyped, PipeInv
  <2>4. Continues(ipc, f)
    BY <1>0, <2>3, MovesOn
  <2> QED BY <1>m, <2>2, <2>4 DEF PipeInv, Continues
<1>h. ASSUME UNCHANGED <<phase, sinceSeq, processed, replay, pending, sending, wire, cursor>>,
             Published' = Published
      PROVE  WireInv' /\ (Open => HandlerInv)'
  <2>1. WireInv'
    BY <1>0, <1>h DEF WireInv
  <2>2. (Open => HandlerInv)'
    BY <1>0, <1>h DEF Open, HandlerInv, Written, WireTip, Holds, Sorted
  <2> QED BY <2>1, <2>2
<1>1. CASE StoreStep
  <2>1. WriterInv' /\ Published' = Published /\ UNCHANGED <<streamVars, projectionVars>>
    BY <1>0, <1>1, StoreContinues DEF StoreStep
  <2>2. PipeInv' /\ WireInv' /\ (Open => HandlerInv)'
    BY <1>h, <1>p, <2>1 DEF streamVars, projectionVars
  <2>3. WindowInv'
    BY <1>0, <2>1 DEF WindowInv, projectionVars
  <2> QED BY <2>1, <2>2, <2>3 DEF LosslessInv
<1>2. CASE WriterPublishes
  <2>1. WireInv' /\ (Open => HandlerInv)'
    BY <1>0, <1>2, PublicationContinues
  <2>2. /\ UNCHANGED <<cursor, batch, ipc, seq, missing, setBack, update, recovery, log, before,
                       own>>
        /\ writing' = <<>>
    BY <1>2 DEF WriterPublishes, Deliver, WriterPublished, projectionVars
  <2>3. WriterInv'
    BY <1>0, <2>2, EmptySeq DEF WriterInv, LastSeq
  <2>4. WindowInv'
    BY <1>0, <2>2 DEF WindowInv
  <2> QED BY <1>p, <2>1, <2>2, <2>3, <2>4 DEF LosslessInv
<1>3. CASE DirectPublishes
  BY <1>0, <1>3 DEF DirectPublishes, WriterInv
<1>4. CASE HandlerStep
  <2>1. UNCHANGED <<log, writing, before, own, cursor, batch, ipc, seq, missing, setBack, update,
                    recovery>>
    BY <1>4 DEF HandlerStep, logVars, projectionVars, Connect, ReadMetadata, ReadReplay,
       ReadPage, WriteResync, WriteDone
  <2>2. WindowInv'
    BY <1>0, <2>1 DEF WindowInv
  <2>3. WireInv' /\ HandlerInv'
    BY <1>0, <1>4, HandlerContinues
  <2> QED BY <1>p, <1>w, <2>1, <2>2, <2>3 DEF LosslessInv
<1>5. CASE HostStep
  <2>1. UNCHANGED <<log, writing, before, own, missing, setBack, update, recovery>>
    BY <1>5 DEF HostStep, logVars, projectionVars
  <2>2. WindowInv'
    BY <1>0, <2>1 DEF WindowInv
  <2>3. PipeInv' /\ WireInv' /\ (Open => HandlerInv)'
    BY <1>0, <1>5, HostContinues
  <2> QED BY <1>w, <2>1, <2>2, <2>3 DEF LosslessInv
<1>6. CASE DropConnection
  <2>1. /\ Close
        /\ UNCHANGED <<log, writing, before, own, wire, cursor, batch, ipc, seq, missing,
                       setBack, update, recovery>>
    BY <1>6 DEF DropConnection, LoseConnection, logVars, projectionVars
  <2>2. WindowInv'
    BY <1>0, <2>1 DEF WindowInv
  <2>3. WireInv' /\ (Open => HandlerInv)'
    BY <1>0, <2>1, ClosedContinues
  <2> QED BY <1>p, <1>w, <2>1, <2>2, <2>3 DEF LosslessInv
<1>7. CASE RuntimeCrash
  <2>1. /\ Close /\ UNCHANGED <<log, wire, cursor, batch, ipc, seq, missing, setBack, update>>
        /\ writing' = <<>> /\ before' = NoSeq /\ own' = NoSeq
    BY <1>7 DEF RuntimeCrash, LogCrash
  <2>2. WindowInv'
    BY <1>0, <1>7, <2>1 DEF WindowInv, RuntimeCrash
  <2>3. WriterInv'
    BY <1>0, <2>1, EmptySeq DEF WriterInv, LastSeq
  <2>4. WireInv' /\ (Open => HandlerInv)'
    BY <1>0, <2>1, ClosedContinues
  <2> QED BY <1>p, <2>1, <2>2, <2>3, <2>4 DEF LosslessInv
<1>8. CASE ApplyBatch
  <2>1. UNCHANGED <<log, writing, before, own, phase, sinceSeq, processed, replay, pending,
                    sending, wire, cursor>>
    BY <1>8 DEF ApplyBatch, logVars
  <2>2. WindowInv' /\ PipeInv'
    BY <1>0, <1>8, ApplyContinues DEF OnlyWriter
  <2> QED BY <1>h, <1>w, <2>1, <2>2 DEF LosslessInv
<1>9. CASE Render \/ RecoveryReads \/ RecoveryFails \/ RetryTimer
  <2>1. /\ UNCHANGED <<log, writing, before, own, phase, sinceSeq, processed, replay, pending,
                       sending, wire, cursor, batch, ipc, seq, missing, setBack>>
    BY <1>9 DEF Render, RecoveryReads, RecoveryFails, RetryTimer, logVars, streamVars
  <2>2. update' # "none" \/ recovery' # "off" => update # "none" \/ recovery # "off"
    BY <1>9 DEF Render, RecoveryReads, RecoveryFails, RetryTimer
  <2>3. WindowInv'
    BY <1>0, <2>1, <2>2 DEF WindowInv
  <2> QED BY <1>h, <1>p, <1>w, <2>1, <2>3 DEF LosslessInv
<1>14. CASE RecoveryReturns
  <2>1. UNCHANGED <<logVars, streamVars, setBack>> /\ recovery # "off"
    BY <1>14 DEF RecoveryReturns
  <2>2. seq' \in Known /\ seq <= seq' /\ missing' \subseteq missing
    BY <1>0, <1>14, <1>L DEF RecoveryReturns, Acceptable, WindowTyped, Known
  <2>3. Reached' \in Known /\ Reached <= Reached'
    BY <1>L, <2>1, <2>2 DEF Reached, Known
  <2>4. PipeInv'
    BY <1>m, <2>1, <2>3 DEF streamVars
  <2>5. WindowInv'
    BY <1>0, <2>1, <2>2 DEF WindowInv
  <2> QED BY <1>h, <1>w, <2>1, <2>4, <2>5 DEF LosslessInv, logVars, streamVars
<1>15. CASE InstallThread
  <2>1. UNCHANGED <<logVars, streamVars, update, recovery>>
    BY <1>15 DEF InstallThread
  <2>2. /\ seq' \in Known /\ missing' = {}
        /\ setBack' = IF seq' < seq /\ setBack < seq THEN seq ELSE setBack
    BY <1>0, <1>15 DEF InstallThread, WindowTyped
  <2>3. setBack' \in Known /\ Reached' \in Known /\ Reached <= Reached' /\ setBack <= setBack'
    BY <1>L, <2>2 DEF Reached, Known
  <2>4. PipeInv'
    BY <1>m, <2>1, <2>3 DEF streamVars
  <2>5. setBack # 0 => setBack' # 0
    BY <1>L, <2>3 DEF Known
  <2>6. WindowInv'
    BY <1>0, <2>1, <2>2, <2>5 DEF WindowInv
  <2> QED BY <1>h, <1>w, <2>1, <2>4, <2>6 DEF LosslessInv, logVars, streamVars
<1>10. CASE ReadThread \/ UNCHANGED vars
  <2>1. UNCHANGED <<logVars, streamVars, seq, missing, setBack, update, recovery>>
    BY <1>10 DEF ReadThread, vars, projectionVars
  <2>2. WindowInv'
    BY <1>0, <2>1 DEF WindowInv
  <2> QED BY <1>h, <1>p, <1>w, <2>1, <2>2 DEF LosslessInv, logVars, streamVars
<1>11. CASE AdoptThread
  <2>1. UNCHANGED <<logVars, streamVars, setBack, update, recovery>>
    BY <1>11 DEF AdoptThread
  <2>2. seq' \in Known /\ seq <= seq' /\ missing' \subseteq missing
    BY <1>0, <1>11, <1>L DEF AdoptThread, Acceptable, WindowTyped, Known
  <2>3. Reached' \in Known /\ Reached <= Reached'
    BY <1>L, <2>1, <2>2 DEF Reached, Known
  <2>4. PipeInv'
    BY <1>m, <2>1, <2>3 DEF streamVars
  <2>5. WindowInv'
    BY <1>0, <2>1, <2>2 DEF WindowInv
  <2> QED BY <1>h, <1>w, <2>1, <2>4, <2>5 DEF LosslessInv, logVars, streamVars
<1>12. CASE OpenThread
  <2>1. /\ UNCHANGED logVars /\ fetched # NoSeq /\ Subscribe(fetched) /\ seq' = fetched
        /\ missing' = {} /\ update' = "none" /\ recovery' = "off" /\ setBack' = 0
    BY <1>12 DEF OpenThread
  <2>2. PICK s \in Known : s = fetched
    BY <1>0, <2>1 DEF WindowTyped
  <2>4. setBack' \in Known
    BY <1>L, <2>1 DEF Known
  <2>3. PipeInv' /\ WireInv' /\ (Open => HandlerInv)'
    BY <1>0, <2>1, <2>2, <2>4, SubscriptionContinues
  <2> QED BY <1>w, <2>1, <2>3 DEF LosslessInv, WindowInv, logVars
<1>13. CASE Resubscribe
  <2>1. UNCHANGED <<logVars, seq, missing, setBack, update, recovery>> /\ Subscribe(seq)
    BY <1>13 DEF Resubscribe
  <2>2. PICK s \in Known : s = seq
    BY <1>L
  <2>5. setBack' \in Known
    BY <1>L, <2>1
  <2>3. PipeInv' /\ WireInv' /\ (Open => HandlerInv)'
    BY <1>0, <1>L, <2>1, <2>2, <2>5, SubscriptionContinues
  <2>4. WindowInv'
    BY <1>0, <2>1 DEF WindowInv
  <2> QED BY <1>w, <2>1, <2>3, <2>4 DEF LosslessInv, logVars
<1> QED BY <1>1, <1>2, <1>3, <1>4, <1>5, <1>6, <1>7, <1>8, <1>9, <1>10, <1>11, <1>12, <1>13,
           <1>14, <1>15 DEF Next

(* When only the event writer appends, and no event rewrites the history,  *)
(* handleSse, the host and the window deliver exactly: through the replay, *)
(* the hand-over to live events, overflow, archived deltas, resyncs,       *)
(* crashes and reconnections the window misses nothing but what it had     *)
(* shown before an ungated answer took it back, and unless there was such  *)
(* an answer it never asks for a recovery.                                 *)
THEOREM WriterDeliveryIsLossless == OnlyWriter => (Spec => []LosslessDelivery)
<1> SUFFICES ASSUME OnlyWriter PROVE Spec => []LosslessDelivery
  OBVIOUS
<1>1. Init => LosslessInv
  <2> SUFFICES ASSUME Init PROVE LosslessInv
    OBVIOUS
  <2>1. Len(<<>>) = 0
    BY EmptySeq
  <2>2. WriterInv
    BY <2>1 DEF Init, LogInit, WriterInv, LastSeq
  <2>3. PipeInv /\ WireInv /\ ~Open
    BY <2>1 DEF Init, StreamInit, PipeInv, Reached, Continues, Chained, Tip, WireInv, Open
  <2> QED BY <2>2, <2>3 DEF Init, LosslessInv, WindowInv
<1>2. Inv /\ LosslessInv /\ [Next]_vars => LosslessInv'
  BY StepLossless
<1>3. LosslessInv => LosslessDelivery
  BY DEF LosslessInv, WindowInv, LosslessDelivery
<1> QED BY <1>1, <1>2, <1>3, InvHolds, PTL DEF Spec

=============================================================================
