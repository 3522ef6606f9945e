------------------------- MODULE EventWriterProofs -------------------------
(***************************************************************************)
(* EventWriter: types, the streams, the order of the journal and what a    *)
(* flush promises, for every set of threads, streams and bounds.           *)
(*                                                                         *)
(* A step of the writer moves entries of a thread along its journal and    *)
(* adds the newest ticket at its end, in the last entry or behind it.  The *)
(* first part says what the four ways of moving them do to the order, for  *)
(* a log L, a chain W and a batch B whatever they are; the second says     *)
(* that every action of the writer is, for every thread, one of these.     *)
(***************************************************************************)
EXTENDS EventWriter, SequenceTheorems, TLAPS

-----------------------------------------------------------------------------
(* The journal of a log L, a chain W and a batch B.                        *)

Seg(L, W, B, s) == IF s = 0 THEN L ELSE IF s <= Len(W) THEN Contents(W[s]) ELSE B

(* The place (s, i), and the order of places.                              *)
InSeg(L, W, B, s, i) == s \in 0..(Len(W) + 1) /\ i \in 1..Len(Seg(L, W, B, s))
Lower(r, i, s, j) == r < s \/ (r = s /\ i < j)

Held(L, W, B, e) == \E s, i \in Nat: InSeg(L, W, B, s, i) /\ e = Seg(L, W, B, s)[i]
Pre(L, W, B, e, f) ==
  \E r, s, i, j \in Nat:
    /\ InSeg(L, W, B, r, i) /\ InSeg(L, W, B, s, j) /\ Lower(r, i, s, j)
    /\ e = Seg(L, W, B, r)[i] /\ f = Seg(L, W, B, s)[j]

Operation(n) == [entries: Seq(EntryOf(Stream, n)), event: EntryOf(Single, n) \cup {NoEntry}]
Typed(n, L, W, B) ==
  /\ n \in Nat /\ L \in Seq(EntryOf(Kind, n))
  /\ W \in Seq(Operation(n)) /\ B \in Seq(EntryOf(Stream, n))

LEMMA KindFacts ==
  /\ "none" \notin Single /\ "event" \in Single /\ "compaction" \in Single
  /\ Stream \cap Single = {} /\ Stream \subseteq Kind /\ Single \subseteq Kind
  /\ \A k \in Stream: k \in DeltaStream
  /\ \A k \in Stream: k # "compaction" /\ k # "event"
  BY WriterBounds DEF Single, Kind, DeltaStream

LEMMA EntryFacts ==
  ASSUME NEW K, NEW n, NEW e \in EntryOf(K, n)
  PROVE  e.kind \in K /\ e.of \in Seq(1..n) /\ e = [kind |-> e.kind, of |-> e.of]
  BY DEF EntryOf

LEMMA EntryIsEntry ==
  ASSUME NEW K, NEW n, NEW k \in K, NEW o \in Seq(1..n)
  PROVE  [kind |-> k, of |-> o] \in EntryOf(K, n)
  BY DEF EntryOf

(* More tickets, more kinds.                                               *)
LEMMA EntryGrows ==
  ASSUME NEW K1, NEW K2, K1 \subseteq K2, NEW n \in Nat, NEW m \in Nat, n <= m
  PROVE  EntryOf(K1, n) \subseteq EntryOf(K2, m)
<1> SUFFICES ASSUME NEW e \in EntryOf(K1, n) PROVE e \in EntryOf(K2, m)
    OBVIOUS
<1>1. e.kind \in K1 /\ e.of \in Seq(1..n) /\ e = [kind |-> e.kind, of |-> e.of]
    BY EntryFacts
<1>2. 1..n \subseteq 1..m
    OBVIOUS
<1>3. e.of \in Seq(1..m)
    BY <1>1, <1>2, SeqMonotonic
<1>4. QED
    BY <1>1, <1>3, EntryIsEntry

LEMMA NoEntryIsNone ==
  ASSUME NEW n PROVE NoEntry \notin EntryOf(Single, n)
  BY KindFacts DEF NoEntry, EntryOf

(* A merged-in ticket is one of the tickets of its entry.                  *)
LEMMA ElementsOf ==
  ASSUME NEW S, NEW s \in Seq(S)
  PROVE  /\ \A x: x \in Elements(s) <=> \E i \in 1..Len(s): x = s[i]
         /\ Elements(s) \subseteq S
<1>1. DOMAIN s = 1..Len(s)
    BY LenProperties
<1>2. \A i \in 1..Len(s): s[i] \in S
    BY ElementOfSeq
<1>3. QED
    BY <1>1, <1>2 DEF Elements

LEMMA ElementsAppend ==
  ASSUME NEW S, NEW s \in Seq(S), NEW x \in S
  PROVE  Elements(Append(s, x)) = Elements(s) \cup {x}
<1>1. /\ Append(s, x) \in Seq(S) /\ Len(Append(s, x)) = Len(s) + 1
      /\ \A i \in 1..Len(s): Append(s, x)[i] = s[i]
      /\ Append(s, x)[Len(s) + 1] = x
    BY AppendProperties
<1>2. Len(s) \in Nat
    BY LenProperties
<1>3. \A y: y \in Elements(s) <=> \E i \in 1..Len(s): y = s[i]
    BY ElementsOf
<1>4. \A y: y \in Elements(Append(s, x)) <=> \E i \in 1..Len(Append(s, x)): y = Append(s, x)[i]
    BY <1>1, ElementsOf
<1>5. ASSUME NEW y PROVE y \in Elements(Append(s, x)) <=> y \in Elements(s) \/ y = x
    BY <1>1, <1>2, <1>3, <1>4
<1>6. QED
    BY <1>5

LEMMA ElementsOne ==
  ASSUME NEW x PROVE Elements(<<x>>) = {x}
  BY DEF Elements

-----------------------------------------------------------------------------
(* Segments and places.                                                    *)

LEMMA ContentsTyped ==
  ASSUME NEW n \in Nat, NEW op \in Operation(n)
  PROVE  /\ Contents(op) \in Seq(EntryOf(Kind, n))
         /\ op.entries \in Seq(EntryOf(Stream, n))
         /\ op.entries \in Seq(EntryOf(Kind, n))
         /\ op.event # NoEntry => op.event \in EntryOf(Single, n) /\ op.event \in EntryOf(Kind, n)
<1>1. op.entries \in Seq(EntryOf(Stream, n)) /\ op.event \in EntryOf(Single, n) \cup {NoEntry}
    BY DEF Operation
<1>2. EntryOf(Stream, n) \subseteq EntryOf(Kind, n) /\ EntryOf(Single, n) \subseteq EntryOf(Kind, n)
    BY KindFacts, EntryGrows
<1>3. op.entries \in Seq(EntryOf(Kind, n))
    BY <1>1, <1>2, SeqMonotonic
<1>4. op.event # NoEntry => op.event \in EntryOf(Single, n) /\ op.event \in EntryOf(Kind, n)
    BY <1>1, <1>2
<1>5. Contents(op) \in Seq(EntryOf(Kind, n))
  <2>1. CASE op.event = NoEntry
      BY <2>1, <1>3 DEF Contents
  <2>2. CASE op.event # NoEntry
      BY <2>2, <1>3, <1>4, AppendProperties DEF Contents
  <2>3. QED
      BY <2>1, <2>2
<1>6. QED
    BY <1>1, <1>3, <1>4, <1>5

LEMMA SegTyped ==
  ASSUME NEW n, NEW L, NEW W, NEW B, Typed(n, L, W, B)
  PROVE  /\ Len(W) \in Nat /\ Len(L) \in Nat /\ Len(B) \in Nat
         /\ \A s \in 0..(Len(W) + 1): /\ Seg(L, W, B, s) \in Seq(EntryOf(Kind, n))
                                      /\ Len(Seg(L, W, B, s)) \in Nat
<1>1. Len(W) \in Nat /\ Len(L) \in Nat /\ Len(B) \in Nat
    BY LenProperties DEF Typed
<1>2. ASSUME NEW s \in 0..(Len(W) + 1)
      PROVE  Seg(L, W, B, s) \in Seq(EntryOf(Kind, n)) /\ Len(Seg(L, W, B, s)) \in Nat
  <2>1. Seg(L, W, B, s) \in Seq(EntryOf(Kind, n))
    <3>1. CASE s = 0
        BY <3>1 DEF Seg, Typed
    <3>2. CASE s # 0 /\ s <= Len(W)
      <4>1. s \in 1..Len(W)
          BY <1>1, <3>2
      <4>2. W[s] \in Operation(n) /\ n \in Nat
          BY <4>1, ElementOfSeq DEF Typed
      <4>3. QED
          BY <3>2, <4>2, ContentsTyped DEF Seg
    <3>3. CASE s # 0 /\ ~(s <= Len(W))
      <4>1. EntryOf(Stream, n) \subseteq EntryOf(Kind, n)
          BY KindFacts, EntryGrows DEF Typed
      <4>2. QED
          BY <3>3, <4>1, SeqMonotonic DEF Seg, Typed
    <3>4. QED
        BY <3>1, <3>2, <3>3
  <2>2. QED
      BY <2>1, LenProperties
<1>3. QED
    BY <1>1, <1>2

LEMMA HeldTyped ==
  ASSUME NEW n, NEW L, NEW W, NEW B, Typed(n, L, W, B), NEW e, Held(L, W, B, e)
  PROVE  e \in EntryOf(Kind, n) /\ e.kind \in Kind /\ e.of \in Seq(1..n) /\ Elements(e.of) \subseteq 1..n
<1>1. PICK s, i \in Nat: InSeg(L, W, B, s, i) /\ e = Seg(L, W, B, s)[i]
    BY DEF Held
<1>2. e \in EntryOf(Kind, n)
    BY <1>1, SegTyped, ElementOfSeq DEF InSeg
<1>3. e.kind \in Kind /\ e.of \in Seq(1..n)
    BY <1>2, EntryFacts
<1>4. QED
    BY <1>2, <1>3, ElementsOf

LEMMA PreHeld ==
  ASSUME NEW L, NEW W, NEW B, NEW e, NEW f, Pre(L, W, B, e, f)
  PROVE  Held(L, W, B, e) /\ Held(L, W, B, f)
  BY DEF Pre, Held

-----------------------------------------------------------------------------
(* The four ways of moving entries.                                        *)

(* The entries of a journal move and their order stays; or one joins       *)
(* behind them.                                                            *)
SameJournal(n, L, W, B, L2, W2, B2) ==
  /\ Typed(n, L2, W2, B2)
  /\ \A e: Held(L2, W2, B2, e) <=> Held(L, W, B, e)
  /\ \A e, f: Pre(L2, W2, B2, e, f) => Pre(L, W, B, e, f)

OneJoins(n, L, W, B, L2, W2, B2, new) ==
  /\ Typed(n, L2, W2, B2)
  /\ \A e: Held(L2, W2, B2, e) <=> Held(L, W, B, e) \/ e = new
  /\ \A e, f: Pre(L2, W2, B2, e, f) => Pre(L, W, B, e, f) \/ (Held(L, W, B, e) /\ f = new)

(* The segments up to m stay.                                              *)
SameSegments(L, W, B, L2, W2, B2, m) == \A s \in 0..m: Seg(L2, W2, B2, s) = Seg(L, W, B, s)

(* A batch moves into the chain, alone or with the newest event behind it: *)
(* all segments stay as they are, and a last, empty one joins them.        *)
LEMMA BatchTaken ==
  ASSUME NEW n, NEW L, NEW W, NEW B, Typed(n, L, W, B), NEW W2,
         W2 = Append(W, [entries |-> B, event |-> NoEntry])
  PROVE  /\ SameJournal(n, L, W, B, L, W2, <<>>)
         /\ SameSegments(L, W, B, L, W2, <<>>, Len(W) + 1)
         /\ Len(W2) = Len(W) + 1
<1> DEFINE op == [entries |-> B, event |-> NoEntry]
<1>1. op \in Operation(n) /\ op.event = NoEntry /\ op.entries = B
    BY DEF Operation, Typed
<1>2. /\ W2 \in Seq(Operation(n)) /\ Len(W2) = Len(W) + 1
      /\ \A i \in 1..Len(W): W2[i] = W[i]
      /\ W2[Len(W) + 1] = op
    BY <1>1, AppendProperties DEF Typed
<1>3. Len(W) \in Nat
    BY SegTyped
<1>4. \A s \in 0..(Len(W) + 1): Seg(L, W2, <<>>, s) = Seg(L, W, B, s)
    BY <1>1, <1>2, <1>3 DEF Seg, Contents
<1>5. Seg(L, W2, <<>>, Len(W) + 2) = <<>>
    BY <1>2, <1>3 DEF Seg
<1>6. ASSUME NEW s \in Nat, NEW i \in Nat
      PROVE  InSeg(L, W2, <<>>, s, i) <=> InSeg(L, W, B, s, i)
  <2>1. CASE s \in 0..(Len(W) + 1)
      BY <2>1, <1>2, <1>3, <1>4 DEF InSeg
  <2>2. CASE s = Len(W) + 2
      BY <2>2, <1>2, <1>3, <1>5, EmptySeq DEF InSeg
  <2>3. CASE s > Len(W) + 2
      BY <2>3, <1>2, <1>3 DEF InSeg
  <2>4. QED
      BY <2>1, <2>2, <2>3, <1>3
<1>7. \A s, i \in Nat: InSeg(L, W, B, s, i) => Seg(L, W2, <<>>, s)[i] = Seg(L, W, B, s)[i]
    BY <1>4 DEF InSeg
<1>8. \A e: Held(L, W2, <<>>, e) <=> Held(L, W, B, e)
    BY <1>6, <1>7 DEF Held
<1>9. \A e, f: Pre(L, W2, <<>>, e, f) => Pre(L, W, B, e, f)
    BY <1>6, <1>7 DEF Pre
<1>10. Typed(n, L, W2, <<>>)
    BY <1>2, EmptySeq DEF Typed
<1>11. QED
    BY <1>2, <1>4, <1>8, <1>9, <1>10 DEF SameJournal, SameSegments

(* The newest entry joins behind everything.                               *)
LEMMA EventTaken ==
  ASSUME NEW n, NEW L, NEW W, NEW B, Typed(n, L, W, B), NEW W2,
         NEW new \in EntryOf(Single, n),
         W2 = Append(W, [entries |-> B, event |-> new])
  PROVE  /\ OneJoins(n, L, W, B, L, W2, <<>>, new)
         /\ SameSegments(L, W, B, L, W2, <<>>, Len(W))
         /\ Len(W2) = Len(W) + 1
<1> DEFINE op == [entries |-> B, event |-> new]
<1>0. new # NoEntry /\ new \in EntryOf(Kind, n) /\ B \in Seq(EntryOf(Kind, n)) /\ n \in Nat
  <2>1. EntryOf(Stream, n) \subseteq EntryOf(Kind, n) /\ EntryOf(Single, n) \subseteq EntryOf(Kind, n)
      BY KindFacts, EntryGrows DEF Typed
  <2>2. QED
      BY <2>1, NoEntryIsNone, SeqMonotonic DEF Typed
<1>1. op \in Operation(n) /\ op.event = new /\ op.entries = B
    BY DEF Operation, Typed
<1>2. /\ W2 \in Seq(Operation(n)) /\ Len(W2) = Len(W) + 1
      /\ \A i \in 1..Len(W): W2[i] = W[i]
      /\ W2[Len(W) + 1] = op
    BY <1>1, AppendProperties DEF Typed
<1>3. Len(W) \in Nat /\ Len(B) \in Nat
    BY SegTyped
<1>4. \A s \in 0..Len(W): Seg(L, W2, <<>>, s) = Seg(L, W, B, s)
    BY <1>1, <1>2, <1>3 DEF Seg
<1>5. /\ Seg(L, W2, <<>>, Len(W) + 2) = <<>>
      /\ Seg(L, W2, <<>>, Len(W) + 1) = Append(B, new)
      /\ Seg(L, W, B, Len(W) + 1) = B
    BY <1>0, <1>1, <1>2, <1>3 DEF Seg, Contents
<1>6. /\ Len(Append(B, new)) = Len(B) + 1
      /\ \A i \in 1..Len(B): Append(B, new)[i] = B[i]
      /\ Append(B, new)[Len(B) + 1] = new
    BY <1>0, AppendProperties
<1>7. ASSUME NEW s \in Nat, NEW i \in Nat
      PROVE  /\ InSeg(L, W2, <<>>, s, i) <=> InSeg(L, W, B, s, i) \/ (s = Len(W) + 1 /\ i = Len(B) + 1)
             /\ InSeg(L, W, B, s, i) => Seg(L, W2, <<>>, s)[i] = Seg(L, W, B, s)[i]
  <2>1. CASE s \in 0..Len(W)
      BY <2>1, <1>2, <1>3, <1>4 DEF InSeg
  <2>2. CASE s = Len(W) + 2
      BY <2>2, <1>2, <1>3, <1>5, EmptySeq DEF InSeg
  <2>3. CASE s = Len(W) + 1
    <3>1. InSeg(L, W, B, s, i) <=> i \in 1..Len(B)
        BY <2>3, <1>3, <1>5 DEF InSeg
    <3>2. InSeg(L, W2, <<>>, s, i) <=> i \in 1..(Len(B) + 1)
        BY <2>3, <1>2, <1>3, <1>5, <1>6 DEF InSeg
    <3>3. QED
        BY <2>3, <3>1, <3>2, <1>3, <1>5, <1>6
  <2>4. CASE s > Len(W) + 2
      BY <2>4, <1>2, <1>3 DEF InSeg
  <2>5. QED
      BY <2>1, <2>2, <2>3, <2>4, <1>3
<1>8. Seg(L, W2, <<>>, Len(W) + 1)[Len(B) + 1] = new
    BY <1>5, <1>6
<1>9. \A e: Held(L, W2, <<>>, e) <=> Held(L, W, B, e) \/ e = new
  <2>1. InSeg(L, W2, <<>>, Len(W) + 1, Len(B) + 1)
      BY <1>3, <1>7
  <2>2. QED
      BY <2>1, <1>3, <1>7, <1>8 DEF Held
<1>10. ASSUME NEW e, NEW f, Pre(L, W2, <<>>, e, f)
       PROVE  Pre(L, W, B, e, f) \/ (Held(L, W, B, e) /\ f = new)
  <2>1. PICK r, s, i, j \in Nat:
          /\ InSeg(L, W2, <<>>, r, i) /\ InSeg(L, W2, <<>>, s, j) /\ Lower(r, i, s, j)
          /\ e = Seg(L, W2, <<>>, r)[i] /\ f = Seg(L, W2, <<>>, s)[j]
      BY <1>10 DEF Pre
  <2>2. InSeg(L, W, B, r, i)
    <3>1. SUFFICES ASSUME r = Len(W) + 1, i = Len(B) + 1 PROVE FALSE
        BY <2>1, <1>7
    <3>2. CASE InSeg(L, W, B, s, j)
      <4>1. s <= Len(W) + 1
          BY <3>2, <1>3 DEF InSeg
      <4>2. s = r /\ i < j
          BY <4>1, <3>1, <2>1, <1>3 DEF Lower
      <4>3. j <= Len(B)
          BY <4>2, <3>1, <3>2, <1>3, <1>5 DEF InSeg
      <4>4. QED
          BY <4>2, <4>3, <3>1, <1>3
    <3>3. CASE s = Len(W) + 1 /\ j = Len(B) + 1
        BY <3>1, <3>3, <2>1, <1>3 DEF Lower
    <3>4. QED
        BY <3>2, <3>3, <2>1, <1>7
  <2>3. e = Seg(L, W, B, r)[i]
      BY <2>1, <2>2, <1>7
  <2>4. CASE InSeg(L, W, B, s, j)
    <3>1. f = Seg(L, W, B, s)[j]
        BY <2>1, <2>4, <1>7
    <3>2. QED
        BY <2>1, <2>2, <2>3, <2>4, <3>1 DEF Pre
  <2>5. CASE s = Len(W) + 1 /\ j = Len(B) + 1
      BY <2>1, <2>2, <2>3, <2>5, <1>8 DEF Held
  <2>6. QED
      BY <2>1, <2>4, <2>5, <1>7
<1>11. Typed(n, L, W2, <<>>)
    BY <1>2, EmptySeq DEF Typed
<1>12. QED
    BY <1>2, <1>4, <1>9, <1>10, <1>11 DEF OneJoins, SameSegments

(* The part of the journal up to segment a: with a = 0 what is stored,     *)
(* with the length of the chain all but what is buffered.                  *)
Front(L, W, B, a, e) ==
  \E s, i \in Nat: InSeg(L, W, B, s, i) /\ s <= a /\ e = Seg(L, W, B, s)[i]

Down(a) == IF a = 0 THEN 0 ELSE a - 1

FrontDown(L, W, B, L2, W2, B2) ==
  \A e: \A a \in Nat: Front(L, W, B, a, e) => Front(L2, W2, B2, Down(a), e)
FrontStays(L, W, B, L2, W2, B2) ==
  \A e: \A a \in Nat: Front(L, W, B, a, e) => Front(L2, W2, B2, a, e)

LEMMA FrontIsHeld ==
  ASSUME NEW n, NEW L, NEW W, NEW B, Typed(n, L, W, B)
  PROVE  /\ \A a, e: Front(L, W, B, a, e) => Held(L, W, B, e)
         /\ \A e: Held(L, W, B, e) => Front(L, W, B, Len(W) + 1, e)
         /\ \A e: Held(L, W, <<>>, e) => Front(L, W, <<>>, Len(W), e)
         /\ \A e: Front(L, W, B, 0, e) <=> \E i \in 1..Len(L): e = L[i]
<1>1. Len(W) \in Nat /\ Len(L) \in Nat
    BY SegTyped
<1>2. \A a, e: Front(L, W, B, a, e) => Held(L, W, B, e)
    BY DEF Front, Held
<1>3. \A e: Held(L, W, B, e) => Front(L, W, B, Len(W) + 1, e)
    BY <1>1 DEF Front, Held, InSeg
<1>4. ASSUME NEW e, Held(L, W, <<>>, e) PROVE Front(L, W, <<>>, Len(W), e)
  <2>1. PICK s, i \in Nat: InSeg(L, W, <<>>, s, i) /\ e = Seg(L, W, <<>>, s)[i]
      BY <1>4 DEF Held
  <2>2. Seg(L, W, <<>>, Len(W) + 1) = <<>>
      BY <1>1 DEF Seg
  <2>3. s # Len(W) + 1
      BY <2>1, <2>2, EmptySeq DEF InSeg
  <2>4. s <= Len(W)
      BY <2>1, <2>3, <1>1 DEF InSeg
  <2>5. QED
      BY <2>1, <2>4 DEF Front
<1>5. Seg(L, W, B, 0) = L
    BY DEF Seg
<1>6. \A e: Front(L, W, B, 0, e) <=> \E i \in 1..Len(L): e = L[i]
    BY <1>1, <1>5 DEF Front, InSeg
<1>7. QED
    BY <1>2, <1>3, <1>4, <1>6

(* What the head of the chain has is stored and the head leaves.           *)
LEMMA HeadStored ==
  ASSUME NEW n, NEW L, NEW W, NEW B, Typed(n, L, W, B), W # <<>>, NEW L2, NEW W2,
         L2 = L \o Contents(W[1]), W2 = Tail(W)
  PROVE  SameJournal(n, L, W, B, L2, W2, B) /\ FrontDown(L, W, B, L2, W2, B)
<1> DEFINE C == Contents(W[1])
<1>1. /\ W2 \in Seq(Operation(n)) /\ Len(W2) = Len(W) - 1
      /\ \A i \in 1..Len(W2): W2[i] = W[i + 1]
      /\ Len(W) \in Nat \ {0}
    BY HeadTailProperties, EmptySeq DEF Typed
<1>2. C \in Seq(EntryOf(Kind, n))
    BY <1>1, ElementOfSeq, ContentsTyped DEF Typed
<1>3. /\ L2 \in Seq(EntryOf(Kind, n)) /\ Len(L2) = Len(L) + Len(C)
      /\ \A i \in 1..Len(L) + Len(C): L2[i] = IF i <= Len(L) THEN L[i] ELSE C[i - Len(L)]
      /\ Len(L) \in Nat /\ Len(C) \in Nat
    BY <1>2, ConcatProperties, LenProperties DEF Typed
<1>4. Typed(n, L2, W2, B)
    BY <1>1, <1>3 DEF Typed
<1>5. /\ Seg(L, W, B, 0) = L /\ Seg(L, W, B, 1) = C /\ Seg(L2, W2, B, 0) = L2
    BY <1>1 DEF Seg
<1> HIDE DEF C
<1>6. \A s \in 1..Len(W): Seg(L2, W2, B, s) = Seg(L, W, B, s + 1)
    BY <1>1 DEF Seg
<1>7. ASSUME NEW s \in Nat, NEW i \in Nat, InSeg(L2, W2, B, s, i)
      PROVE  \E r, k \in Nat:
               /\ InSeg(L, W, B, r, k) /\ Seg(L2, W2, B, s)[i] = Seg(L, W, B, r)[k]
               /\ \/ s = 0 /\ i <= Len(L) /\ r = 0 /\ k = i
                  \/ s = 0 /\ i > Len(L) /\ r = 1 /\ k = i - Len(L)
                  \/ s > 0 /\ r = s + 1 /\ k = i
  <2>1. CASE s = 0 /\ i <= Len(L)
    <3>1. InSeg(L, W, B, 0, i) /\ Seg(L2, W2, B, s)[i] = Seg(L, W, B, 0)[i]
        BY <2>1, <1>1, <1>3, <1>5, <1>7 DEF InSeg
    <3>2. QED
        BY <2>1, <3>1
  <2>2. CASE s = 0 /\ i > Len(L)
    <3>0. i - Len(L) \in Nat
        BY <2>2, <1>3
    <3>1. PICK k \in Nat: k = i - Len(L)
        BY <3>0
    <3>2. i \in 1..(Len(L) + Len(C))
        BY <2>2, <1>3, <1>5, <1>7 DEF InSeg
    <3>3. k \in 1..Len(C) /\ L2[i] = C[k]
        BY <2>2, <3>1, <3>2, <1>3
    <3>4. InSeg(L, W, B, 1, k)
        BY <3>3, <1>1, <1>5 DEF InSeg
    <3>5. Seg(L2, W2, B, s)[i] = Seg(L, W, B, 1)[k]
        BY <2>2, <3>3, <1>5
    <3>6. QED
        BY <2>2, <3>1, <3>4, <3>5
  <2>3. CASE s > 0
    <3>1. s \in 1..Len(W)
        BY <2>3, <1>1, <1>7 DEF InSeg
    <3>2. InSeg(L, W, B, s + 1, i) /\ Seg(L2, W2, B, s)[i] = Seg(L, W, B, s + 1)[i]
        BY <3>1, <1>1, <1>6, <1>7 DEF InSeg
    <3>3. QED
        BY <2>3, <3>1, <3>2
  <2>4. (s = 0 \/ s > 0) /\ (i <= Len(L) \/ i > Len(L))
      BY <1>3
  <2>5. QED
      BY <2>1, <2>2, <2>3, <2>4
<1>8. ASSUME NEW s \in Nat, NEW i \in Nat, InSeg(L, W, B, s, i)
      PROVE  \E r, k \in Nat:
               /\ InSeg(L2, W2, B, r, k) /\ Seg(L, W, B, s)[i] = Seg(L2, W2, B, r)[k]
               /\ r = Down(s)
  <2>1. CASE s = 0
    <3>1. InSeg(L2, W2, B, 0, i) /\ Seg(L, W, B, 0)[i] = Seg(L2, W2, B, 0)[i]
        BY <2>1, <1>1, <1>3, <1>5, <1>8 DEF InSeg
    <3>2. QED
        BY <2>1, <3>1 DEF Down
  <2>2. CASE s = 1
    <3>1. i \in 1..Len(C)
        BY <2>2, <1>5, <1>8 DEF InSeg
    <3>0. PICK k: k = i + Len(L)
        OBVIOUS
    <3>01. k \in 1..(Len(L) + Len(C)) /\ ~(k <= Len(L)) /\ k - Len(L) = i
        BY <3>0, <3>1, <1>3
    <3>2. i + Len(L) \in 1..Len(L2) /\ L2[i + Len(L)] = C[i]
        BY <3>0, <3>01, <1>3
    <3>3. InSeg(L2, W2, B, 0, i + Len(L)) /\ Seg(L2, W2, B, 0)[i + Len(L)] = C[i]
        BY <3>2, <1>1, <1>5 DEF InSeg
    <3>4. i + Len(L) \in Nat
        BY <1>3
    <3>5. QED
        BY <2>2, <3>3, <3>4, <1>5 DEF Down
  <2>3. CASE s > 1
    <3>1. s - 1 \in 1..Len(W) /\ s - 1 \in Nat /\ (s - 1) + 1 = s
        BY <2>3, <1>1, <1>8 DEF InSeg
    <3>2. Seg(L2, W2, B, s - 1) = Seg(L, W, B, s)
        BY <3>1, <1>6
    <3>3. InSeg(L2, W2, B, s - 1, i)
        BY <3>1, <3>2, <1>1, <1>8 DEF InSeg
    <3>4. QED
        BY <2>3, <3>1, <3>2, <3>3 DEF Down
  <2>4. QED
      BY <2>1, <2>2, <2>3
<1>9. \A e: Held(L2, W2, B, e) => Held(L, W, B, e)
    BY <1>7 DEF Held
<1>10. \A e: Held(L, W, B, e) => Held(L2, W2, B, e)
    BY <1>8 DEF Held
<1>11. ASSUME NEW e, NEW f, Pre(L2, W2, B, e, f) PROVE Pre(L, W, B, e, f)
  <2>1. PICK r, s, i, j \in Nat:
          /\ InSeg(L2, W2, B, r, i) /\ InSeg(L2, W2, B, s, j) /\ Lower(r, i, s, j)
          /\ e = Seg(L2, W2, B, r)[i] /\ f = Seg(L2, W2, B, s)[j]
      BY <1>11 DEF Pre
  <2>2. PICK r0, i0 \in Nat:
               /\ InSeg(L, W, B, r0, i0) /\ e = Seg(L, W, B, r0)[i0]
               /\ \/ r = 0 /\ i <= Len(L) /\ r0 = 0 /\ i0 = i
                  \/ r = 0 /\ i > Len(L) /\ r0 = 1 /\ i0 = i - Len(L)
                  \/ r > 0 /\ r0 = r + 1 /\ i0 = i
      BY <2>1, <1>7
  <2>3. PICK s0, j0 \in Nat:
               /\ InSeg(L, W, B, s0, j0) /\ f = Seg(L, W, B, s0)[j0]
               /\ \/ s = 0 /\ j <= Len(L) /\ s0 = 0 /\ j0 = j
                  \/ s = 0 /\ j > Len(L) /\ s0 = 1 /\ j0 = j - Len(L)
                  \/ s > 0 /\ s0 = s + 1 /\ j0 = j
      BY <2>1, <1>7
  <2>4. Lower(r0, i0, s0, j0)
      BY <2>1, <2>2, <2>3, <1>3 DEF Lower
  <2>5. QED
      BY <2>2, <2>3, <2>4 DEF Pre
<1>12. ASSUME NEW a \in Nat, NEW e, Front(L, W, B, a, e) PROVE Front(L2, W2, B, Down(a), e)
  <2>1. PICK s, i \in Nat: InSeg(L, W, B, s, i) /\ s <= a /\ e = Seg(L, W, B, s)[i]
      BY <1>12 DEF Front
  <2>2. PICK r, k \in Nat: InSeg(L2, W2, B, r, k) /\ Seg(L, W, B, s)[i] = Seg(L2, W2, B, r)[k] /\ r = Down(s)
      BY <2>1, <1>8
  <2>3. r <= Down(a)
      BY <2>1, <2>2 DEF Down
  <2>4. QED
      BY <2>1, <2>2, <2>3 DEF Front
<1>13. QED
    BY <1>4, <1>9, <1>10, <1>11, <1>12 DEF SameJournal, FrontDown

(* The head leaves and what it had is not stored.                          *)
LEMMA HeadDropped ==
  ASSUME NEW n, NEW L, NEW W, NEW B, Typed(n, L, W, B), W # <<>>, NEW W2, W2 = Tail(W)
  PROVE  /\ Typed(n, L, W2, B)
         /\ \A e: Held(L, W2, B, e) => Held(L, W, B, e)
         /\ \A e, f: Pre(L, W2, B, e, f) => Pre(L, W, B, e, f)
         /\ \A e: \A a \in Nat: Front(L, W, B, a, e) =>
              Front(L, W2, B, Down(a), e) \/ e \in Elements(Contents(W[1]))
<1>1. /\ W2 \in Seq(Operation(n)) /\ Len(W2) = Len(W) - 1
      /\ \A i \in 1..Len(W2): W2[i] = W[i + 1]
      /\ Len(W) \in Nat \ {0}
    BY HeadTailProperties, EmptySeq DEF Typed
<1>2. Contents(W[1]) \in Seq(EntryOf(Kind, n))
    BY <1>1, ElementOfSeq, ContentsTyped DEF Typed
<1>3. Typed(n, L, W2, B)
    BY <1>1 DEF Typed
<1>4. /\ Seg(L, W, B, 0) = L /\ Seg(L, W2, B, 0) = L /\ Seg(L, W, B, 1) = Contents(W[1])
    BY <1>1 DEF Seg
<1>5. \A s \in 1..Len(W): Seg(L, W2, B, s) = Seg(L, W, B, s + 1)
    BY <1>1 DEF Seg
<1>6. ASSUME NEW s \in Nat, NEW i \in Nat, InSeg(L, W2, B, s, i)
      PROVE  \E r \in Nat: /\ InSeg(L, W, B, r, i) /\ Seg(L, W2, B, s)[i] = Seg(L, W, B, r)[i]
                           /\ r = (IF s = 0 THEN 0 ELSE s + 1)
  <2>1. CASE s = 0
      BY <2>1, <1>1, <1>4, <1>6 DEF InSeg
  <2>2. CASE s > 0
    <3>1. s \in 1..Len(W)
        BY <2>2, <1>1, <1>6 DEF InSeg
    <3>2. InSeg(L, W, B, s + 1, i) /\ Seg(L, W2, B, s)[i] = Seg(L, W, B, s + 1)[i]
        BY <3>1, <1>1, <1>5, <1>6 DEF InSeg
    <3>3. QED
        BY <2>2, <3>2
  <2>3. QED
      BY <2>1, <2>2
<1>7. \A e: Held(L, W2, B, e) => Held(L, W, B, e)
    BY <1>6 DEF Held
<1>8. ASSUME NEW e, NEW f, Pre(L, W2, B, e, f) PROVE Pre(L, W, B, e, f)
  <2>1. PICK r, s, i, j \in Nat:
          /\ InSeg(L, W2, B, r, i) /\ InSeg(L, W2, B, s, j) /\ Lower(r, i, s, j)
          /\ e = Seg(L, W2, B, r)[i] /\ f = Seg(L, W2, B, s)[j]
      BY <1>8 DEF Pre
  <2>2. PICK r0 \in Nat: /\ InSeg(L, W, B, r0, i) /\ e = Seg(L, W, B, r0)[i]
                         /\ r0 = (IF r = 0 THEN 0 ELSE r + 1)
      BY <2>1, <1>6
  <2>3. PICK s0 \in Nat: /\ InSeg(L, W, B, s0, j) /\ f = Seg(L, W, B, s0)[j]
                         /\ s0 = (IF s = 0 THEN 0 ELSE s + 1)
      BY <2>1, <1>6
  <2>4. Lower(r0, i, s0, j)
      BY <2>1, <2>2, <2>3 DEF Lower
  <2>5. QED
      BY <2>2, <2>3, <2>4 DEF Pre
<1>9. ASSUME NEW a \in Nat, NEW e, Front(L, W, B, a, e)
      PROVE  Front(L, W2, B, Down(a), e) \/ e \in Elements(Contents(W[1]))
  <2>1. PICK s, i \in Nat: InSeg(L, W, B, s, i) /\ s <= a /\ e = Seg(L, W, B, s)[i]
      BY <1>9 DEF Front
  <2>2. CASE s = 0
    <3>1. InSeg(L, W2, B, 0, i) /\ e = Seg(L, W2, B, 0)[i]
        BY <2>1, <2>2, <1>1, <1>4 DEF InSeg
    <3>2. 0 <= Down(a)
        BY DEF Down
    <3>3. QED
        BY <2>1, <3>1, <3>2 DEF Front
  <2>3. CASE s = 1
    <3>1. i \in 1..Len(Contents(W[1])) /\ e = Contents(W[1])[i]
        BY <2>1, <2>3, <1>4 DEF InSeg
    <3>2. QED
        BY <3>1, <1>2, ElementsOf
  <2>4. CASE s > 1
    <3>1. s - 1 \in 1..Len(W) /\ s - 1 \in Nat /\ (s - 1) + 1 = s
        BY <2>1, <2>4, <1>1 DEF InSeg
    <3>2. Seg(L, W2, B, s - 1) = Seg(L, W, B, s)
        BY <3>1, <1>5
    <3>3. InSeg(L, W2, B, s - 1, i)
        BY <3>1, <3>2, <1>1, <2>1 DEF InSeg
    <3>4. s - 1 <= Down(a)
        BY <2>1, <2>4 DEF Down
    <3>5. QED
        BY <2>1, <3>1, <3>2, <3>3, <3>4 DEF Front
  <2>5. QED
      BY <2>2, <2>3, <2>4
<1>10. QED
    BY <1>3, <1>7, <1>8, <1>9

(* The deltas of the head are stored, its event waits.                     *)
SplitFacts(L, W, L2, W2, E, v, C, V) ==
  /\ Len(W) \in Nat \ {0} /\ Len(W2) = Len(W) /\ \A j \in 2..Len(W): W2[j] = W[j]
  /\ Contents(W[1]) = C /\ Contents(W2[1]) = V /\ Len(V) = 1 /\ V[1] = v
  /\ Len(E) \in Nat /\ Len(C) = Len(E) + 1 /\ Len(L2) = Len(L) + Len(E)
  /\ \A i \in 1..Len(E): C[i] = E[i]
  /\ C[Len(E) + 1] = v
  /\ \A i \in 1..(Len(L) + Len(E)): L2[i] = IF i <= Len(L) THEN L[i] ELSE E[i - Len(L)]

LEMMA SplitMoves ==
  ASSUME NEW n, NEW L, NEW W, NEW B, Typed(n, L, W, B), NEW L2, NEW W2, Typed(n, L2, W2, B),
         NEW E, NEW v, NEW C, NEW V, SplitFacts(L, W, L2, W2, E, v, C, V)
  PROVE  SameJournal(n, L, W, B, L2, W2, B) /\ FrontStays(L, W, B, L2, W2, B)
<1>1. Len(L) \in Nat /\ Len(W) \in Nat \ {0} /\ Len(W2) = Len(W)
    BY SegTyped DEF SplitFacts
<1>2. Len(V) = 1 /\ V[1] = v
    BY DEF SplitFacts
<1>3. Len(E) \in Nat /\ Len(C) = Len(E) + 1 /\ Len(L2) = Len(L) + Len(E)
    BY DEF SplitFacts
<1>4. (\A i \in 1..Len(E): C[i] = E[i]) /\ C[Len(E) + 1] = v
    BY DEF SplitFacts
<1>5. \A i \in 1..(Len(L) + Len(E)): L2[i] = IF i <= Len(L) THEN L[i] ELSE E[i - Len(L)]
    BY DEF SplitFacts
<1>11. /\ Seg(L, W, B, 0) = L /\ Seg(L2, W2, B, 0) = L2
       /\ Seg(L, W, B, 1) = C /\ Seg(L2, W2, B, 1) = V
    BY <1>1 DEF Seg, SplitFacts
<1>12. \A s \in 2..(Len(W) + 1): Seg(L2, W2, B, s) = Seg(L, W, B, s)
    BY <1>1 DEF Seg, SplitFacts
<1>14. ASSUME NEW s \in Nat, NEW i \in Nat, InSeg(L2, W2, B, s, i)
       PROVE  \E r, k \in Nat:
               /\ InSeg(L, W, B, r, k) /\ Seg(L2, W2, B, s)[i] = Seg(L, W, B, r)[k]
               /\ \/ s = 0 /\ i <= Len(L) /\ r = 0 /\ k = i
                  \/ s = 0 /\ i > Len(L) /\ r = 1 /\ k = i - Len(L) /\ k <= Len(E)
                  \/ s = 1 /\ i = 1 /\ r = 1 /\ k = Len(E) + 1
                  \/ s > 1 /\ r = s /\ k = i
  <2>1. CASE s = 0 /\ i <= Len(L)
    <3>1. InSeg(L, W, B, 0, i) /\ Seg(L2, W2, B, s)[i] = Seg(L, W, B, 0)[i]
        BY <2>1, <1>1, <1>3, <1>5, <1>11, <1>14 DEF InSeg
    <3>2. QED
        BY <2>1, <3>1
  <2>2. CASE s = 0 /\ i > Len(L)
    <3>1. i - Len(L) \in Nat
        BY <2>2, <1>1
    <3>2. PICK k \in Nat: k = i - Len(L)
        BY <3>1
    <3>3. i \in 1..(Len(L) + Len(E))
        BY <2>2, <1>1, <1>3, <1>11, <1>14 DEF InSeg
    <3>4. k \in 1..Len(E) /\ L2[i] = E[k]
        BY <2>2, <3>2, <3>3, <1>1, <1>3, <1>5
    <3>5. k \in 1..Len(C) /\ L2[i] = C[k] /\ k <= Len(E)
        BY <3>4, <1>3, <1>4
    <3>6. InSeg(L, W, B, 1, k)
        BY <3>5, <1>1, <1>11 DEF InSeg
    <3>7. Seg(L2, W2, B, s)[i] = Seg(L, W, B, 1)[k]
        BY <2>2, <3>5, <1>11
    <3>8. QED
        BY <2>2, <3>2, <3>5, <3>6, <3>7
  <2>3. CASE s = 1
    <3>0. Seg(L2, W2, B, s) = V
        BY <2>3, <1>11
    <3>1. i = 1 /\ Seg(L2, W2, B, s)[i] = v
        BY <3>0, <1>2, <1>14 DEF InSeg
    <3>2. PICK k \in Nat: k = Len(E) + 1
        BY <1>3
    <3>3. InSeg(L, W, B, 1, k) /\ Seg(L, W, B, 1)[k] = v
        BY <3>2, <1>1, <1>3, <1>4, <1>11 DEF InSeg
    <3>4. QED
        BY <2>3, <3>1, <3>2, <3>3
  <2>4. CASE s > 1
    <3>1. s \in 2..(Len(W) + 1)
        BY <2>4, <1>1, <1>14 DEF InSeg
    <3>2. InSeg(L, W, B, s, i) /\ Seg(L2, W2, B, s)[i] = Seg(L, W, B, s)[i]
        BY <3>1, <1>1, <1>12, <1>14 DEF InSeg
    <3>3. QED
        BY <2>4, <3>2
  <2>5. QED
      BY <2>1, <2>2, <2>3, <2>4, <1>1
<1>15. ASSUME NEW s \in Nat, NEW i \in Nat, InSeg(L, W, B, s, i)
       PROVE  \E r, k \in Nat:
               /\ InSeg(L2, W2, B, r, k) /\ Seg(L, W, B, s)[i] = Seg(L2, W2, B, r)[k] /\ r <= s
  <2>1. CASE s = 0
    <3>1. InSeg(L2, W2, B, 0, i) /\ Seg(L, W, B, 0)[i] = Seg(L2, W2, B, 0)[i]
        BY <2>1, <1>1, <1>3, <1>5, <1>11, <1>15 DEF InSeg
    <3>2. QED
        BY <2>1, <3>1
  <2>2. CASE s = 1
    <3>1. i \in 1..(Len(E) + 1) /\ Seg(L, W, B, s)[i] = C[i]
        BY <2>2, <1>3, <1>11, <1>15 DEF InSeg
    <3>2. CASE i <= Len(E)
      <4>1. i \in 1..Len(E) /\ C[i] = E[i]
          BY <3>1, <3>2, <1>3, <1>4
      <4>2. i + Len(L) \in 1..Len(L2) /\ L2[i + Len(L)] = E[i]
          BY <4>1, <1>1, <1>3, <1>5
      <4>3. PICK k \in Nat: k = i + Len(L)
          BY <1>1
      <4>4. InSeg(L2, W2, B, 0, k) /\ Seg(L2, W2, B, 0)[k] = C[i]
          BY <4>1, <4>2, <4>3, <1>1, <1>11 DEF InSeg
      <4>5. 0 <= s
          BY <2>2
      <4>6. QED
          BY <4>4, <4>5, <3>1
    <3>3. CASE i = Len(E) + 1
      <4>1. InSeg(L2, W2, B, 1, 1)
          BY <1>1, <1>2, <1>11 DEF InSeg
      <4>2. Seg(L2, W2, B, 1)[1] = C[i]
          BY <3>3, <1>2, <1>4, <1>11
      <4>3. QED
          BY <4>1, <4>2, <3>1, <2>2
    <3>4. QED
        BY <3>1, <3>2, <3>3, <1>3
  <2>3. CASE s > 1
    <3>1. s \in 2..(Len(W) + 1)
        BY <2>3, <1>15 DEF InSeg
    <3>2. InSeg(L2, W2, B, s, i) /\ Seg(L2, W2, B, s)[i] = Seg(L, W, B, s)[i]
        BY <3>1, <1>1, <1>12, <1>15 DEF InSeg
    <3>3. QED
        BY <2>3, <3>2
  <2>4. QED
      BY <2>1, <2>2, <2>3
<1>16. \A e: Held(L2, W2, B, e) <=> Held(L, W, B, e)
  <2>1. \A e: Held(L2, W2, B, e) => Held(L, W, B, e)
      BY <1>14 DEF Held
  <2>2. \A e: Held(L, W, B, e) => Held(L2, W2, B, e)
      BY <1>15 DEF Held
  <2>3. QED
      BY <2>1, <2>2
<1>17. ASSUME NEW e, NEW f, Pre(L2, W2, B, e, f) PROVE Pre(L, W, B, e, f)
  <2>1. PICK r, s, i, j \in Nat:
          /\ InSeg(L2, W2, B, r, i) /\ InSeg(L2, W2, B, s, j) /\ Lower(r, i, s, j)
          /\ e = Seg(L2, W2, B, r)[i] /\ f = Seg(L2, W2, B, s)[j]
      BY <1>17 DEF Pre
  <2>2. PICK r0, i0 \in Nat:
               /\ InSeg(L, W, B, r0, i0) /\ e = Seg(L, W, B, r0)[i0]
               /\ \/ r = 0 /\ i <= Len(L) /\ r0 = 0 /\ i0 = i
                  \/ r = 0 /\ i > Len(L) /\ r0 = 1 /\ i0 = i - Len(L) /\ i0 <= Len(E)
                  \/ r = 1 /\ i = 1 /\ r0 = 1 /\ i0 = Len(E) + 1
                  \/ r > 1 /\ r0 = r /\ i0 = i
      BY <2>1, <1>14
  <2>3. PICK s0, j0 \in Nat:
               /\ InSeg(L, W, B, s0, j0) /\ f = Seg(L, W, B, s0)[j0]
               /\ \/ s = 0 /\ j <= Len(L) /\ s0 = 0 /\ j0 = j
                  \/ s = 0 /\ j > Len(L) /\ s0 = 1 /\ j0 = j - Len(L) /\ j0 <= Len(E)
                  \/ s = 1 /\ j = 1 /\ s0 = 1 /\ j0 = Len(E) + 1
                  \/ s > 1 /\ s0 = s /\ j0 = j
      BY <2>1, <1>14
  <2>4. Lower(r0, i0, s0, j0)
    <3>1. \/ r = 0 /\ i <= Len(L) /\ r0 = 0 /\ i0 = i
          \/ r = 0 /\ i > Len(L) /\ r0 = 1 /\ i0 = i - Len(L) /\ i0 <= Len(E)
          \/ r = 1 /\ i = 1 /\ r0 = 1 /\ i0 = Len(E) + 1
          \/ r > 1 /\ r0 = r /\ i0 = i
        BY <2>2
    <3>2. \/ s = 0 /\ j <= Len(L) /\ s0 = 0 /\ j0 = j
          \/ s = 0 /\ j > Len(L) /\ s0 = 1 /\ j0 = j - Len(L) /\ j0 <= Len(E)
          \/ s = 1 /\ j = 1 /\ s0 = 1 /\ j0 = Len(E) + 1
          \/ s > 1 /\ s0 = s /\ j0 = j
        BY <2>3
    <3>3. Len(L) \in Nat /\ Len(E) \in Nat
        BY <1>1, <1>3
    <3>4. r < s \/ (r = s /\ i < j)
        BY <2>1 DEF Lower
    <3>5. CASE r < s
        BY <3>1, <3>2, <3>3, <3>5 DEF Lower
    <3>6. CASE r = s /\ i < j
        BY <3>1, <3>2, <3>3, <3>6 DEF Lower
    <3>7. QED
        BY <3>4, <3>5, <3>6
  <2>5. QED
      BY <2>2, <2>3, <2>4 DEF Pre
<1>18. ASSUME NEW e, NEW a \in Nat, Front(L, W, B, a, e) PROVE Front(L2, W2, B, a, e)
  <2>1. PICK s, i \in Nat: InSeg(L, W, B, s, i) /\ s <= a /\ e = Seg(L, W, B, s)[i]
      BY <1>18 DEF Front
  <2>2. PICK r, k \in Nat: InSeg(L2, W2, B, r, k) /\ Seg(L, W, B, s)[i] = Seg(L2, W2, B, r)[k] /\ r <= s
      BY <2>1, <1>15
  <2>3. r <= a
      BY <2>1, <2>2
  <2>4. QED
      BY <2>1, <2>2, <2>3 DEF Front
<1>19. QED
    BY <1>16, <1>17, <1>18 DEF SameJournal, FrontStays

Splits(L, W, L2, W2) ==
  /\ W # <<>> /\ W[1].event # NoEntry /\ L2 = L \o W[1].entries
  /\ W2 = [W EXCEPT ![1] = [entries |-> <<>>, event |-> W[1].event]]

LEMMA HeadSplit ==
  ASSUME NEW n, NEW L, NEW W, NEW B, Typed(n, L, W, B), NEW L2, NEW W2, Splits(L, W, L2, W2)
  PROVE  /\ SameJournal(n, L, W, B, L2, W2, B) /\ FrontStays(L, W, B, L2, W2, B)
         /\ Len(W2) = Len(W)
<1> DEFINE E == W[1].entries
           v == W[1].event
           op == [entries |-> <<>>, event |-> v]
<1>0. v # NoEntry
    BY DEF Splits
<1>1. Len(W) \in Nat \ {0}
    BY EmptySeq DEF Typed, Splits
<1>2. W[1] \in Operation(n) /\ n \in Nat
    BY <1>1, ElementOfSeq DEF Typed
<1>3. /\ E \in Seq(EntryOf(Stream, n)) /\ E \in Seq(EntryOf(Kind, n))
      /\ v \in EntryOf(Single, n) /\ v \in EntryOf(Kind, n)
    BY <1>0, <1>2, ContentsTyped
<1>5. op \in Operation(n) /\ op.event = v /\ op.entries = <<>>
    BY <1>3, EmptySeq DEF Operation
<1>6. /\ W2 \in Seq(Operation(n)) /\ Len(W2) = Len(W)
      /\ \A j \in 1..Len(W): W2[j] = IF j = 1 THEN op ELSE W[j]
  <2>1. W2 = [W EXCEPT ![1] = op]
      BY DEF Splits
  <2>2. 1 \in 1..Len(W) /\ W \in Seq(Operation(n))
      BY <1>1 DEF Typed
  <2>3. QED
      BY <2>1, <2>2, <1>5, ExceptSeq
<1> DEFINE C == Append(E, v)
<1>7. /\ Len(C) = Len(E) + 1 /\ Len(E) \in Nat
      /\ \A i \in 1..Len(E): C[i] = E[i]
      /\ C[Len(E) + 1] = v
    BY <1>3, AppendProperties, LenProperties
<1>8. /\ L2 \in Seq(EntryOf(Kind, n)) /\ Len(L2) = Len(L) + Len(E)
      /\ \A i \in 1..Len(L) + Len(E): L2[i] = IF i <= Len(L) THEN L[i] ELSE E[i - Len(L)]
      /\ Len(L) \in Nat
    BY <1>3, ConcatProperties, LenProperties DEF Typed, Splits
<1>9. Typed(n, L2, W2, B)
    BY <1>6, <1>8 DEF Typed
<1>10. Contents(W[1]) = C /\ Contents(op) = <<v>>
  <2>1. Contents(op) = Append(<<>>, v)
      BY <1>0, <1>5 DEF Contents
  <2>2. Contents(W[1]) = C
      BY DEF Contents, Splits
  <2>3. QED
      BY <2>1, <2>2
<1>11. /\ Contents(W[1]) = C /\ Contents(W2[1]) = <<v>>
       /\ \A j \in 2..Len(W): W2[j] = W[j]
    BY <1>1, <1>6, <1>10
<1>12. PICK V: V = <<v>>
    OBVIOUS
<1>13. Contents(W2[1]) = V /\ Len(V) = 1 /\ V[1] = v
    BY <1>11, <1>12
<1> HIDE DEF C, E, v, op
<1>20. SplitFacts(L, W, L2, W2, E, v, C, V)
    BY <1>1, <1>6, <1>7, <1>8, <1>11, <1>13 DEF SplitFacts
<1>14. QED
    BY <1>6, <1>9, <1>20, SplitMoves

(* Twins are deltas of different streams.                                  *)
LEMMA TwinsDiffer ==
  ASSUME NEW k PROVE ~Twins(k, k)
<1> DEFINE a == TypeOf(k)
<1>1. SUFFICES ASSUME {a, a} \in {{"item.delta", "message.delta"}, {"message.delta", "reasoning.raw_delta"}}
               PROVE  FALSE
    BY DEF Twins
<1> HIDE DEF a
<1>2. CASE {a, a} = {"item.delta", "message.delta"}
  <2>1. "item.delta" \in {a, a} /\ "message.delta" \in {a, a}
      BY <1>2
  <2>2. QED
      BY <2>1
<1>3. CASE {a, a} = {"message.delta", "reasoning.raw_delta"}
  <2>1. "message.delta" \in {a, a} /\ "reasoning.raw_delta" \in {a, a}
      BY <1>3
  <2>2. QED
      BY <2>1
<1>4. QED
    BY <1>1, <1>2, <1>3

(* A delta merges into the last entry of its stream or joins the batch.    *)
MergesAt(B, k, m, x, B2) ==
  /\ B[x].kind = k
  /\ \A j \in 1..Len(B): j > x => Twins(B[j].kind, k) /\ B[j].kind # k
  /\ B2 = [j \in 1..Len(B) |-> IF j = x THEN MergeBuffered(B[x], m) ELSE B[j]]

LEMMA EnqueueCases ==
  ASSUME NEW n \in Nat, NEW B \in Seq(EntryOf(Stream, n)), NEW k \in Stream, NEW m
  PROVE  \/ EnqueueDelta(B, k, m) = Append(B, Entry(k, m))
         \/ \E x \in 1..Len(B): MergesAt(B, k, m, x, EnqueueDelta(B, k, m))
<1> DEFINE targets == MergeTargets(B, k)
<1>1. DOMAIN B = 1..Len(B) /\ Len(B) \in Nat
    BY LenProperties
<1>2. CASE targets = {}
    BY <1>2 DEF EnqueueDelta
<1>3. CASE targets # {}
  <2>1. PICK x: x \in targets
      BY <1>3
  <2>2. x \in 1..Len(B) /\ B[x].kind = k /\ \A j \in 1..Len(B): j > x => Twins(B[j].kind, k)
      BY <2>1, <1>1 DEF MergeTargets, CanMergeAcrossTypes
  <2>3. \A j: Twins(j, k) => j # k
      BY TwinsDiffer
  <2>4. targets = {x}
    <3>1. SUFFICES ASSUME NEW y \in targets PROVE y = x
        BY <2>1
    <3>2. y \in 1..Len(B) /\ B[y].kind = k /\ \A j \in 1..Len(B): j > y => Twins(B[j].kind, k)
        BY <1>1 DEF MergeTargets, CanMergeAcrossTypes
    <3>3. QED
        BY <2>2, <2>3, <3>2, <1>1
  <2>5. EnqueueDelta(B, k, m) = [i \in DOMAIN B |-> IF i \in targets THEN MergeBuffered(B[i], m) ELSE B[i]]
      BY <1>3 DEF EnqueueDelta
  <2> HIDE DEF targets
  <2>6. EnqueueDelta(B, k, m) = [j \in 1..Len(B) |-> IF j = x THEN MergeBuffered(B[x], m) ELSE B[j]]
      BY <2>4, <2>5, <1>1
  <2>7. \A j \in 1..Len(B): j > x => B[j].kind # k
      BY <2>2, <2>3
  <2>8. QED
      BY <2>2, <2>6, <2>7 DEF MergesAt
<1>4. QED
    BY <1>2, <1>3

(* What merging keeps: the stream, the order, and all tickets unless it is *)
(* a preview.                                                              *)
MergeKeeps(k, n, e, d) ==
  /\ d \in EntryOf(Stream, n + 1) /\ d.kind = k
  /\ Elements(d.of) \subseteq Elements(e.of) \cup {n + 1} /\ n + 1 \in Elements(d.of)
  /\ k # "preview" => Elements(e.of) \subseteq Elements(d.of)
  /\ Increasing(e.of) => Increasing(d.of)

LEMMA MergeFacts ==
  ASSUME NEW n \in Nat, NEW k \in Stream, NEW e \in EntryOf(Stream, n), e.kind = k,
         NEW d, d = MergeBuffered(e, n + 1)
  PROVE  MergeKeeps(k, n, e, d)
<1>1. e.kind \in Stream /\ e.of \in Seq(1..n) /\ e = [kind |-> e.kind, of |-> e.of]
    BY EntryFacts
<1>2. /\ n + 1 \in 1..(n + 1) /\ 1..n \subseteq 1..(n + 1)
      /\ \A q \in 1..n: q < n + 1
    OBVIOUS
<1>3. e.of \in Seq(1..(n + 1))
    BY <1>1, <1>2, SeqMonotonic
<1>4. CASE k = "preview"
  <2>1. d = [e EXCEPT !.of = <<n + 1>>]
      BY <1>4 DEF MergeBuffered
  <2>2. d = [kind |-> k, of |-> <<n + 1>>]
      BY <2>1, <1>1
  <2>3. d.kind = k /\ d.of = <<n + 1>>
      BY <2>2
  <2>4. <<n + 1>> \in Seq(1..(n + 1))
      BY <1>2
  <2>5. d \in EntryOf(Stream, n + 1)
      BY <2>2, <2>4, EntryIsEntry
  <2>6. Increasing(<<n + 1>>)
      BY DEF Increasing
  <2>7. QED
      BY <1>4, <2>3, <2>5, <2>6, ElementsOne DEF MergeKeeps
<1>5. CASE k # "preview"
  <2>1. d = [e EXCEPT !.of = Append(@, n + 1)]
      BY <1>5 DEF MergeBuffered
  <2>2. d = [kind |-> k, of |-> Append(e.of, n + 1)]
      BY <2>1, <1>1
  <2>3. d.kind = k /\ d.of = Append(e.of, n + 1)
      BY <2>2
  <2>4. /\ Append(e.of, n + 1) \in Seq(1..(n + 1))
        /\ Len(Append(e.of, n + 1)) = Len(e.of) + 1
        /\ \A i \in 1..Len(e.of): Append(e.of, n + 1)[i] = e.of[i]
        /\ Append(e.of, n + 1)[Len(e.of) + 1] = n + 1
      BY <1>2, <1>3, AppendProperties
  <2>5. d \in EntryOf(Stream, n + 1)
      BY <2>2, <2>4, EntryIsEntry
  <2>6. Elements(Append(e.of, n + 1)) = Elements(e.of) \cup {n + 1}
      BY <1>2, <1>3, ElementsAppend
  <2>7. ASSUME Increasing(e.of) PROVE Increasing(Append(e.of, n + 1))
    <3>1. DOMAIN e.of = 1..Len(e.of) /\ Len(e.of) \in Nat
        BY <1>1, LenProperties
    <3>2. DOMAIN Append(e.of, n + 1) = 1..(Len(e.of) + 1)
        BY <2>4, LenProperties
    <3>3. \A i \in 1..Len(e.of): e.of[i] < n + 1
        BY <1>1, <1>2, ElementOfSeq
    <3>4. \A i, j \in 1..Len(e.of): i < j => e.of[i] < e.of[j]
        BY <2>7, <3>1 DEF Increasing
    <3>5. ASSUME NEW i \in 1..(Len(e.of) + 1), NEW j \in 1..(Len(e.of) + 1), i < j
          PROVE  Append(e.of, n + 1)[i] < Append(e.of, n + 1)[j]
      <4>1. i \in 1..Len(e.of) /\ Append(e.of, n + 1)[i] = e.of[i]
          BY <3>1, <3>5, <2>4
      <4>2. CASE j \in 1..Len(e.of)
        <5>1. Append(e.of, n + 1)[j] = e.of[j]
            BY <4>2, <2>4
        <5>2. QED
            BY <4>1, <4>2, <5>1, <3>4, <3>5
      <4>3. CASE j = Len(e.of) + 1
        <5>1. Append(e.of, n + 1)[j] = n + 1
            BY <4>3, <2>4
        <5>2. QED
            BY <4>1, <5>1, <3>3
      <4>4. QED
          BY <4>2, <4>3, <3>1
    <3>6. QED
        BY <3>2, <3>5 DEF Increasing
  <2>8. QED
      BY <1>5, <2>3, <2>5, <2>6, <2>7 DEF MergeKeeps
<1>6. QED
    BY <1>4, <1>5

LEMMA NewEntry ==
  ASSUME NEW n \in Nat, NEW K, NEW k \in K, NEW d, d = Entry(k, n + 1)
  PROVE  /\ d \in EntryOf(K, n + 1) /\ d.kind = k
         /\ Elements(d.of) = {n + 1} /\ Increasing(d.of)
<1>1. d.kind = k /\ d.of = <<n + 1>> /\ d = [kind |-> k, of |-> <<n + 1>>]
    BY DEF Entry
<1>2. <<n + 1>> \in Seq(1..(n + 1))
    OBVIOUS
<1>3. d \in EntryOf(K, n + 1)
    BY <1>1, <1>2, EntryIsEntry
<1>4. Increasing(<<n + 1>>)
    BY DEF Increasing
<1>5. QED
    BY <1>1, <1>3, <1>4, ElementsOne

(* What is typed stays typed when tickets are issued.                      *)
LEMMA TypedGrows ==
  ASSUME NEW n \in Nat, NEW L, NEW W, NEW B, Typed(n, L, W, B)
  PROVE  Typed(n + 1, L, W, B)
<1>1. \A K: EntryOf(K, n) \subseteq EntryOf(K, n + 1)
    BY EntryGrows
<1>2. Seq(EntryOf(Stream, n)) \subseteq Seq(EntryOf(Stream, n + 1))
    BY <1>1, SeqMonotonic
<1>3. Operation(n) \subseteq Operation(n + 1)
    BY <1>1, <1>2 DEF Operation
<1>4. QED
    BY <1>1, <1>2, <1>3, SeqMonotonic DEF Typed

(* The newest delta is the last entry.                                     *)
LEMMA DeltaAppended ==
  ASSUME NEW n, NEW L, NEW W, NEW B, Typed(n, L, W, B),
         NEW new \in EntryOf(Stream, n), NEW B2, B2 = Append(B, new)
  PROVE  OneJoins(n, L, W, B, L, W, B2, new)
<1>1. /\ B2 \in Seq(EntryOf(Stream, n)) /\ Len(B2) = Len(B) + 1
      /\ \A i \in 1..Len(B): B2[i] = B[i]
      /\ B2[Len(B) + 1] = new
    BY AppendProperties DEF Typed
<1>2. Len(W) \in Nat /\ Len(B) \in Nat
    BY SegTyped
<1>3. \A s \in 0..Len(W): Seg(L, W, B2, s) = Seg(L, W, B, s)
    BY <1>2 DEF Seg
<1>4. Seg(L, W, B2, Len(W) + 1) = B2 /\ Seg(L, W, B, Len(W) + 1) = B
    BY <1>2 DEF Seg
<1>5. ASSUME NEW s \in Nat, NEW i \in Nat
      PROVE  /\ InSeg(L, W, B2, s, i) <=> InSeg(L, W, B, s, i) \/ (s = Len(W) + 1 /\ i = Len(B) + 1)
             /\ InSeg(L, W, B, s, i) => Seg(L, W, B2, s)[i] = Seg(L, W, B, s)[i]
  <2>1. CASE s \in 0..Len(W)
      BY <2>1, <1>2, <1>3 DEF InSeg
  <2>2. CASE s = Len(W) + 1
    <3>1. InSeg(L, W, B, s, i) <=> i \in 1..Len(B)
        BY <2>2, <1>2, <1>4 DEF InSeg
    <3>2. InSeg(L, W, B2, s, i) <=> i \in 1..(Len(B) + 1)
        BY <2>2, <1>1, <1>2, <1>4 DEF InSeg
    <3>3. i \in 1..(Len(B) + 1) <=> i \in 1..Len(B) \/ i = Len(B) + 1
        BY <1>1
    <3>4. InSeg(L, W, B2, s, i) <=> InSeg(L, W, B, s, i) \/ (s = Len(W) + 1 /\ i = Len(B) + 1)
        BY <2>2, <3>1, <3>2, <3>3
    <3>5. InSeg(L, W, B, s, i) => Seg(L, W, B2, s)[i] = Seg(L, W, B, s)[i]
        BY <2>2, <3>1, <1>1, <1>4
    <3>6. QED
        BY <3>4, <3>5
  <2>3. CASE s > Len(W) + 1
      BY <2>3, <1>2 DEF InSeg
  <2>4. QED
      BY <2>1, <2>2, <2>3, <1>2
<1>6. Seg(L, W, B2, Len(W) + 1)[Len(B) + 1] = new
    BY <1>1, <1>4
<1>7. \A e: Held(L, W, B2, e) <=> Held(L, W, B, e) \/ e = new
  <2>1. InSeg(L, W, B2, Len(W) + 1, Len(B) + 1)
      BY <1>2, <1>5
  <2>2. QED
      BY <2>1, <1>2, <1>5, <1>6 DEF Held
<1>8. ASSUME NEW e, NEW f, Pre(L, W, B2, e, f)
      PROVE  Pre(L, W, B, e, f) \/ (Held(L, W, B, e) /\ f = new)
  <2>1. PICK r, s, i, j \in Nat:
          /\ InSeg(L, W, B2, r, i) /\ InSeg(L, W, B2, s, j) /\ Lower(r, i, s, j)
          /\ e = Seg(L, W, B2, r)[i] /\ f = Seg(L, W, B2, s)[j]
      BY <1>8 DEF Pre
  <2>2. InSeg(L, W, B, r, i)
    <3>1. SUFFICES ASSUME r = Len(W) + 1, i = Len(B) + 1 PROVE FALSE
        BY <2>1, <1>5
    <3>2. s <= Len(W) + 1 /\ (s = Len(W) + 1 => j <= Len(B) + 1)
        BY <2>1, <1>1, <1>2, <1>4 DEF InSeg
    <3>3. QED
        BY <3>1, <3>2, <2>1, <1>2 DEF Lower
  <2>3. e = Seg(L, W, B, r)[i]
      BY <2>1, <2>2, <1>5
  <2>4. CASE InSeg(L, W, B, s, j)
    <3>1. f = Seg(L, W, B, s)[j]
        BY <2>1, <2>4, <1>5
    <3>2. QED
        BY <2>1, <2>2, <2>3, <2>4, <3>1 DEF Pre
  <2>5. CASE s = Len(W) + 1 /\ j = Len(B) + 1
      BY <2>1, <2>2, <2>3, <2>5, <1>6 DEF Held
  <2>6. QED
      BY <2>1, <2>4, <2>5, <1>5
<1>9. Typed(n, L, W, B2)
    BY <1>1 DEF Typed
<1>10. QED
    BY <1>7, <1>8, <1>9 DEF OneJoins

(* The newest delta merges into the entry at x.                            *)
MergedPlaces(n, L, W, B, x, d, B2) ==
  /\ Typed(n, L, W, B2)
  /\ Held(L, W, B, B[x]) /\ Held(L, W, B2, d)
  /\ \A e: Held(L, W, B2, e) => Held(L, W, B, e) \/ e = d
  /\ \A e: Held(L, W, B, e) => Held(L, W, B2, e) \/ e = B[x]
  /\ \A e, f: Pre(L, W, B2, e, f) =>
       \/ Pre(L, W, B, e, f)
       \/ f = d /\ Pre(L, W, B, e, B[x])
       \/ e = d /\ Pre(L, W, B, B[x], f) /\ \E j \in 1..Len(B): j > x /\ f = B[j]

LEMMA DeltaMerged ==
  ASSUME NEW n, NEW L, NEW W, NEW B, Typed(n, L, W, B), NEW x \in 1..Len(B),
         NEW d \in EntryOf(Stream, n), NEW B2 \in Seq(EntryOf(Stream, n)), Len(B2) = Len(B),
         \A i \in 1..Len(B): B2[i] = IF i = x THEN d ELSE B[i]
  PROVE  MergedPlaces(n, L, W, B, x, d, B2)
<1>1. /\ Len(B2) = Len(B)
      /\ \A i \in 1..Len(B): B2[i] = IF i = x THEN d ELSE B[i]
    OBVIOUS
<1>2. Len(W) \in Nat /\ Len(B) \in Nat
    BY SegTyped
<1>3. \A s \in 0..Len(W): Seg(L, W, B2, s) = Seg(L, W, B, s)
    BY <1>2 DEF Seg
<1>4. Seg(L, W, B2, Len(W) + 1) = B2 /\ Seg(L, W, B, Len(W) + 1) = B
    BY <1>2 DEF Seg
<1>5. ASSUME NEW s \in Nat, NEW i \in Nat
      PROVE  /\ InSeg(L, W, B2, s, i) <=> InSeg(L, W, B, s, i)
             /\ InSeg(L, W, B, s, i) /\ ~(s = Len(W) + 1 /\ i = x)
                => Seg(L, W, B2, s)[i] = Seg(L, W, B, s)[i]
             /\ s = Len(W) + 1 /\ i = x => Seg(L, W, B2, s)[i] = d /\ Seg(L, W, B, s)[i] = B[x]
  <2>1. CASE s \in 0..Len(W)
      BY <2>1, <1>2, <1>3 DEF InSeg
  <2>2. CASE s = Len(W) + 1
    <3>1. InSeg(L, W, B, s, i) <=> i \in 1..Len(B)
        BY <2>2, <1>2, <1>4 DEF InSeg
    <3>2. InSeg(L, W, B2, s, i) <=> i \in 1..Len(B)
        BY <2>2, <1>1, <1>2, <1>4 DEF InSeg
    <3>3. QED
        BY <2>2, <3>1, <3>2, <1>1, <1>2, <1>4
  <2>3. CASE s > Len(W) + 1
      BY <2>3, <1>2 DEF InSeg
  <2>4. QED
      BY <2>1, <2>2, <2>3, <1>2
<1>6. x \in Nat /\ Len(W) + 1 \in Nat /\ InSeg(L, W, B, Len(W) + 1, x)
    BY <1>2, <1>4 DEF InSeg
<1>7. Held(L, W, B, B[x]) /\ Held(L, W, B2, d)
    BY <1>5, <1>6 DEF Held
<1>8. \A e: Held(L, W, B2, e) => Held(L, W, B, e) \/ e = d
    BY <1>5 DEF Held
<1>9. \A e: Held(L, W, B, e) => Held(L, W, B2, e) \/ e = B[x]
    BY <1>5 DEF Held
<1>10. ASSUME NEW e, NEW f, Pre(L, W, B2, e, f)
       PROVE  \/ Pre(L, W, B, e, f)
              \/ f = d /\ Pre(L, W, B, e, B[x])
              \/ e = d /\ Pre(L, W, B, B[x], f) /\ \E j \in 1..Len(B): j > x /\ f = B[j]
  <2>1. PICK r, s, i, j \in Nat:
          /\ InSeg(L, W, B2, r, i) /\ InSeg(L, W, B2, s, j) /\ Lower(r, i, s, j)
          /\ e = Seg(L, W, B2, r)[i] /\ f = Seg(L, W, B2, s)[j]
      BY <1>10 DEF Pre
  <2>2. InSeg(L, W, B, r, i) /\ InSeg(L, W, B, s, j)
      BY <2>1, <1>5
  <2>3. CASE r = Len(W) + 1 /\ i = x
    <3>1. s = Len(W) + 1 /\ j > x
        BY <2>1, <2>2, <2>3, <1>2 DEF Lower, InSeg
    <3>2. j \in 1..Len(B)
        BY <3>1, <2>2, <1>4 DEF InSeg
    <3>3. e = d /\ Seg(L, W, B, r)[i] = B[x]
        BY <2>1, <2>3, <1>5
    <3>4. ~(s = Len(W) + 1 /\ j = x)
        BY <3>1, <1>6
    <3>5. f = Seg(L, W, B, s)[j]
        BY <3>4, <2>1, <2>2, <1>5
    <3>6. f = B[j]
        BY <3>1, <3>5, <1>4
    <3>7. Pre(L, W, B, B[x], f)
        BY <2>1, <2>2, <3>3, <3>5 DEF Pre
    <3>8. QED
        BY <3>1, <3>2, <3>3, <3>6, <3>7
  <2>4. CASE ~(r = Len(W) + 1 /\ i = x)
    <3>1. e = Seg(L, W, B, r)[i]
        BY <2>1, <2>2, <2>4, <1>5
    <3>2. CASE s = Len(W) + 1 /\ j = x
      <4>1. f = d /\ Seg(L, W, B, s)[j] = B[x]
          BY <2>1, <3>2, <1>5
      <4>2. QED
          BY <2>1, <2>2, <3>1, <4>1 DEF Pre
    <3>3. CASE ~(s = Len(W) + 1 /\ j = x)
      <4>1. f = Seg(L, W, B, s)[j]
          BY <2>1, <2>2, <3>3, <1>5
      <4>2. QED
          BY <2>1, <2>2, <3>1, <4>1 DEF Pre
    <3>4. QED
        BY <3>2, <3>3
  <2>5. QED
      BY <2>3, <2>4
<1>11. Typed(n, L, W, B2)
    BY <1>1 DEF Typed
<1>12. QED
    BY <1>7, <1>8, <1>9, <1>10, <1>11 DEF MergedPlaces

-----------------------------------------------------------------------------
(* The invariants of one thread, of what it accepted (A) and its journal.  *)

Obs(A, q, upto) ==
  \/ A[q] = "compaction"
  \/ A[q] = "preview" /\ \E m \in (q + 1)..upto: A[m] = "preview"

StreamOK(A, L, W, B) ==
  /\ \A e: Held(L, W, B, e) => Increasing(e.of) /\ \A q \in Elements(e.of): A[q] = e.kind
  /\ \A e, f: Pre(L, W, B, e, f) /\ e.kind = f.kind =>
       \A p \in Elements(e.of), q \in Elements(f.of): p < q

OrderOK(L, W, B) ==
  \A e, f: (Pre(L, W, B, e, f) /\ \E p \in Elements(e.of), q \in Elements(f.of): p > q)
           => {e.kind, f.kind} \cap Single = {} /\ Twins(e.kind, f.kind)

Complete(A, L, W, B) ==
  \A q \in 1..Len(A): Obs(A, q, Len(A)) \/ \E e: Held(L, W, B, e) /\ q \in Elements(e.of)

Promised(A, L, W, B, a, upto) ==
  \A q \in 1..upto: Obs(A, q, upto) \/ \E e: Front(L, W, B, a, e) /\ q \in Elements(e.of)

InvariantsKept(A, L, W, B, A2, L2, W2, B2) ==
  /\ StreamOK(A, L, W, B) => StreamOK(A2, L2, W2, B2)
  /\ OrderOK(L, W, B) => OrderOK(L2, W2, B2)
  /\ StreamOK(A, L, W, B) /\ Complete(A, L, W, B) => Complete(A2, L2, W2, B2)

(* Entries only moved, and some may be gone.                               *)
LEMMA MovedOnly ==
  ASSUME NEW A, NEW L, NEW W, NEW B, NEW L2, NEW W2, NEW B2,
         \A e: Held(L2, W2, B2, e) => Held(L, W, B, e),
         \A e, f: Pre(L2, W2, B2, e, f) => Pre(L, W, B, e, f)
  PROVE  /\ StreamOK(A, L, W, B) => StreamOK(A, L2, W2, B2)
         /\ OrderOK(L, W, B) => OrderOK(L2, W2, B2)
<1>1. StreamOK(A, L, W, B) => StreamOK(A, L2, W2, B2)
    BY DEF StreamOK
<1>2. OrderOK(L, W, B) => OrderOK(L2, W2, B2)
    BY DEF OrderOK
<1>3. QED
    BY <1>1, <1>2

LEMMA CompleteMoved ==
  ASSUME NEW A, NEW L, NEW W, NEW B, NEW L2, NEW W2, NEW B2, Complete(A, L, W, B),
         \A e: Held(L, W, B, e) => Held(L2, W2, B2, e)
  PROVE  Complete(A, L2, W2, B2)
  BY DEF Complete

(* What is obsolete stays obsolete when more is accepted.                  *)
LEMMA ObsGrows ==
  ASSUME NEW A \in Seq(Kind), NEW k \in Kind, NEW A2, A2 = Append(A, k)
  PROVE  /\ A2 \in Seq(Kind) /\ Len(A) \in Nat /\ Len(A2) = Len(A) + 1 /\ A2[Len(A) + 1] = k
         /\ \A q \in 1..Len(A): A2[q] = A[q]
         /\ \A q \in 1..Len(A), u \in 0..Len(A), v \in Nat: Obs(A, q, u) /\ u <= v => Obs(A2, q, v)
<1>1. /\ A2 \in Seq(Kind) /\ Len(A2) = Len(A) + 1 /\ A2[Len(A) + 1] = k
      /\ \A q \in 1..Len(A): A2[q] = A[q]
    BY AppendProperties
<1>2. Len(A) \in Nat
    BY LenProperties
<1>3. ASSUME NEW q \in 1..Len(A), NEW u \in 0..Len(A), NEW v \in Nat, Obs(A, q, u), u <= v
      PROVE  Obs(A2, q, v)
  <2>1. CASE A[q] = "compaction"
      BY <2>1, <1>1 DEF Obs
  <2>2. CASE A[q] = "preview" /\ \E m \in (q + 1)..u: A[m] = "preview"
    <3>1. PICK m \in (q + 1)..u: A[m] = "preview"
        BY <2>2
    <3>2. m \in 1..Len(A) /\ m \in (q + 1)..v
        BY <1>2, <1>3
    <3>3. A2[q] = "preview" /\ A2[m] = "preview"
        BY <3>1, <3>2, <2>2, <1>1
    <3>4. QED
        BY <3>2, <3>3 DEF Obs
  <2>3. QED
      BY <2>1, <2>2, <1>3 DEF Obs
<1>4. QED
    BY <1>1, <1>2, <1>3

(* The newest ticket joins behind everything.                              *)
LEMMA NewestLast ==
  ASSUME NEW A \in Seq(Kind), NEW L, NEW W, NEW B, Typed(Len(A), L, W, B),
         NEW L2, NEW W2, NEW B2, NEW k \in Kind, NEW A2, A2 = Append(A, k),
         NEW new, new.kind = k, Elements(new.of) = {Len(A) + 1}, Increasing(new.of),
         OneJoins(Len(A) + 1, L, W, B, L2, W2, B2, new)
  PROVE  InvariantsKept(A, L, W, B, A2, L2, W2, B2)
<1>1. /\ Len(A) \in Nat /\ Len(A2) = Len(A) + 1 /\ A2[Len(A) + 1] = k
      /\ \A q \in 1..Len(A): A2[q] = A[q]
    BY ObsGrows
<1>2. \A e: Held(L, W, B, e) => Elements(e.of) \subseteq 1..Len(A)
    BY HeldTyped
<1>3. \A e, f: Pre(L, W, B, e, f) => Held(L, W, B, e) /\ Held(L, W, B, f)
    BY PreHeld
<1>4. \A e: Held(L, W, B, e) => \A q \in Elements(e.of): q < Len(A) + 1
    BY <1>1, <1>2
<1>9. \A e: Held(L2, W2, B2, e) <=> Held(L, W, B, e) \/ e = new
    BY DEF OneJoins
<1>10. \A e, f: Pre(L2, W2, B2, e, f) => Pre(L, W, B, e, f) \/ (Held(L, W, B, e) /\ f = new)
    BY DEF OneJoins
<1>5. ASSUME StreamOK(A, L, W, B) PROVE StreamOK(A2, L2, W2, B2)
  <2>1. ASSUME NEW e, Held(L2, W2, B2, e)
        PROVE  Increasing(e.of) /\ \A q \in Elements(e.of): A2[q] = e.kind
    <3>1. CASE Held(L, W, B, e)
        BY <3>1, <1>1, <1>2, <1>5 DEF StreamOK
    <3>2. CASE e = new
        BY <3>2, <1>1
    <3>3. QED
        BY <2>1, <3>1, <3>2, <1>9
  <2>2. ASSUME NEW e, NEW f, Pre(L2, W2, B2, e, f), e.kind = f.kind,
               NEW p \in Elements(e.of), NEW q \in Elements(f.of)
        PROVE  p < q
    <3>1. CASE Pre(L, W, B, e, f)
        BY <3>1, <2>2, <1>5 DEF StreamOK
    <3>2. CASE Held(L, W, B, e) /\ f = new
        BY <3>2, <1>4
    <3>3. QED
        BY <2>2, <3>1, <3>2, <1>10
  <2>3. QED
      BY <2>1, <2>2 DEF StreamOK
<1>6. ASSUME OrderOK(L, W, B) PROVE OrderOK(L2, W2, B2)
  <2>1. SUFFICES ASSUME NEW e, NEW f, Pre(L2, W2, B2, e, f),
                        NEW p \in Elements(e.of), NEW q \in Elements(f.of), p > q
                 PROVE  {e.kind, f.kind} \cap Single = {} /\ Twins(e.kind, f.kind)
      BY DEF OrderOK
  <2>2. CASE Pre(L, W, B, e, f)
      BY <2>1, <2>2, <1>6 DEF OrderOK
  <2>3. CASE Held(L, W, B, e) /\ f = new
    <3>1. q = Len(A) + 1 /\ p \in 1..Len(A)
        BY <2>3, <1>2
    <3>2. QED
        BY <3>1, <2>1, <1>1
  <2>4. QED
      BY <2>1, <2>2, <2>3, <1>10
<1>7. ASSUME Complete(A, L, W, B) PROVE Complete(A2, L2, W2, B2)
  <2>1. SUFFICES ASSUME NEW q \in 1..(Len(A) + 1)
                 PROVE  Obs(A2, q, Len(A2)) \/ \E e: Held(L2, W2, B2, e) /\ q \in Elements(e.of)
      BY <1>1 DEF Complete
  <2>2. CASE q = Len(A) + 1
      BY <2>2, <1>9
  <2>3. CASE q \in 1..Len(A)
    <3>1. CASE Obs(A, q, Len(A))
      <4>1. Len(A) \in 0..Len(A) /\ Len(A2) \in Nat /\ Len(A) <= Len(A2)
          BY <1>1
      <4>2. Obs(A2, q, Len(A2))
          BY <2>3, <3>1, <4>1, ObsGrows
      <4>3. QED
          BY <4>2
    <3>2. CASE \E e: Held(L, W, B, e) /\ q \in Elements(e.of)
        BY <3>2, <1>9
    <3>3. QED
        BY <2>3, <3>1, <3>2, <1>7 DEF Complete
  <2>4. QED
      BY <2>1, <2>2, <2>3, <1>1
<1>8. QED
    BY <1>5, <1>6, <1>7 DEF InvariantsKept

(* The newest ticket joins the last entry of its stream.                   *)
LEMMA NewestMerged ==
  ASSUME NEW A \in Seq(Kind), NEW L, NEW W, NEW B, Typed(Len(A), L, W, B),
         NEW B2, NEW k \in Stream, NEW A2, A2 = Append(A, k), NEW x \in 1..Len(B),
         MergesAt(B, k, Len(A) + 1, x, B2)
  PROVE  Typed(Len(A) + 1, L, W, B2) /\ InvariantsKept(A, L, W, B, A2, L, W, B2)
<1>0. PICK n, o, d: n = Len(A) /\ o = B[x] /\ d = MergeBuffered(o, n + 1)
    OBVIOUS
<1>1. /\ n \in Nat /\ Len(A2) = n + 1 /\ A2[n + 1] = k
      /\ \A q \in 1..n: A2[q] = A[q]
    BY <1>0, KindFacts, ObsGrows
<1>2. Typed(n + 1, L, W, B) /\ B \in Seq(EntryOf(Stream, n)) /\ B \in Seq(EntryOf(Stream, n + 1))
    BY <1>0, <1>1, TypedGrows DEF Typed
<1>3. o \in EntryOf(Stream, n) /\ o.kind = k
    BY <1>0, <1>2, ElementOfSeq DEF MergesAt
<1>4. /\ d \in EntryOf(Stream, n + 1) /\ d.kind = k
      /\ Elements(d.of) \subseteq Elements(o.of) \cup {n + 1} /\ n + 1 \in Elements(d.of)
      /\ k # "preview" => Elements(o.of) \subseteq Elements(d.of)
      /\ Increasing(o.of) => Increasing(d.of)
  <2>1. MergeKeeps(k, n, o, d)
      BY <1>0, <1>1, <1>3, MergeFacts
  <2>2. QED
      BY <2>1 DEF MergeKeeps
<1>5. B2 = [j \in 1..Len(B) |-> IF j = x THEN d ELSE B[j]]
    BY <1>0 DEF MergesAt
<1>6. B2 \in Seq(EntryOf(Stream, n + 1)) /\ Len(B2) = Len(B)
  <2>1. \A j \in 1..Len(B): B[j] \in EntryOf(Stream, n + 1)
      BY <1>2, ElementOfSeq
  <2>2. B2 \in [1..Len(B) -> EntryOf(Stream, n + 1)] /\ Len(B) \in Nat
      BY <2>1, <1>2, <1>4, <1>5, LenProperties
  <2>3. B2 \in Seq(EntryOf(Stream, n + 1))
      BY <2>2, SeqDef
  <2>4. DOMAIN B2 = 1..Len(B2) /\ Len(B2) \in Nat /\ DOMAIN B2 = 1..Len(B)
      BY <2>2, <2>3, LenProperties
  <2>5. Len(B2) = Len(B)
      BY <2>2, <2>4
  <2>6. QED
      BY <2>3, <2>5
<1>7. \A j \in 1..Len(B): B2[j] = IF j = x THEN d ELSE B[j]
    BY <1>5
<1>8. /\ Typed(n + 1, L, W, B2)
      /\ Held(L, W, B, o) /\ Held(L, W, B2, d)
      /\ \A e: Held(L, W, B2, e) => Held(L, W, B, e) \/ e = d
      /\ \A e: Held(L, W, B, e) => Held(L, W, B2, e) \/ e = o
      /\ \A e, f: Pre(L, W, B2, e, f) =>
           \/ Pre(L, W, B, e, f)
           \/ f = d /\ Pre(L, W, B, e, o)
           \/ e = d /\ Pre(L, W, B, o, f) /\ \E j \in 1..Len(B): j > x /\ f = B[j]
  <2>1. MergedPlaces(n + 1, L, W, B, x, d, B2)
      BY <1>2, <1>4, <1>6, <1>7, DeltaMerged
  <2>2. QED
      BY <2>1, <1>0 DEF MergedPlaces
<1>9. \A e: Held(L, W, B, e) => Elements(e.of) \subseteq 1..n
    BY <1>0, HeldTyped
<1>10. \A e, f: Pre(L, W, B, e, f) => Held(L, W, B, e) /\ Held(L, W, B, f)
    BY PreHeld
<1>11. ASSUME NEW e, Held(L, W, B, e), NEW q \in Elements(e.of) PROVE q < n + 1
  <2>1. q \in 1..n
      BY <1>9, <1>11
  <2>2. QED
      BY <2>1, <1>1
<1>12. ASSUME NEW f, \E j \in 1..Len(B): j > x /\ f = B[j]
       PROVE  Twins(f.kind, k) /\ f.kind # k /\ f.kind \in Stream
  <2>1. PICK j \in 1..Len(B): j > x /\ f = B[j]
      BY <1>12
  <2>2. f \in EntryOf(Stream, n)
      BY <2>1, <1>2, ElementOfSeq
  <2>3. QED
      BY <2>1, <2>2, EntryFacts DEF MergesAt
<1>13. ASSUME StreamOK(A, L, W, B) PROVE StreamOK(A2, L, W, B2)
  <2>1. ASSUME NEW e, Held(L, W, B2, e)
        PROVE  Increasing(e.of) /\ \A q \in Elements(e.of): A2[q] = e.kind
    <3>1. CASE Held(L, W, B, e)
        BY <3>1, <1>1, <1>9, <1>13 DEF StreamOK
    <3>2. CASE e = d
      <4>1. Increasing(o.of) /\ \A q \in Elements(o.of): A[q] = k /\ q \in 1..n
          BY <1>3, <1>8, <1>9, <1>13 DEF StreamOK
      <4>2. Increasing(d.of)
          BY <4>1, <1>4
      <4>3. \A q \in Elements(d.of): A2[q] = k
          BY <4>1, <1>1, <1>4
      <4>4. QED
          BY <3>2, <4>2, <4>3, <1>4
    <3>3. QED
        BY <2>1, <3>1, <3>2, <1>8
  <2>2. ASSUME NEW e, NEW f, Pre(L, W, B2, e, f), e.kind = f.kind,
               NEW p \in Elements(e.of), NEW q \in Elements(f.of)
        PROVE  p < q
    <3>1. CASE Pre(L, W, B, e, f)
        BY <3>1, <2>2, <1>13 DEF StreamOK
    <3>2. CASE f = d /\ Pre(L, W, B, e, o)
      <4>1. Held(L, W, B, e) /\ e.kind = o.kind
          BY <3>2, <2>2, <1>3, <1>4, <1>10
      <4>2. CASE q = n + 1
          BY <4>1, <4>2, <1>11
      <4>3. CASE q \in Elements(o.of)
          BY <4>1, <4>3, <3>2, <1>13 DEF StreamOK
      <4>4. QED
          BY <3>2, <4>2, <4>3, <1>4
    <3>3. CASE e = d /\ Pre(L, W, B, o, f) /\ \E j \in 1..Len(B): j > x /\ f = B[j]
        BY <3>3, <2>2, <1>4, <1>12
    <3>4. QED
        BY <2>2, <3>1, <3>2, <3>3, <1>8
  <2>3. QED
      BY <2>1, <2>2 DEF StreamOK
<1>14. ASSUME OrderOK(L, W, B) PROVE OrderOK(L, W, B2)
  <2>1. SUFFICES ASSUME NEW e, NEW f, Pre(L, W, B2, e, f),
                        NEW p \in Elements(e.of), NEW q \in Elements(f.of), p > q
                 PROVE  {e.kind, f.kind} \cap Single = {} /\ Twins(e.kind, f.kind)
      BY DEF OrderOK
  <2>2. CASE Pre(L, W, B, e, f)
      BY <2>1, <2>2, <1>14 DEF OrderOK
  <2>3. CASE f = d /\ Pre(L, W, B, e, o)
    <3>1. p \in 1..n
        BY <2>3, <1>9, <1>10
    <3>2. q \in Elements(o.of)
        BY <2>1, <2>3, <3>1, <1>1, <1>4
    <3>3. {e.kind, o.kind} \cap Single = {} /\ Twins(e.kind, o.kind)
        BY <2>1, <2>3, <3>2, <1>14 DEF OrderOK
    <3>4. QED
        BY <2>3, <3>3, <1>3, <1>4
  <2>4. CASE e = d /\ Pre(L, W, B, o, f) /\ \E j \in 1..Len(B): j > x /\ f = B[j]
    <3>1. Twins(f.kind, k) /\ f.kind \in Stream /\ e.kind = k
        BY <2>4, <1>4, <1>12
    <3>2. Twins(k, f.kind)
        BY <3>1 DEF Twins
    <3>3. {k, f.kind} \cap Single = {}
        BY <3>1, KindFacts
    <3>4. QED
        BY <3>1, <3>2, <3>3
  <2>5. QED
      BY <2>1, <2>2, <2>3, <2>4, <1>8
<1>15. ASSUME Complete(A, L, W, B), StreamOK(A, L, W, B) PROVE Complete(A2, L, W, B2)
  <2>1. SUFFICES ASSUME NEW q \in 1..(n + 1)
                 PROVE  Obs(A2, q, Len(A2)) \/ \E e: Held(L, W, B2, e) /\ q \in Elements(e.of)
      BY <1>0, <1>1 DEF Complete
  <2>2. CASE q = n + 1
      BY <2>2, <1>4, <1>8
  <2>3. CASE q \in 1..n
    <3>1. CASE Obs(A, q, n)
      <4>1. n \in 0..n /\ Len(A2) \in Nat /\ n <= Len(A2)
          BY <1>1
      <4>2. Obs(A2, q, Len(A2))
          BY <2>3, <3>1, <4>1, <1>0, KindFacts, ObsGrows
      <4>3. QED
          BY <4>2
    <3>2. CASE \E e: Held(L, W, B, e) /\ q \in Elements(e.of)
      <4>1. PICK e: Held(L, W, B, e) /\ q \in Elements(e.of)
          BY <3>2
      <4>2. CASE Held(L, W, B2, e)
          BY <4>1, <4>2
      <4>3. CASE e = o /\ k # "preview"
          BY <4>1, <4>3, <1>4, <1>8
      <4>4. CASE e = o /\ k = "preview"
        <5>1. A[q] = "preview"
            BY <4>1, <4>4, <1>3, <1>15 DEF StreamOK
        <5>2. A2[q] = "preview" /\ A2[n + 1] = "preview" /\ n + 1 \in (q + 1)..Len(A2)
            BY <5>1, <4>4, <2>3, <1>1
        <5>3. QED
            BY <5>2 DEF Obs
      <4>5. QED
          BY <4>1, <4>2, <4>3, <4>4, <1>8
    <3>3. QED
        BY <2>3, <3>1, <3>2, <1>0, <1>15 DEF Complete
  <2>4. QED
      BY <2>1, <2>2, <2>3, <1>1
<1>16. QED
    BY <1>0, <1>8, <1>13, <1>14, <1>15 DEF InvariantsKept

-----------------------------------------------------------------------------
(* The steps of one thread.                                                *)

NonEmpty(W) == \A i \in 1..Len(W): W[i].entries # <<>> \/ W[i].event # NoEntry

DeltaStep(A, L, W, B, A2, L2, W2, B2) ==
  \E k \in Stream: A2 = Append(A, k) /\ L2 = L /\ W2 = W /\ B2 = EnqueueDelta(B, k, Len(A) + 1)
EventStep(A, L, W, B, A2, L2, W2, B2) ==
  \E k \in Single: /\ A2 = Append(A, k) /\ L2 = L /\ B2 = <<>>
                   /\ W2 = Append(W, [entries |-> B, event |-> Entry(k, Len(A) + 1)])
TakeStep(A, L, W, B, A2, L2, W2, B2) ==
  A2 = A /\ L2 = L /\ B # <<>> /\ B2 = <<>> /\ W2 = Append(W, [entries |-> B, event |-> NoEntry])
StoreStep(A, L, W, B, A2, L2, W2, B2) ==
  A2 = A /\ W # <<>> /\ L2 = L \o Contents(W[1]) /\ W2 = Tail(W) /\ B2 = B
SplitStep(A, L, W, B, A2, L2, W2, B2) == A2 = A /\ B2 = B /\ Splits(L, W, L2, W2)
DropStep(A, L, W, B, A2, L2, W2, B2) == A2 = A /\ L2 = L /\ W # <<>> /\ W2 = Tail(W) /\ B2 = B
SkipStep(A, L, W, B, A2, L2, W2, B2) ==
  /\ DropStep(A, L, W, B, A2, L2, W2, B2)
  /\ W[1].entries = <<>> /\ W[1].event.kind = "compaction"
StayStep(A, L, W, B, A2, L2, W2, B2) == A2 = A /\ L2 = L /\ W2 = W /\ B2 = B

(* A thread and what a step may make of it.                                *)
ThreadType(A, L, W, B) == A \in Seq(Kind) /\ Typed(Len(A), L, W, B) /\ NonEmpty(W)
ThreadOK(A, L, W, B) == StreamOK(A, L, W, B) /\ OrderOK(L, W, B)

LEMMA NonEmptyAppend ==
  ASSUME NEW n, NEW W \in Seq(Operation(n)), NEW op \in Operation(n), NonEmpty(W),
         op.entries # <<>> \/ op.event # NoEntry
  PROVE  NonEmpty(Append(W, op))
<1>1. /\ Len(Append(W, op)) = Len(W) + 1
      /\ \A i \in 1..Len(W): Append(W, op)[i] = W[i]
      /\ Append(W, op)[Len(W) + 1] = op
      /\ Len(W) \in Nat
    BY AppendProperties, LenProperties
<1>2. QED
    BY <1>1 DEF NonEmpty

LEMMA NonEmptyTail ==
  ASSUME NEW n, NEW W \in Seq(Operation(n)), W # <<>>, NonEmpty(W)
  PROVE  NonEmpty(Tail(W))
<1>1. PICK V: V = Tail(W)
    OBVIOUS
<1>2. /\ Len(V) = Len(W) - 1 /\ \A i \in 1..Len(V): V[i] = W[i + 1]
      /\ Len(W) \in Nat \ {0}
    BY <1>1, HeadTailProperties, EmptySeq
<1>3. ASSUME NEW i \in 1..Len(V) PROVE V[i].entries # <<>> \/ V[i].event # NoEntry
  <2>1. i + 1 \in 1..Len(W) /\ V[i] = W[i + 1]
      BY <1>2
  <2>2. QED
      BY <2>1 DEF NonEmpty
<1>4. QED
    BY <1>1, <1>3 DEF NonEmpty

LEMMA StayKeeps ==
  ASSUME NEW A, NEW L, NEW W, NEW B, ThreadType(A, L, W, B),
         NEW A2, NEW L2, NEW W2, NEW B2, StayStep(A, L, W, B, A2, L2, W2, B2)
  PROVE  /\ ThreadType(A2, L2, W2, B2)
         /\ ThreadOK(A, L, W, B) => ThreadOK(A2, L2, W2, B2)
         /\ ThreadOK(A, L, W, B) /\ Complete(A, L, W, B) => Complete(A2, L2, W2, B2)
  BY DEF StayStep

LEMMA DeltaKeeps ==
  ASSUME NEW A, NEW L, NEW W, NEW B, ThreadType(A, L, W, B),
         NEW A2, NEW L2, NEW W2, NEW B2, DeltaStep(A, L, W, B, A2, L2, W2, B2)
  PROVE  /\ ThreadType(A2, L2, W2, B2)
         /\ ThreadOK(A, L, W, B) => ThreadOK(A2, L2, W2, B2)
         /\ ThreadOK(A, L, W, B) /\ Complete(A, L, W, B) => Complete(A2, L2, W2, B2)
<1>1. PICK k \in Stream: A2 = Append(A, k) /\ L2 = L /\ W2 = W /\ B2 = EnqueueDelta(B, k, Len(A) + 1)
    BY DEF DeltaStep
<1>2. k \in Kind /\ A \in Seq(Kind) /\ Typed(Len(A), L, W, B) /\ NonEmpty(W)
    BY KindFacts DEF ThreadType
<1>3. A2 \in Seq(Kind) /\ Len(A) \in Nat /\ Len(A2) = Len(A) + 1
    BY <1>1, <1>2, ObsGrows
<1>4. Typed(Len(A) + 1, L, W, B) /\ B \in Seq(EntryOf(Stream, Len(A)))
    BY <1>2, <1>3, TypedGrows DEF Typed
<1>5. CASE B2 = Append(B, Entry(k, Len(A) + 1))
  <2>1. PICK new: new = Entry(k, Len(A) + 1)
      OBVIOUS
  <2>2. /\ new \in EntryOf(Stream, Len(A) + 1) /\ new.kind = k
        /\ Elements(new.of) = {Len(A) + 1} /\ Increasing(new.of)
      BY <1>3, <2>1, NewEntry
  <2>3. B2 = Append(B, new)
      BY <1>5, <2>1
  <2>4. OneJoins(Len(A) + 1, L, W, B, L, W, B2, new)
      BY <1>4, <2>2, <2>3, DeltaAppended
  <2>5. InvariantsKept(A, L, W, B, A2, L, W, B2)
      BY <1>1, <1>2, <2>2, <2>4, NewestLast
  <2>6. QED
      BY <1>1, <1>2, <1>3, <2>4, <2>5 DEF ThreadType, ThreadOK, OneJoins, InvariantsKept
<1>6. CASE \E x \in 1..Len(B): MergesAt(B, k, Len(A) + 1, x, B2)
  <2>1. PICK x \in 1..Len(B): MergesAt(B, k, Len(A) + 1, x, B2)
      BY <1>6
  <2>2. Typed(Len(A) + 1, L, W, B2) /\ InvariantsKept(A, L, W, B, A2, L, W, B2)
      BY <1>1, <1>2, <2>1, NewestMerged
  <2>3. QED
      BY <1>1, <1>2, <1>3, <2>2 DEF ThreadType, ThreadOK, InvariantsKept
<1>7. QED
    BY <1>1, <1>3, <1>4, <1>5, <1>6, EnqueueCases

LEMMA EventKeeps ==
  ASSUME NEW A, NEW L, NEW W, NEW B, ThreadType(A, L, W, B),
         NEW A2, NEW L2, NEW W2, NEW B2, EventStep(A, L, W, B, A2, L2, W2, B2)
  PROVE  /\ ThreadType(A2, L2, W2, B2)
         /\ ThreadOK(A, L, W, B) => ThreadOK(A2, L2, W2, B2)
         /\ ThreadOK(A, L, W, B) /\ Complete(A, L, W, B) => Complete(A2, L2, W2, B2)
<1>1. PICK k \in Single: /\ A2 = Append(A, k) /\ L2 = L /\ B2 = <<>>
                         /\ W2 = Append(W, [entries |-> B, event |-> Entry(k, Len(A) + 1)])
    BY DEF EventStep
<1>2. k \in Kind /\ A \in Seq(Kind) /\ Typed(Len(A), L, W, B) /\ NonEmpty(W)
    BY KindFacts DEF ThreadType
<1>3. A2 \in Seq(Kind) /\ Len(A) \in Nat /\ Len(A2) = Len(A) + 1
    BY <1>1, <1>2, ObsGrows
<1>4. Typed(Len(A) + 1, L, W, B)
    BY <1>2, <1>3, TypedGrows
<1>5. PICK new: new = Entry(k, Len(A) + 1)
    OBVIOUS
<1>6. /\ new \in EntryOf(Single, Len(A) + 1) /\ new.kind = k
      /\ Elements(new.of) = {Len(A) + 1} /\ Increasing(new.of)
    BY <1>3, <1>5, NewEntry
<1>7. PICK op: op = [entries |-> B, event |-> new]
    OBVIOUS
<1>8. W2 = Append(W, [entries |-> B, event |-> new])
    BY <1>1, <1>5
<1>9. OneJoins(Len(A) + 1, L, W, B, L, W2, <<>>, new)
    BY <1>4, <1>6, <1>8, EventTaken
<1>10. InvariantsKept(A, L, W, B, A2, L, W2, <<>>)
    BY <1>1, <1>2, <1>6, <1>9, NewestLast
<1>11. NonEmpty(W2)
  <2>1. new # NoEntry
      BY <1>6, NoEntryIsNone
  <2>2. op \in Operation(Len(A) + 1) /\ op.event = new
      BY <1>4, <1>6, <1>7 DEF Operation, Typed
  <2>3. W \in Seq(Operation(Len(A) + 1)) /\ W2 = Append(W, op)
      BY <1>4, <1>7, <1>8 DEF Typed
  <2>4. QED
      BY <1>2, <2>1, <2>2, <2>3, NonEmptyAppend
<1>12. QED
    BY <1>1, <1>3, <1>9, <1>10, <1>11 DEF ThreadType, ThreadOK, OneJoins, InvariantsKept

LEMMA TakeKeeps ==
  ASSUME NEW A, NEW L, NEW W, NEW B, ThreadType(A, L, W, B),
         NEW A2, NEW L2, NEW W2, NEW B2, TakeStep(A, L, W, B, A2, L2, W2, B2)
  PROVE  /\ ThreadType(A2, L2, W2, B2)
         /\ ThreadOK(A, L, W, B) => ThreadOK(A2, L2, W2, B2)
         /\ ThreadOK(A, L, W, B) /\ Complete(A, L, W, B) => Complete(A2, L2, W2, B2)
<1>1. /\ A2 = A /\ L2 = L /\ B # <<>> /\ B2 = <<>>
      /\ W2 = Append(W, [entries |-> B, event |-> NoEntry])
    BY DEF TakeStep
<1>2. A \in Seq(Kind) /\ Typed(Len(A), L, W, B) /\ NonEmpty(W)
    BY DEF ThreadType
<1>0. SameJournal(Len(A), L, W, B, L, W2, <<>>)
    BY <1>1, <1>2, BatchTaken
<1>3. /\ Typed(Len(A), L, W2, <<>>)
      /\ \A e: Held(L, W2, <<>>, e) <=> Held(L, W, B, e)
      /\ \A e, f: Pre(L, W2, <<>>, e, f) => Pre(L, W, B, e, f)
    BY <1>0 DEF SameJournal
<1>4. /\ StreamOK(A, L, W, B) => StreamOK(A, L, W2, <<>>)
      /\ OrderOK(L, W, B) => OrderOK(L, W2, <<>>)
    BY <1>3, MovedOnly
<1>5. Complete(A, L, W, B) => Complete(A, L, W2, <<>>)
    BY <1>3, CompleteMoved
<1>6. NonEmpty(W2)
  <2>1. PICK op: op = [entries |-> B, event |-> NoEntry]
      OBVIOUS
  <2>2. op \in Operation(Len(A)) /\ op.entries # <<>>
      BY <1>1, <1>2, <2>1 DEF Operation, Typed
  <2>3. W \in Seq(Operation(Len(A))) /\ W2 = Append(W, op)
      BY <1>1, <1>2, <2>1 DEF Typed
  <2>4. QED
      BY <1>2, <2>2, <2>3, NonEmptyAppend
<1>7. QED
    BY <1>1, <1>2, <1>3, <1>4, <1>5, <1>6 DEF ThreadType, ThreadOK

LEMMA StoreKeeps ==
  ASSUME NEW A, NEW L, NEW W, NEW B, ThreadType(A, L, W, B),
         NEW A2, NEW L2, NEW W2, NEW B2, StoreStep(A, L, W, B, A2, L2, W2, B2)
  PROVE  /\ ThreadType(A2, L2, W2, B2)
         /\ ThreadOK(A, L, W, B) => ThreadOK(A2, L2, W2, B2)
         /\ ThreadOK(A, L, W, B) /\ Complete(A, L, W, B) => Complete(A2, L2, W2, B2)
<1>1. A2 = A /\ W # <<>> /\ L2 = L \o Contents(W[1]) /\ W2 = Tail(W) /\ B2 = B
    BY DEF StoreStep
<1>2. A \in Seq(Kind) /\ Typed(Len(A), L, W, B) /\ NonEmpty(W)
    BY DEF ThreadType
<1>0. SameJournal(Len(A), L, W, B, L2, W2, B)
    BY <1>1, <1>2, HeadStored
<1>3. /\ Typed(Len(A), L2, W2, B)
      /\ \A e: Held(L2, W2, B, e) <=> Held(L, W, B, e)
      /\ \A e, f: Pre(L2, W2, B, e, f) => Pre(L, W, B, e, f)
    BY <1>0 DEF SameJournal
<1>4. /\ StreamOK(A, L, W, B) => StreamOK(A, L2, W2, B)
      /\ OrderOK(L, W, B) => OrderOK(L2, W2, B)
    BY <1>3, MovedOnly
<1>5. Complete(A, L, W, B) => Complete(A, L2, W2, B)
    BY <1>3, CompleteMoved
<1>6. NonEmpty(W2)
    BY <1>1, <1>2, NonEmptyTail DEF Typed
<1>7. QED
    BY <1>1, <1>2, <1>3, <1>4, <1>5, <1>6 DEF ThreadType, ThreadOK

LEMMA SplitStepKeeps ==
  ASSUME NEW A, NEW L, NEW W, NEW B, ThreadType(A, L, W, B),
         NEW A2, NEW L2, NEW W2, NEW B2, SplitStep(A, L, W, B, A2, L2, W2, B2)
  PROVE  /\ ThreadType(A2, L2, W2, B2) /\ Len(W2) = Len(W)
         /\ ThreadOK(A, L, W, B) => ThreadOK(A2, L2, W2, B2)
         /\ ThreadOK(A, L, W, B) /\ Complete(A, L, W, B) => Complete(A2, L2, W2, B2)
<1>1. /\ A2 = A /\ W # <<>> /\ W[1].event # NoEntry /\ L2 = L \o W[1].entries /\ B2 = B
      /\ W2 = [W EXCEPT ![1] = [entries |-> <<>>, event |-> W[1].event]]
    BY DEF SplitStep, Splits
<1>2. A \in Seq(Kind) /\ Typed(Len(A), L, W, B) /\ NonEmpty(W)
    BY DEF ThreadType
<1>0. SameJournal(Len(A), L, W, B, L2, W2, B) /\ Len(W2) = Len(W)
    BY <1>2, HeadSplit DEF SplitStep
<1>3. /\ Typed(Len(A), L2, W2, B) /\ Len(W2) = Len(W)
      /\ \A e: Held(L2, W2, B, e) <=> Held(L, W, B, e)
      /\ \A e, f: Pre(L2, W2, B, e, f) => Pre(L, W, B, e, f)
    BY <1>0 DEF SameJournal
<1>4. /\ StreamOK(A, L, W, B) => StreamOK(A, L2, W2, B)
      /\ OrderOK(L, W, B) => OrderOK(L2, W2, B)
    BY <1>3, MovedOnly
<1>5. Complete(A, L, W, B) => Complete(A, L2, W2, B)
    BY <1>3, CompleteMoved
<1>6. NonEmpty(W2)
  <2>1. Len(W) \in Nat /\ W \in Seq(Operation(Len(A)))
      BY <1>2, LenProperties DEF Typed
  <2>2. DOMAIN W = 1..Len(W)
      BY <2>1, LenProperties
  <2>3. ASSUME NEW i \in 1..Len(W2) PROVE W2[i].entries # <<>> \/ W2[i].event # NoEntry
    <3>1. CASE i = 1
      <4>1. W2[i] = [entries |-> <<>>, event |-> W[1].event]
          BY <3>1, <2>2, <2>3, <1>1, <1>3
      <4>2. QED
          BY <4>1, <1>1
    <3>2. CASE i # 1
      <4>1. W2[i] = W[i]
          BY <3>2, <2>2, <2>3, <1>1, <1>3
      <4>2. QED
          BY <4>1, <2>3, <1>2, <1>3 DEF NonEmpty
    <3>3. QED
        BY <3>1, <3>2
  <2>4. QED
      BY <2>3 DEF NonEmpty
<1>7. QED
    BY <1>1, <1>2, <1>3, <1>4, <1>5, <1>6 DEF ThreadType, ThreadOK

LEMMA DropKeeps ==
  ASSUME NEW A, NEW L, NEW W, NEW B, ThreadType(A, L, W, B),
         NEW A2, NEW L2, NEW W2, NEW B2, DropStep(A, L, W, B, A2, L2, W2, B2)
  PROVE  /\ ThreadType(A2, L2, W2, B2)
         /\ ThreadOK(A, L, W, B) => ThreadOK(A2, L2, W2, B2)
<1>1. A2 = A /\ W # <<>> /\ L2 = L /\ W2 = Tail(W) /\ B2 = B
    BY DEF DropStep
<1>2. A \in Seq(Kind) /\ Typed(Len(A), L, W, B) /\ NonEmpty(W)
    BY DEF ThreadType
<1>3. /\ Typed(Len(A), L, W2, B)
      /\ \A e: Held(L, W2, B, e) => Held(L, W, B, e)
      /\ \A e, f: Pre(L, W2, B, e, f) => Pre(L, W, B, e, f)
    BY <1>1, <1>2, HeadDropped
<1>4. /\ StreamOK(A, L, W, B) => StreamOK(A, L, W2, B)
      /\ OrderOK(L, W, B) => OrderOK(L, W2, B)
    BY <1>3, MovedOnly
<1>5. NonEmpty(W2)
    BY <1>1, <1>2, NonEmptyTail DEF Typed
<1>6. QED
    BY <1>1, <1>2, <1>3, <1>4, <1>5 DEF ThreadType, ThreadOK

(* The one event of a dropped compaction is obsolete.                      *)
LEMMA SkipLoses ==
  ASSUME NEW A, NEW L, NEW W, NEW B, ThreadType(A, L, W, B), StreamOK(A, L, W, B),
         NEW A2, NEW L2, NEW W2, NEW B2, SkipStep(A, L, W, B, A2, L2, W2, B2)
  PROVE  /\ \A e: \A a \in Nat: Front(L, W, B, a, e) =>
              Front(L, W2, B, Down(a), e) \/ \A q \in Elements(e.of): A[q] = "compaction"
<1>1. /\ W # <<>> /\ L2 = L /\ W2 = Tail(W) /\ B2 = B
      /\ W[1].entries = <<>> /\ W[1].event.kind = "compaction"
    BY DEF SkipStep, DropStep
<1>2. A \in Seq(Kind) /\ Typed(Len(A), L, W, B) /\ NonEmpty(W)
    BY DEF ThreadType
<1>3. \A e: \A a \in Nat: Front(L, W, B, a, e) =>
        Front(L, W2, B, Down(a), e) \/ e \in Elements(Contents(W[1]))
    BY <1>1, <1>2, HeadDropped
<1>4. Elements(Contents(W[1])) \subseteq {W[1].event}
  <2>1. CASE W[1].event = NoEntry
    <3>1. Contents(W[1]) = <<>>
        BY <1>1, <2>1 DEF Contents
    <3>2. Elements(<<>>) = {}
        BY DEF Elements
    <3>3. QED
        BY <3>1, <3>2
  <2>2. CASE W[1].event # NoEntry
    <3>1. Contents(W[1]) = <<W[1].event>>
        BY <1>1, <2>2 DEF Contents
    <3>2. QED
        BY <3>1, ElementsOne
  <2>3. QED
      BY <2>1, <2>2
<1>5. ASSUME NEW e, NEW a \in Nat, Front(L, W, B, a, e), e \in Elements(Contents(W[1]))
      PROVE  \A q \in Elements(e.of): A[q] = "compaction"
  <2>1. Held(L, W, B, e)
      BY <1>2, <1>5, FrontIsHeld
  <2>2. e.kind = "compaction"
      BY <1>1, <1>4, <1>5
  <2>3. QED
      BY <2>1, <2>2 DEF StreamOK
<1>6. QED
    BY <1>3, <1>5

LEMMA SkipKeeps ==
  ASSUME NEW A, NEW L, NEW W, NEW B, ThreadType(A, L, W, B), StreamOK(A, L, W, B), Complete(A, L, W, B),
         NEW A2, NEW L2, NEW W2, NEW B2, SkipStep(A, L, W, B, A2, L2, W2, B2)
  PROVE  Complete(A2, L2, W2, B2)
<1>1. A2 = A /\ L2 = L /\ B2 = B /\ W2 = Tail(W) /\ W # <<>>
    BY DEF SkipStep, DropStep
<1>2. Typed(Len(A), L, W, B) /\ Len(W) + 1 \in Nat
    BY SegTyped DEF ThreadType
<1>3. Typed(Len(A), L, W2, B)
    BY <1>1, <1>2, HeadDropped
<1>4. ASSUME NEW q \in 1..Len(A)
      PROVE  Obs(A, q, Len(A)) \/ \E e: Held(L, W2, B, e) /\ q \in Elements(e.of)
  <2>1. CASE Obs(A, q, Len(A))
      BY <2>1
  <2>2. CASE \E e: Held(L, W, B, e) /\ q \in Elements(e.of)
    <3>1. PICK e: Held(L, W, B, e) /\ q \in Elements(e.of)
        BY <2>2
    <3>2. Front(L, W, B, Len(W) + 1, e)
        BY <3>1, <1>2, FrontIsHeld
    <3>3. Front(L, W2, B, Down(Len(W) + 1), e) \/ \A p \in Elements(e.of): A[p] = "compaction"
        BY <3>2, <1>2, SkipLoses
    <3>4. CASE Front(L, W2, B, Down(Len(W) + 1), e)
        BY <3>1, <3>4, <1>3, FrontIsHeld
    <3>5. CASE \A p \in Elements(e.of): A[p] = "compaction"
        BY <3>1, <3>5 DEF Obs
    <3>6. QED
        BY <3>3, <3>4, <3>5
  <2>3. QED
      BY <2>1, <2>2 DEF Complete
<1>5. QED
    BY <1>1, <1>4 DEF Complete

-----------------------------------------------------------------------------
(* What a flush was promised.                                              *)

LEMMA FrontOfSegments ==
  ASSUME NEW L, NEW W, NEW B, NEW L2, NEW W2, NEW B2, NEW m \in Nat, m <= Len(W), m <= Len(W2),
         Len(W) \in Nat, Len(W2) \in Nat,
         SameSegments(L, W, B, L2, W2, B2, m), NEW a \in 0..m, NEW e, Front(L, W, B, a, e)
  PROVE  Front(L2, W2, B2, a, e)
<1>1. PICK s, i \in Nat: InSeg(L, W, B, s, i) /\ s <= a /\ e = Seg(L, W, B, s)[i]
    BY DEF Front
<1>2. s \in 0..m
    BY <1>1
<1>3. Seg(L2, W2, B2, s) = Seg(L, W, B, s)
    BY <1>2 DEF SameSegments
<1>4. InSeg(L2, W2, B2, s, i)
    BY <1>1, <1>2, <1>3 DEF InSeg
<1>5. QED
    BY <1>1, <1>3, <1>4 DEF Front

(* A step behind the chain leaves the chain alone.                         *)
PushStep(A, L, W, B, A2, L2, W2, B2) ==
  \/ DeltaStep(A, L, W, B, A2, L2, W2, B2) \/ EventStep(A, L, W, B, A2, L2, W2, B2)
  \/ TakeStep(A, L, W, B, A2, L2, W2, B2) \/ StayStep(A, L, W, B, A2, L2, W2, B2)
PopStep(A, L, W, B, A2, L2, W2, B2) ==
  StoreStep(A, L, W, B, A2, L2, W2, B2) \/ SkipStep(A, L, W, B, A2, L2, W2, B2)

LEMMA PushSegments ==
  ASSUME NEW A, NEW L, NEW W, NEW B, ThreadType(A, L, W, B),
         NEW A2, NEW L2, NEW W2, NEW B2, PushStep(A, L, W, B, A2, L2, W2, B2)
  PROVE  /\ SameSegments(L, W, B, L2, W2, B2, Len(W)) /\ L2 = L
         /\ Len(W) \in Nat /\ Len(W2) \in Nat /\ Len(W) <= Len(W2)
         /\ A2 = A \/ \E k \in Kind: A2 = Append(A, k)
<1>1. A \in Seq(Kind) /\ Typed(Len(A), L, W, B) /\ Len(W) \in Nat
    BY SegTyped DEF ThreadType
<1>2. CASE DeltaStep(A, L, W, B, A2, L2, W2, B2)
  <2>1. L2 = L /\ W2 = W /\ \E k \in Kind: A2 = Append(A, k)
      BY <1>2, KindFacts DEF DeltaStep
  <2>2. SameSegments(L, W, B, L, W, B2, Len(W))
      BY <1>1 DEF SameSegments, Seg
  <2>3. QED
      BY <2>1, <2>2, <1>1
<1>3. CASE EventStep(A, L, W, B, A2, L2, W2, B2)
  <2>1. PICK k \in Single: /\ A2 = Append(A, k) /\ L2 = L /\ B2 = <<>>
                           /\ W2 = Append(W, [entries |-> B, event |-> Entry(k, Len(A) + 1)])
      BY <1>3 DEF EventStep
  <2>2. PICK new: new = Entry(k, Len(A) + 1)
      OBVIOUS
  <2>3. Typed(Len(A) + 1, L, W, B) /\ Len(A) \in Nat
      BY <1>1, TypedGrows, LenProperties
  <2>4. new \in EntryOf(Single, Len(A) + 1)
      BY <2>2, <2>3, NewEntry
  <2>5. W2 = Append(W, [entries |-> B, event |-> new])
      BY <2>1, <2>2
  <2>6. SameSegments(L, W, B, L, W2, <<>>, Len(W))
      BY <2>3, <2>4, <2>5, EventTaken
  <2>7. Len(W2) = Len(W) + 1
      BY <2>3, <2>4, <2>5, EventTaken
  <2>8. k \in Kind
      BY KindFacts
  <2>9. QED
      BY <2>1, <2>6, <2>7, <2>8, <1>1
<1>4. CASE TakeStep(A, L, W, B, A2, L2, W2, B2)
  <2>1. A2 = A /\ L2 = L /\ B2 = <<>> /\ W2 = Append(W, [entries |-> B, event |-> NoEntry])
      BY <1>4 DEF TakeStep
  <2>2. SameSegments(L, W, B, L, W2, <<>>, Len(W) + 1)
      BY <1>1, <2>1, BatchTaken
  <2>3. Len(W2) = Len(W) + 1
      BY <1>1, <2>1, BatchTaken
  <2>4. SameSegments(L, W, B, L, W2, <<>>, Len(W))
      BY <1>1, <2>2 DEF SameSegments
  <2>5. QED
      BY <2>1, <2>3, <2>4, <1>1
<1>5. CASE StayStep(A, L, W, B, A2, L2, W2, B2)
    BY <1>1, <1>5 DEF StayStep, SameSegments
<1>6. QED
    BY <1>2, <1>3, <1>4, <1>5 DEF PushStep

LEMMA PushPromised ==
  ASSUME NEW A, NEW L, NEW W, NEW B, ThreadType(A, L, W, B),
         NEW A2, NEW L2, NEW W2, NEW B2, PushStep(A, L, W, B, A2, L2, W2, B2),
         NEW a \in 0..Len(W), NEW u \in 0..Len(A), Promised(A, L, W, B, a, u)
  PROVE  Promised(A2, L2, W2, B2, a, u)
<1>1. /\ SameSegments(L, W, B, L2, W2, B2, Len(W))
      /\ Len(W) \in Nat /\ Len(W2) \in Nat /\ Len(W) <= Len(W2)
      /\ A2 = A \/ \E k \in Kind: A2 = Append(A, k)
    BY PushSegments
<1>2. \A e: Front(L, W, B, a, e) => Front(L2, W2, B2, a, e)
    BY <1>1, FrontOfSegments
<1>3. A \in Seq(Kind) /\ Len(A) \in Nat
    BY LenProperties DEF ThreadType
<1>4. \A q \in 1..u: Obs(A, q, u) => Obs(A2, q, u)
  <2>1. SUFFICES ASSUME NEW q \in 1..u, Obs(A, q, u) PROVE Obs(A2, q, u)
      OBVIOUS
  <2>2. CASE A2 = A
      BY <2>1, <2>2
  <2>3. CASE \E k \in Kind: A2 = Append(A, k)
    <3>1. PICK k \in Kind: A2 = Append(A, k)
        BY <2>3
    <3>2. q \in 1..Len(A) /\ u \in Nat /\ u <= u
        BY <1>3
    <3>3. QED
        BY <2>1, <3>1, <3>2, <1>3, ObsGrows
  <2>4. QED
      BY <2>2, <2>3, <1>1
<1>5. QED
    BY <1>2, <1>4 DEF Promised

LEMMA PopPromised ==
  ASSUME NEW A, NEW L, NEW W, NEW B, ThreadType(A, L, W, B), StreamOK(A, L, W, B),
         NEW A2, NEW L2, NEW W2, NEW B2, PopStep(A, L, W, B, A2, L2, W2, B2),
         NEW a \in Nat, NEW u \in 0..Len(A), Promised(A, L, W, B, a, u)
  PROVE  Promised(A2, L2, W2, B2, Down(a), u)
<1>1. CASE StoreStep(A, L, W, B, A2, L2, W2, B2)
  <2>1. A2 = A /\ W # <<>> /\ L2 = L \o Contents(W[1]) /\ W2 = Tail(W) /\ B2 = B
      BY <1>1 DEF StoreStep
  <2>2. FrontDown(L, W, B, L2, W2, B)
      BY <2>1, HeadStored DEF ThreadType
  <2>3. QED
      BY <2>1, <2>2 DEF Promised, FrontDown
<1>2. CASE SkipStep(A, L, W, B, A2, L2, W2, B2)
  <2>1. A2 = A /\ L2 = L /\ W2 = Tail(W) /\ B2 = B
      BY <1>2 DEF SkipStep, DropStep
  <2>2. \A e: Front(L, W, B, a, e) =>
          Front(L, W2, B, Down(a), e) \/ \A q \in Elements(e.of): A[q] = "compaction"
      BY <1>2, SkipLoses
  <2>3. \A q \in 1..u: Obs(A, q, u) \/ \E e: Front(L, W2, B, Down(a), e) /\ q \in Elements(e.of)
      BY <2>2 DEF Promised, Obs
  <2>4. QED
      BY <2>1, <2>3 DEF Promised
<1>3. QED
    BY <1>1, <1>2 DEF PopStep

LEMMA SplitPromised ==
  ASSUME NEW A, NEW L, NEW W, NEW B, ThreadType(A, L, W, B),
         NEW A2, NEW L2, NEW W2, NEW B2, SplitStep(A, L, W, B, A2, L2, W2, B2),
         NEW a \in Nat, NEW u, Promised(A, L, W, B, a, u)
  PROVE  Promised(A2, L2, W2, B2, a, u)
<1>1. A2 = A /\ B2 = B /\ Splits(L, W, L2, W2) /\ Typed(Len(A), L, W, B)
    BY DEF SplitStep, ThreadType
<1>2. FrontStays(L, W, B, L2, W2, B)
    BY <1>1, HeadSplit
<1>3. QED
    BY <1>1, <1>2 DEF Promised, FrontStays

(* What is stored stays stored, whatever is dropped.                       *)
LEMMA DropPromised ==
  ASSUME NEW A, NEW L, NEW W, NEW B, ThreadType(A, L, W, B),
         NEW A2, NEW L2, NEW W2, NEW B2, DropStep(A, L, W, B, A2, L2, W2, B2),
         NEW u, Promised(A, L, W, B, 0, u)
  PROVE  Promised(A2, L2, W2, B2, 0, u)
<1>1. A2 = A /\ L2 = L /\ W2 = Tail(W) /\ B2 = B /\ W # <<>> /\ Typed(Len(A), L, W, B)
    BY DEF DropStep, ThreadType
<1>2. Typed(Len(A), L, W2, B)
    BY <1>1, HeadDropped
<1>3. \A e: Front(L, W, B, 0, e) <=> \E i \in 1..Len(L): e = L[i]
    BY <1>1, FrontIsHeld
<1>4. \A e: Front(L, W2, B, 0, e) <=> \E i \in 1..Len(L): e = L[i]
    BY <1>2, FrontIsHeld
<1>5. QED
    BY <1>1, <1>3, <1>4 DEF Promised

(* When a flush starts, everything accepted is stored or obsolete or in    *)
(* the chain it waits for.                                                 *)
LEMMA StartPromised ==
  ASSUME NEW A, NEW L, NEW W, NEW B, ThreadType(A, L, W, B), Complete(A, L, W, B), B = <<>>
  PROVE  Promised(A, L, W, B, Len(W), Len(A))
<1>1. Typed(Len(A), L, W, B)
    BY DEF ThreadType
<1>2. \A e: Held(L, W, B, e) => Front(L, W, B, Len(W), e)
    BY <1>1, FrontIsHeld
<1>3. QED
    BY <1>2 DEF Complete, Promised

LEMMA PromisedLater ==
  ASSUME NEW A, NEW L, NEW W, NEW B, NEW a \in Nat, NEW b \in Nat, a <= b, NEW u,
         Promised(A, L, W, B, a, u)
  PROVE  Promised(A, L, W, B, b, u)
<1>1. ASSUME NEW e, Front(L, W, B, a, e) PROVE Front(L, W, B, b, e)
  <2>1. PICK s, i \in Nat: InSeg(L, W, B, s, i) /\ s <= a /\ e = Seg(L, W, B, s)[i]
      BY <1>1 DEF Front
  <2>2. s <= b
      BY <2>1
  <2>3. QED
      BY <2>1, <2>2 DEF Front
<1>2. QED
    BY <1>1 DEF Promised

-----------------------------------------------------------------------------
(* The invariant of a thread with the state F of its flush, the tickets u  *)
(* of its last one, and fl for failed.                                     *)

Stages == {"none", "own", "queue", "done"}
FlushRecord(w, n) == [stage: Stages, ahead: 0..w, upto: 0..n, deletes: BOOLEAN]

Lowered(F) == [stage |-> F.stage, ahead |-> Down(F.ahead), upto |-> F.upto, deletes |-> F.deletes]

FlushOK(A, L, W, B, F, u, fl) ==
  /\ Promised(A, L, W, B, 0, u)
  /\ ~fl /\ F.stage \in {"own", "queue"} => Promised(A, L, W, B, F.ahead, F.upto)

ThreadInv(A, L, W, B, F, u, fl) ==
  /\ ThreadType(A, L, W, B) /\ F \in FlushRecord(Len(W), Len(A)) /\ u \in 0..Len(A)
  /\ ThreadOK(A, L, W, B)
  /\ ~fl => Complete(A, L, W, B)
  /\ FlushOK(A, L, W, B, F, u, fl)

LEMMA FlushFields ==
  ASSUME NEW w, NEW n, NEW F \in FlushRecord(w, n)
  PROVE  /\ F.stage \in Stages /\ F.ahead \in 0..w /\ F.upto \in 0..n /\ F.deletes \in BOOLEAN
         /\ F = [stage |-> F.stage, ahead |-> F.ahead, upto |-> F.upto, deletes |-> F.deletes]
  BY DEF FlushRecord

LEMMA FlushGrows ==
  ASSUME NEW w \in Nat, NEW n \in Nat, NEW F \in FlushRecord(w, n),
         NEW w2 \in Nat, NEW n2 \in Nat, w <= w2, n <= n2
  PROVE  F \in FlushRecord(w2, n2)
<1>1. /\ F.stage \in Stages /\ F.ahead \in 0..w /\ F.upto \in 0..n /\ F.deletes \in BOOLEAN
      /\ F = [stage |-> F.stage, ahead |-> F.ahead, upto |-> F.upto, deletes |-> F.deletes]
    BY FlushFields
<1>2. F.ahead \in 0..w2 /\ F.upto \in 0..n2
    BY <1>1
<1>3. QED
    BY <1>1, <1>2 DEF FlushRecord

LEMMA FlushLowers ==
  ASSUME NEW w \in Nat \ {0}, NEW n, NEW F \in FlushRecord(w, n)
  PROVE  /\ Lowered(F) \in FlushRecord(w - 1, n)
         /\ Lowered(F).stage = F.stage /\ Lowered(F).ahead = Down(F.ahead) /\ Lowered(F).upto = F.upto
<1>1. F.stage \in Stages /\ F.ahead \in 0..w /\ F.upto \in 0..n /\ F.deletes \in BOOLEAN
    BY FlushFields
<1>2. Down(F.ahead) \in 0..(w - 1)
    BY <1>1 DEF Down
<1>3. Lowered(F) \in FlushRecord(w - 1, n)
    BY <1>1, <1>2 DEF FlushRecord, Lowered
<1>4. QED
    BY <1>3 DEF Lowered

LEMMA ThreadLengths ==
  ASSUME NEW A, NEW L, NEW W, NEW B, ThreadType(A, L, W, B)
  PROVE  Len(A) \in Nat /\ Len(W) \in Nat /\ Len(L) \in Nat /\ A \in Seq(Kind)
  BY SegTyped, LenProperties DEF ThreadType

LEMMA PushKeeps ==
  ASSUME NEW A, NEW L, NEW W, NEW B, ThreadType(A, L, W, B),
         NEW A2, NEW L2, NEW W2, NEW B2, PushStep(A, L, W, B, A2, L2, W2, B2)
  PROVE  /\ ThreadType(A2, L2, W2, B2)
         /\ ThreadOK(A, L, W, B) => ThreadOK(A2, L2, W2, B2)
         /\ ThreadOK(A, L, W, B) /\ Complete(A, L, W, B) => Complete(A2, L2, W2, B2)
         /\ Len(A) <= Len(A2)
<1>1. /\ ThreadType(A2, L2, W2, B2)
      /\ ThreadOK(A, L, W, B) => ThreadOK(A2, L2, W2, B2)
      /\ ThreadOK(A, L, W, B) /\ Complete(A, L, W, B) => Complete(A2, L2, W2, B2)
    BY StayKeeps, DeltaKeeps, EventKeeps, TakeKeeps DEF PushStep
<1>2. A2 = A \/ \E k \in Kind: A2 = Append(A, k)
    BY PushSegments
<1>3. Len(A) \in Nat /\ A \in Seq(Kind)
    BY ThreadLengths
<1>4. Len(A) <= Len(A2)
    BY <1>2, <1>3, ObsGrows
<1>5. QED
    BY <1>1, <1>4

LEMMA InvPushed ==
  ASSUME NEW A, NEW L, NEW W, NEW B, NEW F, NEW u, NEW fl, ThreadInv(A, L, W, B, F, u, fl),
         NEW A2, NEW L2, NEW W2, NEW B2, PushStep(A, L, W, B, A2, L2, W2, B2),
         NEW fl2, fl => fl2
  PROVE  ThreadInv(A2, L2, W2, B2, F, u, fl2)
<1>1. /\ ThreadType(A, L, W, B) /\ F \in FlushRecord(Len(W), Len(A)) /\ u \in 0..Len(A)
      /\ ThreadOK(A, L, W, B) /\ (~fl => Complete(A, L, W, B)) /\ FlushOK(A, L, W, B, F, u, fl)
    BY DEF ThreadInv
<1>2. /\ ThreadType(A2, L2, W2, B2) /\ ThreadOK(A2, L2, W2, B2)
      /\ ~fl2 => Complete(A2, L2, W2, B2)
      /\ Len(A) <= Len(A2)
    BY <1>1, PushKeeps
<1>3. Len(W) \in Nat /\ Len(W2) \in Nat /\ Len(W) <= Len(W2)
    BY <1>1, PushSegments
<1>4. Len(A) \in Nat /\ Len(A2) \in Nat
    BY <1>1, <1>2, ThreadLengths
<1>5. F \in FlushRecord(Len(W2), Len(A2)) /\ u \in 0..Len(A2)
    BY <1>1, <1>2, <1>3, <1>4, FlushGrows
<1>6. F.ahead \in 0..Len(W) /\ F.upto \in 0..Len(A) /\ 0 \in 0..Len(W)
    BY <1>1, <1>3, FlushFields
<1>7. Promised(A2, L2, W2, B2, 0, u)
    BY <1>1, <1>6, PushPromised DEF FlushOK
<1>8. ~fl2 /\ F.stage \in {"own", "queue"} => Promised(A2, L2, W2, B2, F.ahead, F.upto)
    BY <1>1, <1>6, PushPromised DEF FlushOK
<1>9. QED
    BY <1>2, <1>5, <1>7, <1>8 DEF ThreadInv, FlushOK

LEMMA InvPopped ==
  ASSUME NEW A, NEW L, NEW W, NEW B, NEW F, NEW u, NEW fl, ThreadInv(A, L, W, B, F, u, fl),
         NEW A2, NEW L2, NEW W2, NEW B2, PopStep(A, L, W, B, A2, L2, W2, B2)
  PROVE  ThreadInv(A2, L2, W2, B2, Lowered(F), u, fl)
<1>1. /\ ThreadType(A, L, W, B) /\ F \in FlushRecord(Len(W), Len(A)) /\ u \in 0..Len(A)
      /\ ThreadOK(A, L, W, B) /\ (~fl => Complete(A, L, W, B)) /\ FlushOK(A, L, W, B, F, u, fl)
    BY DEF ThreadInv
<1>2. A2 = A /\ W # <<>> /\ W2 = Tail(W)
    BY DEF PopStep, StoreStep, SkipStep, DropStep
<1>3. W \in Seq(Operation(Len(A))) /\ StreamOK(A, L, W, B)
    BY <1>1 DEF ThreadType, Typed, ThreadOK
<1>4. Len(W2) = Len(W) - 1 /\ Len(W) \in Nat \ {0}
    BY <1>2, <1>3, HeadTailProperties, EmptySeq
<1>5. /\ ThreadType(A2, L2, W2, B2) /\ ThreadOK(A2, L2, W2, B2)
      /\ ~fl => Complete(A2, L2, W2, B2)
  <2>1. CASE StoreStep(A, L, W, B, A2, L2, W2, B2)
      BY <2>1, <1>1, StoreKeeps
  <2>2. CASE SkipStep(A, L, W, B, A2, L2, W2, B2)
    <3>1. ThreadType(A2, L2, W2, B2) /\ ThreadOK(A2, L2, W2, B2)
        BY <2>2, <1>1, DropKeeps DEF SkipStep
    <3>2. Complete(A, L, W, B) => Complete(A2, L2, W2, B2)
        BY <2>2, <1>1, <1>3, SkipKeeps
    <3>3. QED
        BY <3>1, <3>2, <1>1
  <2>3. QED
      BY <2>1, <2>2 DEF PopStep
<1>6. /\ Lowered(F) \in FlushRecord(Len(W2), Len(A2))
      /\ Lowered(F).stage = F.stage /\ Lowered(F).ahead = Down(F.ahead) /\ Lowered(F).upto = F.upto
    BY <1>1, <1>2, <1>4, FlushLowers
<1>7. F.ahead \in 0..Len(W) /\ F.upto \in 0..Len(A)
    BY <1>1, FlushFields
<1>8. F.ahead \in Nat /\ 0 \in Nat /\ Down(0) = 0
    BY <1>7, <1>4 DEF Down
<1>9. Promised(A2, L2, W2, B2, 0, u)
  <2>1. Promised(A, L, W, B, 0, u)
      BY <1>1 DEF FlushOK
  <2>2. Promised(A2, L2, W2, B2, Down(0), u)
      BY <2>1, <1>1, <1>3, <1>8, PopPromised
  <2>3. QED
      BY <2>2, <1>8
<1>10. ~fl /\ F.stage \in {"own", "queue"} => Promised(A2, L2, W2, B2, Down(F.ahead), F.upto)
    BY <1>1, <1>3, <1>7, <1>8, PopPromised DEF FlushOK
<1>11. FlushOK(A2, L2, W2, B2, Lowered(F), u, fl)
    BY <1>6, <1>9, <1>10 DEF FlushOK
<1>12. QED
    BY <1>1, <1>2, <1>5, <1>6, <1>11 DEF ThreadInv

LEMMA InvSplit ==
  ASSUME NEW A, NEW L, NEW W, NEW B, NEW F, NEW u, NEW fl, ThreadInv(A, L, W, B, F, u, fl),
         NEW A2, NEW L2, NEW W2, NEW B2, SplitStep(A, L, W, B, A2, L2, W2, B2)
  PROVE  ThreadInv(A2, L2, W2, B2, F, u, fl)
<1>1. /\ ThreadType(A, L, W, B) /\ F \in FlushRecord(Len(W), Len(A)) /\ u \in 0..Len(A)
      /\ ThreadOK(A, L, W, B) /\ (~fl => Complete(A, L, W, B)) /\ FlushOK(A, L, W, B, F, u, fl)
    BY DEF ThreadInv
<1>2. A2 = A
    BY DEF SplitStep
<1>3. /\ ThreadType(A2, L2, W2, B2) /\ ThreadOK(A2, L2, W2, B2)
      /\ ~fl => Complete(A2, L2, W2, B2)
      /\ Len(W2) = Len(W)
    BY <1>1, SplitStepKeeps
<1>4. F.ahead \in 0..Len(W) /\ Len(W) \in Nat
    BY <1>1, FlushFields, ThreadLengths
<1>5. F.ahead \in Nat /\ 0 \in Nat
    BY <1>4
<1>6. Promised(A2, L2, W2, B2, 0, u)
    BY <1>1, <1>5, SplitPromised DEF FlushOK
<1>7. ~fl /\ F.stage \in {"own", "queue"} => Promised(A2, L2, W2, B2, F.ahead, F.upto)
    BY <1>1, <1>5, SplitPromised DEF FlushOK
<1>8. QED
    BY <1>1, <1>2, <1>3, <1>6, <1>7 DEF ThreadInv, FlushOK

(* A refused write: the writer has failed and promises no more.            *)
LEMMA InvDropped ==
  ASSUME NEW A, NEW L, NEW W, NEW B, NEW F, NEW u, NEW fl, ThreadInv(A, L, W, B, F, u, fl),
         NEW A2, NEW L2, NEW W2, NEW B2, DropStep(A, L, W, B, A2, L2, W2, B2)
  PROVE  ThreadInv(A2, L2, W2, B2, Lowered(F), u, TRUE)
<1>1. /\ ThreadType(A, L, W, B) /\ F \in FlushRecord(Len(W), Len(A)) /\ u \in 0..Len(A)
      /\ ThreadOK(A, L, W, B) /\ FlushOK(A, L, W, B, F, u, fl)
    BY DEF ThreadInv
<1>2. A2 = A /\ W # <<>> /\ W2 = Tail(W)
    BY DEF DropStep
<1>3. W \in Seq(Operation(Len(A)))
    BY <1>1 DEF ThreadType, Typed
<1>4. Len(W2) = Len(W) - 1 /\ Len(W) \in Nat \ {0}
    BY <1>2, <1>3, HeadTailProperties, EmptySeq
<1>5. ThreadType(A2, L2, W2, B2) /\ ThreadOK(A2, L2, W2, B2)
    BY <1>1, DropKeeps
<1>6. Lowered(F) \in FlushRecord(Len(W2), Len(A2))
    BY <1>1, <1>2, <1>4, FlushLowers
<1>7. Promised(A2, L2, W2, B2, 0, u)
    BY <1>1, DropPromised DEF FlushOK
<1>8. QED
    BY <1>1, <1>2, <1>5, <1>6, <1>7 DEF ThreadInv, FlushOK

(* A flush starts: what was buffered is in the chain by now.               *)
LEMMA InvFlushStarts ==
  ASSUME NEW A, NEW L, NEW W, NEW B, NEW F, NEW u, ThreadInv(A, L, W, B, F, u, FALSE), B = <<>>,
         NEW s \in {"own", "queue"}, NEW x \in BOOLEAN,
         NEW G, G = [stage |-> s, ahead |-> Len(W), upto |-> Len(A), deletes |-> x]
  PROVE  ThreadInv(A, L, W, B, G, u, FALSE)
<1>1. /\ ThreadType(A, L, W, B) /\ u \in 0..Len(A)
      /\ ThreadOK(A, L, W, B) /\ Complete(A, L, W, B) /\ FlushOK(A, L, W, B, F, u, FALSE)
    BY DEF ThreadInv
<1>2. Len(A) \in Nat /\ Len(W) \in Nat
    BY <1>1, ThreadLengths
<1>3. G \in FlushRecord(Len(W), Len(A)) /\ G.ahead = Len(W) /\ G.upto = Len(A)
    BY <1>2 DEF FlushRecord, Stages
<1>4. Promised(A, L, W, B, Len(W), Len(A))
    BY <1>1, StartPromised
<1>5. FlushOK(A, L, W, B, G, u, FALSE)
    BY <1>1, <1>3, <1>4 DEF FlushOK
<1>6. QED
    BY <1>1, <1>3, <1>5 DEF ThreadInv

(* Its own write is through and it waits for the rest of the chain.        *)
LEMMA InvFlushWaits ==
  ASSUME NEW A, NEW L, NEW W, NEW B, NEW F, NEW u, NEW fl, ThreadInv(A, L, W, B, F, u, fl),
         F.stage = "own", F.ahead = 0,
         NEW G, G = [stage |-> "queue", ahead |-> Len(W), upto |-> F.upto, deletes |-> F.deletes]
  PROVE  ThreadInv(A, L, W, B, G, u, fl)
<1>1. /\ ThreadType(A, L, W, B) /\ F \in FlushRecord(Len(W), Len(A)) /\ u \in 0..Len(A)
      /\ ThreadOK(A, L, W, B) /\ (~fl => Complete(A, L, W, B)) /\ FlushOK(A, L, W, B, F, u, fl)
    BY DEF ThreadInv
<1>2. Len(A) \in Nat /\ Len(W) \in Nat
    BY <1>1, ThreadLengths
<1>3. F.upto \in 0..Len(A) /\ F.deletes \in BOOLEAN
    BY <1>1, FlushFields
<1>4. G \in FlushRecord(Len(W), Len(A)) /\ G.ahead = Len(W) /\ G.upto = F.upto
    BY <1>2, <1>3 DEF FlushRecord, Stages
<1>5. ~fl => Promised(A, L, W, B, 0, F.upto)
    BY <1>1 DEF FlushOK
<1>6. ~fl => Promised(A, L, W, B, Len(W), F.upto)
    BY <1>2, <1>5, PromisedLater
<1>7. FlushOK(A, L, W, B, G, u, fl)
    BY <1>1, <1>4, <1>6 DEF FlushOK
<1>8. QED
    BY <1>1, <1>4, <1>7 DEF ThreadInv

(* It returns, and unless the writer has failed its promise is kept.       *)
LEMMA InvFlushEnds ==
  ASSUME NEW A, NEW L, NEW W, NEW B, NEW F, NEW u, NEW fl, ThreadInv(A, L, W, B, F, u, fl),
         NEW G \in FlushRecord(Len(W), Len(A)), G.stage \in {"none", "done"},
         NEW v, v = u \/ (~fl /\ F.stage = "queue" /\ F.ahead = 0 /\ v = F.upto)
  PROVE  ThreadInv(A, L, W, B, G, v, fl)
<1>1. /\ ThreadType(A, L, W, B) /\ F \in FlushRecord(Len(W), Len(A)) /\ u \in 0..Len(A)
      /\ ThreadOK(A, L, W, B) /\ (~fl => Complete(A, L, W, B)) /\ FlushOK(A, L, W, B, F, u, fl)
    BY DEF ThreadInv
<1>2. F.upto \in 0..Len(A)
    BY <1>1, FlushFields
<1>3. v \in 0..Len(A)
    BY <1>1, <1>2
<1>4. Promised(A, L, W, B, 0, v)
    BY <1>1 DEF FlushOK
<1>5. QED
    BY <1>1, <1>3, <1>4 DEF ThreadInv, FlushOK

-----------------------------------------------------------------------------
(* The inductive invariant.                                                *)

Shape ==
  /\ accepted \in [Thread -> Seq(Kind)]
  /\ DOMAIN batch = Thread /\ DOMAIN writes = Thread /\ DOMAIN log = Thread
  /\ DOMAIN flush = Thread /\ DOMAIN flushed = Thread
  /\ failed \in BOOLEAN /\ deleted \subseteq Thread
  /\ flushes \in 0..MaxFlushes /\ faults \in 0..MaxFaults

WriterInv ==
  /\ Shape
  /\ \A t \in Thread: ThreadInv(accepted[t], log[t], writes[t], batch[t], flush[t], flushed[t], failed)

LEMMA BoundsAreNumbers == MaxAppends \in Nat /\ MaxFlushes \in Nat /\ MaxFaults \in Nat
  BY WriterBounds

LEMMA InvParts ==
  ASSUME WriterInv, NEW t \in Thread
  PROVE  /\ ThreadInv(accepted[t], log[t], writes[t], batch[t], flush[t], flushed[t], failed)
         /\ ThreadType(accepted[t], log[t], writes[t], batch[t])
         /\ flush[t] \in FlushRecord(Len(writes[t]), Len(accepted[t]))
         /\ flushed[t] \in 0..Len(accepted[t])
         /\ accepted[t] \in Seq(Kind) /\ writes[t] \in Seq(Operation(Len(accepted[t])))
         /\ NonEmpty(writes[t])
  BY DEF WriterInv, ThreadInv, ThreadType, Typed

(* A thread an action does not touch.                                      *)
LEMMA InvUntouched ==
  ASSUME WriterInv, NEW t \in Thread,
         accepted'[t] = accepted[t], log'[t] = log[t], writes'[t] = writes[t], batch'[t] = batch[t],
         flush'[t] = flush[t], flushed'[t] = flushed[t], failed => failed'
  PROVE  ThreadInv(accepted'[t], log'[t], writes'[t], batch'[t], flush'[t], flushed'[t], failed')
<1>1. PushStep(accepted[t], log[t], writes[t], batch[t], accepted'[t], log'[t], writes'[t], batch'[t])
    BY DEF PushStep, StayStep
<1>2. QED
    BY <1>1, InvParts, InvPushed

LEMMA InitInv == Init => WriterInv
<1> SUFFICES ASSUME Init PROVE WriterInv
    OBVIOUS
<1>1. Shape
  <2>1. accepted \in [Thread -> Seq(Kind)]
      BY EmptySeq DEF Init
  <2>2. flushes \in 0..MaxFlushes /\ faults \in 0..MaxFaults
      BY BoundsAreNumbers DEF Init
  <2>3. /\ DOMAIN batch = Thread /\ DOMAIN writes = Thread /\ DOMAIN log = Thread
        /\ DOMAIN flush = Thread /\ DOMAIN flushed = Thread
      BY DEF Init
  <2>4. failed \in BOOLEAN /\ deleted \subseteq Thread
      BY DEF Init
  <2>5. QED
      BY <2>1, <2>2, <2>3, <2>4 DEF Shape
<1>2. ASSUME NEW t \in Thread
      PROVE  ThreadInv(accepted[t], log[t], writes[t], batch[t], flush[t], flushed[t], failed)
  <2>1. PICK E: E = <<>>
      OBVIOUS
  <2>2. Len(E) = 0 /\ \A S: E \in Seq(S)
      BY <2>1, EmptySeq
  <2>3. /\ accepted[t] = E /\ log[t] = E /\ writes[t] = E /\ batch[t] = E
        /\ flush[t] = NoFlush /\ flushed[t] = 0 /\ failed = FALSE
      BY <2>1 DEF Init
  <2>4. ThreadType(E, E, E, E)
      BY <2>2 DEF ThreadType, Typed, NonEmpty
  <2>5. ASSUME NEW e PROVE ~Held(E, E, E, e)
    <3>1. \A s \in Nat: Seg(E, E, E, s) = E
        BY <2>2 DEF Seg
    <3>2. QED
        BY <3>1, <2>2 DEF Held, InSeg
  <2>6. ThreadOK(E, E, E, E)
      BY <2>5, PreHeld DEF ThreadOK, StreamOK, OrderOK
  <2>7. Complete(E, E, E, E)
      BY <2>2 DEF Complete
  <2>8. NoFlush \in FlushRecord(0, 0) /\ NoFlush.stage = "none"
      BY DEF NoFlush, FlushRecord, Stages
  <2>9. FlushOK(E, E, E, E, NoFlush, 0, FALSE)
      BY <2>8 DEF FlushOK, Promised
  <2>10. ThreadInv(E, E, E, E, NoFlush, 0, FALSE)
    <3>1. NoFlush \in FlushRecord(Len(E), Len(E)) /\ 0 \in 0..Len(E)
        BY <2>2, <2>8
    <3>2. QED
        BY <3>1, <2>4, <2>6, <2>7, <2>9 DEF ThreadInv
  <2>11. QED
      BY <2>3, <2>10
<1>3. QED
    BY <1>1, <1>2 DEF WriterInv

-----------------------------------------------------------------------------
(* The actions.                                                            *)

LEMMA AppendDeltaStep == ASSUME WriterInv, AppendDelta PROVE WriterInv'
<1>1. PICK t \in Streaming, k \in Stream:
        /\ accepted' = [accepted EXCEPT ![t] = Append(@, k)]
        /\ batch' = [batch EXCEPT ![t] = EnqueueDelta(@, k, Ticket(t))]
        /\ UNCHANGED <<writes, log, failed, flush, flushed, deleted, flushes, faults>>
    BY DEF AppendDelta, Accept
<1>2. t \in Thread /\ k \in Kind
    BY WriterBounds, KindFacts
<1>3. /\ accepted'[t] = Append(accepted[t], k)
      /\ batch'[t] = EnqueueDelta(batch[t], k, Len(accepted[t]) + 1)
      /\ \A s \in Thread \ {t}: accepted'[s] = accepted[s] /\ batch'[s] = batch[s]
    BY <1>1, <1>2 DEF WriterInv, Shape, Ticket
<1>4. Shape'
  <2>1. Append(accepted[t], k) \in Seq(Kind)
      BY <1>2, InvParts, AppendProperties
  <2>2. accepted' \in [Thread -> Seq(Kind)]
      BY <1>1, <1>2, <2>1 DEF WriterInv, Shape
  <2>3. QED
      BY <1>1, <2>2 DEF WriterInv, Shape
<1>5. ASSUME NEW s \in Thread
      PROVE  ThreadInv(accepted'[s], log'[s], writes'[s], batch'[s], flush'[s], flushed'[s], failed')
  <2>1. CASE s = t
    <3>1. DeltaStep(accepted[t], log[t], writes[t], batch[t], accepted'[t], log'[t], writes'[t], batch'[t])
        BY <1>1, <1>3 DEF DeltaStep
    <3>2. PushStep(accepted[t], log[t], writes[t], batch[t], accepted'[t], log'[t], writes'[t], batch'[t])
        BY <3>1 DEF PushStep
    <3>3. flush'[t] = flush[t] /\ flushed'[t] = flushed[t] /\ (failed => failed')
        BY <1>1
    <3>4. QED
        BY <2>1, <3>2, <3>3, <1>2, InvParts, InvPushed
  <2>2. CASE s # t
      BY <2>2, <1>1, <1>3, InvUntouched
  <2>3. QED
      BY <2>1, <2>2
<1>6. QED
    BY <1>4, <1>5 DEF WriterInv

(* takeBatch as the threads see it.                                        *)
LEMMA BatchIsTaken ==
  ASSUME WriterInv, NEW t \in Thread, NEW event, TakeBatch(t, event)
  PROVE  /\ batch'[t] = <<>> /\ writes'[t] = Append(writes[t], [entries |-> batch[t], event |-> event])
         /\ \A s \in Thread \ {t}: batch'[s] = batch[s] /\ writes'[s] = writes[s]
         /\ DOMAIN batch' = Thread /\ DOMAIN writes' = Thread
<1> DEFINE op == [entries |-> batch[t], event |-> event]
<1> HIDE DEF op
<1>1. batch' = [batch EXCEPT ![t] = <<>>] /\ writes' = [writes EXCEPT ![t] = Append(@, op)]
    BY DEF TakeBatch, op
<1>2. /\ batch'[t] = <<>> /\ writes'[t] = Append(writes[t], op)
      /\ \A s \in Thread \ {t}: batch'[s] = batch[s] /\ writes'[s] = writes[s]
      /\ DOMAIN batch' = Thread /\ DOMAIN writes' = Thread
    BY <1>1 DEF WriterInv, Shape
<1>3. QED
    BY <1>2 DEF op

LEMMA AppendEventStep == ASSUME WriterInv, AppendEvent PROVE WriterInv'
<1>1. PICK t \in Thread, k \in Single:
        /\ accepted' = [accepted EXCEPT ![t] = Append(@, k)]
        /\ TakeBatch(t, Entry(k, Ticket(t)))
        /\ UNCHANGED <<log, failed, flush, flushed, deleted, flushes, faults>>
    BY DEF AppendEvent, Accept
<1>2. k \in Kind
    BY KindFacts
<1>3. /\ accepted'[t] = Append(accepted[t], k)
      /\ \A s \in Thread \ {t}: accepted'[s] = accepted[s]
    BY <1>1 DEF WriterInv, Shape
<1>4. /\ batch'[t] = <<>>
      /\ writes'[t] = Append(writes[t], [entries |-> batch[t], event |-> Entry(k, Len(accepted[t]) + 1)])
      /\ \A s \in Thread \ {t}: batch'[s] = batch[s] /\ writes'[s] = writes[s]
      /\ DOMAIN batch' = Thread /\ DOMAIN writes' = Thread
    BY <1>1, BatchIsTaken DEF Ticket
<1>5. Shape'
  <2>1. Append(accepted[t], k) \in Seq(Kind)
      BY <1>2, InvParts, AppendProperties
  <2>2. accepted' \in [Thread -> Seq(Kind)]
      BY <1>1, <2>1 DEF WriterInv, Shape
  <2>3. DOMAIN batch' = Thread /\ DOMAIN writes' = Thread
      BY <1>4
  <2>4. QED
      BY <1>1, <2>2, <2>3 DEF WriterInv, Shape
<1>6. ASSUME NEW s \in Thread
      PROVE  ThreadInv(accepted'[s], log'[s], writes'[s], batch'[s], flush'[s], flushed'[s], failed')
  <2>1. CASE s = t
    <3>1. EventStep(accepted[t], log[t], writes[t], batch[t], accepted'[t], log'[t], writes'[t], batch'[t])
        BY <1>1, <1>3, <1>4 DEF EventStep
    <3>2. PushStep(accepted[t], log[t], writes[t], batch[t], accepted'[t], log'[t], writes'[t], batch'[t])
        BY <3>1 DEF PushStep
    <3>3. flush'[t] = flush[t] /\ flushed'[t] = flushed[t] /\ (failed => failed')
        BY <1>1
    <3>4. QED
        BY <2>1, <3>2, <3>3, InvParts, InvPushed
  <2>2. CASE s # t
    <3>1. accepted'[s] = accepted[s] /\ batch'[s] = batch[s] /\ writes'[s] = writes[s]
        BY <2>2, <1>3, <1>4
    <3>2. QED
        BY <3>1, <1>1, InvUntouched
  <2>3. QED
      BY <2>1, <2>2
<1>7. QED
    BY <1>5, <1>6 DEF WriterInv

LEMMA TimerFiresStep == ASSUME WriterInv, NEW t \in Thread, TimerFires(t) PROVE WriterInv'
<1>1. /\ batch[t] # <<>> /\ TakeBatch(t, NoEntry)
      /\ UNCHANGED <<accepted, log, failed, flush, flushed, deleted, flushes, faults>>
    BY DEF TimerFires
<1>2. /\ batch'[t] = <<>>
      /\ writes'[t] = Append(writes[t], [entries |-> batch[t], event |-> NoEntry])
      /\ \A s \in Thread \ {t}: batch'[s] = batch[s] /\ writes'[s] = writes[s]
      /\ DOMAIN batch' = Thread /\ DOMAIN writes' = Thread
    BY <1>1, BatchIsTaken
<1>3. Shape'
  <2>1. DOMAIN batch' = Thread /\ DOMAIN writes' = Thread
      BY <1>2
  <2>2. QED
      BY <1>1, <2>1 DEF WriterInv, Shape
<1>4. ASSUME NEW s \in Thread
      PROVE  ThreadInv(accepted'[s], log'[s], writes'[s], batch'[s], flush'[s], flushed'[s], failed')
  <2>1. CASE s = t
    <3>1. TakeStep(accepted[t], log[t], writes[t], batch[t], accepted'[t], log'[t], writes'[t], batch'[t])
        BY <1>1, <1>2 DEF TakeStep
    <3>2. PushStep(accepted[t], log[t], writes[t], batch[t], accepted'[t], log'[t], writes'[t], batch'[t])
        BY <3>1 DEF PushStep
    <3>3. flush'[t] = flush[t] /\ flushed'[t] = flushed[t] /\ (failed => failed')
        BY <1>1
    <3>4. QED
        BY <2>1, <3>2, <3>3, InvParts, InvPushed
  <2>2. CASE s # t
    <3>1. batch'[s] = batch[s] /\ writes'[s] = writes[s]
        BY <2>2, <1>2
    <3>2. QED
        BY <3>1, <1>1, InvUntouched
  <2>3. QED
      BY <2>1, <2>2
<1>5. QED
    BY <1>3, <1>4 DEF WriterInv

(* What a flush that starts makes of its thread: its batch is in the chain *)
(* and it waits for the whole of it.                                       *)
FlushBegins(t, x) ==
  /\ accepted'[t] = accepted[t] /\ log'[t] = log[t] /\ flushed'[t] = flushed[t]
  /\ batch'[t] = <<>>
  /\ writes'[t] = IF batch[t] # <<>> THEN Append(writes[t], [entries |-> batch[t], event |-> NoEntry])
                                     ELSE writes[t]
  /\ flush'[t] = Flushing(t, x)

LEMMA FlushBegun ==
  ASSUME WriterInv, NEW t \in Thread, NEW x \in BOOLEAN, ~failed, ~failed', FlushBegins(t, x)
  PROVE  ThreadInv(accepted'[t], log'[t], writes'[t], batch'[t], flush'[t], flushed'[t], failed')
<1>1. PushStep(accepted[t], log[t], writes[t], batch[t], accepted'[t], log'[t], writes'[t], batch'[t])
  <2>1. CASE batch[t] # <<>>
    <3>1. TakeStep(accepted[t], log[t], writes[t], batch[t], accepted'[t], log'[t], writes'[t], batch'[t])
        BY <2>1 DEF FlushBegins, TakeStep
    <3>2. QED
        BY <3>1 DEF PushStep
  <2>2. CASE batch[t] = <<>>
    <3>1. StayStep(accepted[t], log[t], writes[t], batch[t], accepted'[t], log'[t], writes'[t], batch'[t])
        BY <2>2 DEF FlushBegins, StayStep
    <3>2. QED
        BY <3>1 DEF PushStep
  <2>3. QED
      BY <2>1, <2>2
<1>2. ThreadInv(accepted[t], log[t], writes[t], batch[t], flush[t], flushed[t], failed)
    BY InvParts
<1>3. failed = FALSE /\ failed' = FALSE
    BY DEF WriterInv, Shape
<1>4. ThreadInv(accepted'[t], log'[t], writes'[t], batch'[t], flush[t], flushed[t], FALSE)
    BY <1>1, <1>2, <1>3, InvPushed
<1>5. batch'[t] = <<>> /\ flushed'[t] = flushed[t] /\ accepted'[t] = accepted[t]
    BY DEF FlushBegins
<1>6. \E s \in {"own", "queue"}:
        flush'[t] = [stage |-> s, ahead |-> Len(writes'[t]), upto |-> Len(accepted'[t]), deletes |-> x]
  <2>1. CASE batch[t] # <<>>
    <3>1. writes'[t] = Append(writes[t], [entries |-> batch[t], event |-> NoEntry])
        BY <2>1 DEF FlushBegins
    <3>2. PICK op: op = [entries |-> batch[t], event |-> NoEntry]
        OBVIOUS
    <3>3. op \in Operation(Len(accepted[t]))
        BY <3>2, InvParts DEF ThreadType, Typed, Operation
    <3>4. Len(Append(writes[t], op)) = Len(writes[t]) + 1
        BY <3>3, InvParts, AppendProperties
    <3>5. Len(writes'[t]) = Len(writes[t]) + 1
        BY <3>1, <3>2, <3>4
    <3>6. flush'[t] = [stage |-> "own", ahead |-> Len(writes[t]) + 1, upto |-> Len(accepted[t]), deletes |-> x]
        BY <2>1 DEF FlushBegins, Flushing
    <3>7. QED
        BY <3>5, <3>6, <1>5
  <2>2. CASE batch[t] = <<>>
    <3>1. writes'[t] = writes[t]
        BY <2>2 DEF FlushBegins
    <3>2. flush'[t] = [stage |-> "queue", ahead |-> Len(writes[t]), upto |-> Len(accepted[t]), deletes |-> x]
        BY <2>2 DEF FlushBegins, Flushing
    <3>3. QED
        BY <3>1, <3>2, <1>5
  <2>3. QED
      BY <2>1, <2>2
<1>7. PICK s \in {"own", "queue"}:
        flush'[t] = [stage |-> s, ahead |-> Len(writes'[t]), upto |-> Len(accepted'[t]), deletes |-> x]
    BY <1>6
<1>8. ThreadInv(accepted'[t], log'[t], writes'[t], batch'[t], flush'[t], flushed[t], FALSE)
    BY <1>4, <1>5, <1>7, InvFlushStarts
<1>9. QED
    BY <1>3, <1>5, <1>8

LEMMA FlushThreadStep == ASSUME WriterInv, FlushThread PROVE WriterInv'
<1>1. PICK t \in Thread, x \in BOOLEAN:
        /\ ~failed /\ flushes < MaxFlushes /\ flushes' = flushes + 1
        /\ flush' = [flush EXCEPT ![t] = Flushing(t, x)]
        /\ IF batch[t] # <<>> THEN TakeBatch(t, NoEntry) ELSE UNCHANGED <<batch, writes>>
        /\ UNCHANGED <<accepted, log, failed, flushed, deleted, faults>>
    BY DEF FlushThread
<1>2. /\ flush'[t] = Flushing(t, x) /\ \A s \in Thread \ {t}: flush'[s] = flush[s]
      /\ DOMAIN flush' = Thread
    BY <1>1 DEF WriterInv, Shape
<1>3. /\ batch'[t] = <<>>
      /\ writes'[t] = IF batch[t] # <<>> THEN Append(writes[t], [entries |-> batch[t], event |-> NoEntry])
                                         ELSE writes[t]
      /\ \A s \in Thread \ {t}: batch'[s] = batch[s] /\ writes'[s] = writes[s]
      /\ DOMAIN batch' = Thread /\ DOMAIN writes' = Thread
  <2>1. CASE batch[t] # <<>>
      BY <2>1, <1>1, BatchIsTaken
  <2>2. CASE batch[t] = <<>>
    <3>1. batch' = batch /\ writes' = writes
        BY <2>2, <1>1
    <3>2. QED
        BY <2>2, <3>1 DEF WriterInv, Shape
  <2>3. QED
      BY <2>1, <2>2
<1>4. Shape'
  <2>1. DOMAIN batch' = Thread /\ DOMAIN writes' = Thread
      BY <1>3
  <2>2. flushes' \in 0..MaxFlushes
      BY <1>1, BoundsAreNumbers DEF WriterInv, Shape
  <2>3. QED
      BY <1>1, <1>2, <2>1, <2>2 DEF WriterInv, Shape
<1>5. ASSUME NEW s \in Thread
      PROVE  ThreadInv(accepted'[s], log'[s], writes'[s], batch'[s], flush'[s], flushed'[s], failed')
  <2>1. CASE s = t
    <3>1. accepted' = accepted /\ log' = log /\ flushed' = flushed /\ failed' = failed
        BY <1>1
    <3>2. FlushBegins(t, x)
        BY <3>1, <1>2, <1>3 DEF FlushBegins
    <3>3. QED
        BY <2>1, <3>1, <3>2, <1>1, FlushBegun
  <2>2. CASE s # t
    <3>1. batch'[s] = batch[s] /\ writes'[s] = writes[s] /\ flush'[s] = flush[s]
        BY <2>2, <1>2, <1>3
    <3>2. QED
        BY <3>1, <1>1, InvUntouched
  <2>3. QED
      BY <2>1, <2>2
<1>6. QED
    BY <1>4, <1>5 DEF WriterInv

LEMMA FlushAllStep == ASSUME WriterInv, FlushAll PROVE WriterInv'
<1> DEFINE all == {t \in Thread: batch[t] # <<>> \/ writes[t] # <<>>}
<1>1. /\ ~failed /\ flushes < MaxFlushes /\ flushes' = flushes + 1
      /\ flush' = [t \in Thread |-> IF t \in all THEN Flushing(t, FALSE) ELSE flush[t]]
      /\ writes' = [t \in Thread |-> IF batch[t] # <<>>
                                     THEN Append(writes[t], [entries |-> batch[t], event |-> NoEntry])
                                     ELSE writes[t]]
      /\ batch' = [t \in Thread |-> <<>>]
      /\ UNCHANGED <<accepted, log, failed, flushed, deleted, faults>>
    BY DEF FlushAll
<1>2. Shape'
  <2>1. DOMAIN batch' = Thread /\ DOMAIN writes' = Thread /\ DOMAIN flush' = Thread
      BY <1>1
  <2>2. flushes' \in 0..MaxFlushes
      BY <1>1, BoundsAreNumbers DEF WriterInv, Shape
  <2>3. accepted' = accepted /\ log' = log /\ flushed' = flushed /\ failed' = failed
        /\ deleted' = deleted /\ faults' = faults
      BY <1>1
  <2>4. QED
      BY <2>1, <2>2, <2>3 DEF WriterInv, Shape
<1>3. ASSUME NEW s \in Thread
      PROVE  ThreadInv(accepted'[s], log'[s], writes'[s], batch'[s], flush'[s], flushed'[s], failed')
  <2>1. accepted' = accepted /\ log' = log /\ flushed' = flushed /\ failed' = failed
      BY <1>1
  <2>2. batch'[s] = <<>>
      BY <1>1
  <2>3. writes'[s] = IF batch[s] # <<>>
                     THEN Append(writes[s], [entries |-> batch[s], event |-> NoEntry])
                     ELSE writes[s]
      BY <1>1
  <2>4. flush'[s] = IF batch[s] # <<>> \/ writes[s] # <<>> THEN Flushing(s, FALSE) ELSE flush[s]
      BY <1>1
  <2>5. CASE batch[s] # <<>> \/ writes[s] # <<>>
    <3>1. FlushBegins(s, FALSE)
        BY <2>1, <2>2, <2>3, <2>4, <2>5 DEF FlushBegins
    <3>2. FALSE \in BOOLEAN /\ ~failed /\ ~failed'
        BY <2>1, <1>1
    <3>3. QED
        BY <3>1, <3>2, FlushBegun
  <2>6. CASE ~(batch[s] # <<>> \/ writes[s] # <<>>)
    <3>1. batch'[s] = batch[s] /\ writes'[s] = writes[s] /\ flush'[s] = flush[s]
        BY <2>2, <2>3, <2>4, <2>6
    <3>2. QED
        BY <3>1, <2>1, InvUntouched
  <2>7. QED
      BY <2>5, <2>6
<1>4. QED
    BY <1>2, <1>3 DEF WriterInv

-----------------------------------------------------------------------------
(* A flush goes on.                                                        *)

LEMMA FlushAwaitsQueueStep == ASSUME WriterInv, NEW t \in Thread, FlushAwaitsQueue(t) PROVE WriterInv'
<1>1. /\ flush[t].stage = "own" /\ flush[t].ahead = 0
      /\ flush' = [flush EXCEPT ![t].stage = "queue", ![t].ahead = Len(writes[t])]
      /\ UNCHANGED <<accepted, batch, writes, log, failed, flushed, deleted, flushes, faults>>
    BY DEF FlushAwaitsQueue
<1>2. flush[t] = [stage |-> flush[t].stage, ahead |-> flush[t].ahead,
                  upto |-> flush[t].upto, deletes |-> flush[t].deletes]
    BY InvParts, FlushFields
<1>3. /\ flush'[t] = [stage |-> "queue", ahead |-> Len(writes[t]),
                      upto |-> flush[t].upto, deletes |-> flush[t].deletes]
      /\ \A s \in Thread \ {t}: flush'[s] = flush[s]
      /\ DOMAIN flush' = Thread
    BY <1>1, <1>2 DEF WriterInv, Shape
<1>4. Shape'
    BY <1>1, <1>3 DEF WriterInv, Shape
<1>5. ASSUME NEW s \in Thread
      PROVE  ThreadInv(accepted'[s], log'[s], writes'[s], batch'[s], flush'[s], flushed'[s], failed')
  <2>1. CASE s = t
    <3>1. ThreadInv(accepted[t], log[t], writes[t], batch[t], flush'[t], flushed[t], failed)
        BY <1>1, <1>3, InvParts, InvFlushWaits
    <3>2. QED
        BY <2>1, <3>1, <1>1
  <2>2. CASE s # t
      BY <2>2, <1>1, <1>3, InvUntouched
  <2>3. QED
      BY <2>1, <2>2
<1>6. QED
    BY <1>4, <1>5 DEF WriterInv

(* A flush that ended, with or without a promise kept.                     *)
LEMMA FlushEnded ==
  ASSUME WriterInv, NEW t \in Thread,
         NEW G \in FlushRecord(Len(writes[t]), Len(accepted[t])), G.stage \in {"none", "done"},
         NEW v, v = flushed[t] \/ (~failed /\ flush[t].stage = "queue" /\ flush[t].ahead = 0 /\ v = flush[t].upto),
         flush' = [flush EXCEPT ![t] = G], flushed' = flushed \/ flushed' = [flushed EXCEPT ![t] = v],
         flushed'[t] = v,
         UNCHANGED <<accepted, batch, writes, log, failed>>,
         deleted' \subseteq Thread, flushes' = flushes, faults' = faults
  PROVE  WriterInv'
<1>1. /\ flush'[t] = G /\ flushed'[t] = v
      /\ \A s \in Thread \ {t}: flush'[s] = flush[s] /\ flushed'[s] = flushed[s]
      /\ DOMAIN flush' = Thread /\ DOMAIN flushed' = Thread
    BY DEF WriterInv, Shape
<1>2. Shape'
    BY <1>1 DEF WriterInv, Shape
<1>3. ASSUME NEW s \in Thread
      PROVE  ThreadInv(accepted'[s], log'[s], writes'[s], batch'[s], flush'[s], flushed'[s], failed')
  <2>1. CASE s = t
    <3>1. ThreadInv(accepted[t], log[t], writes[t], batch[t], G, v, failed)
        BY InvParts, InvFlushEnds
    <3>2. QED
        BY <2>1, <3>1, <1>1
  <2>2. CASE s # t
      BY <2>2, <1>1, InvUntouched
  <2>3. QED
      BY <2>1, <2>2
<1>4. QED
    BY <1>2, <1>3 DEF WriterInv

LEMMA NoFlushFits == ASSUME NEW w \in Nat, NEW n \in Nat PROVE NoFlush \in FlushRecord(w, n) /\ NoFlush.stage = "none"
  BY DEF NoFlush, FlushRecord, Stages

LEMMA FlushReturnsStep == ASSUME WriterInv, NEW t \in Thread, FlushReturns(t) PROVE WriterInv'
<1>1. /\ flush[t].stage = "queue" /\ flush[t].ahead = 0
      /\ flush' = [flush EXCEPT ![t] = IF flush[t].deletes /\ ~failed THEN [@ EXCEPT !.stage = "done"]
                                                                      ELSE NoFlush]
      /\ flushed' = IF failed THEN flushed ELSE [flushed EXCEPT ![t] = flush[t].upto]
      /\ UNCHANGED <<accepted, batch, writes, log, failed, deleted, flushes, faults>>
    BY DEF FlushReturns
<1>2. /\ flush[t].stage \in Stages /\ flush[t].ahead \in 0..Len(writes[t])
      /\ flush[t].upto \in 0..Len(accepted[t]) /\ flush[t].deletes \in BOOLEAN
      /\ flush[t] = [stage |-> flush[t].stage, ahead |-> flush[t].ahead,
                     upto |-> flush[t].upto, deletes |-> flush[t].deletes]
    BY InvParts, FlushFields
<1>3. PICK D: D = [stage |-> "done", ahead |-> flush[t].ahead,
                   upto |-> flush[t].upto, deletes |-> flush[t].deletes]
    OBVIOUS
<1>4. [flush[t] EXCEPT !.stage = "done"] = D
    BY <1>2, <1>3
<1>5. D \in FlushRecord(Len(writes[t]), Len(accepted[t])) /\ D.stage = "done"
    BY <1>2, <1>3 DEF FlushRecord, Stages
<1>6. Len(writes[t]) \in Nat /\ Len(accepted[t]) \in Nat
    BY InvParts, ThreadLengths
<1>7. PICK G: G = IF flush[t].deletes /\ ~failed THEN D ELSE NoFlush
    OBVIOUS
<1>8. G \in FlushRecord(Len(writes[t]), Len(accepted[t])) /\ G.stage \in {"none", "done"}
    BY <1>5, <1>6, <1>7, NoFlushFits
<1>9. flush' = [flush EXCEPT ![t] = G]
    BY <1>1, <1>4, <1>7
<1>10. PICK v: v = IF failed THEN flushed[t] ELSE flush[t].upto
    OBVIOUS
<1>11. (flushed' = flushed \/ flushed' = [flushed EXCEPT ![t] = v]) /\ flushed'[t] = v
  <2>1. CASE failed
      BY <2>1, <1>1, <1>10
  <2>2. CASE ~failed
      BY <2>2, <1>1, <1>10 DEF WriterInv, Shape
  <2>3. QED
      BY <2>1, <2>2
<1>12. v = flushed[t] \/ (~failed /\ flush[t].stage = "queue" /\ flush[t].ahead = 0 /\ v = flush[t].upto)
    BY <1>1, <1>10
<1>13. UNCHANGED <<accepted, batch, writes, log, failed>> /\ flushes' = flushes /\ faults' = faults
    BY <1>1
<1>14. deleted' \subseteq Thread
    BY <1>1 DEF WriterInv, Shape
<1>15. QED
    BY <1>8, <1>9, <1>11, <1>12, <1>13, <1>14, FlushEnded

LEMMA DeleteThreadStep == ASSUME WriterInv, NEW t \in Thread, DeleteThread(t) PROVE WriterInv'
<1>1. /\ flush' = [flush EXCEPT ![t] = NoFlush] /\ deleted' = deleted \cup {t}
      /\ UNCHANGED <<accepted, batch, writes, log, failed, flushed, flushes, faults>>
    BY DEF DeleteThread
<1>2. Len(writes[t]) \in Nat /\ Len(accepted[t]) \in Nat
    BY InvParts, ThreadLengths
<1>3. NoFlush \in FlushRecord(Len(writes[t]), Len(accepted[t])) /\ NoFlush.stage \in {"none", "done"}
    BY <1>2, NoFlushFits
<1>4. flushed' = flushed /\ flushed'[t] = flushed[t]
    BY <1>1
<1>5. deleted' \subseteq Thread
    BY <1>1 DEF WriterInv, Shape
<1>6. UNCHANGED <<accepted, batch, writes, log, failed>> /\ flushes' = flushes /\ faults' = faults
    BY <1>1
<1>7. QED
    BY <1>1, <1>3, <1>4, <1>5, <1>6, FlushEnded

-----------------------------------------------------------------------------
(* The chain goes on.                                                      *)

LEMMA OperationEnded ==
  ASSUME WriterInv, NEW t \in Thread, OperationEnds(t)
  PROVE  /\ writes'[t] = Tail(writes[t]) /\ flush'[t] = Lowered(flush[t])
         /\ \A s \in Thread \ {t}: writes'[s] = writes[s] /\ flush'[s] = flush[s]
         /\ DOMAIN writes' = Thread /\ DOMAIN flush' = Thread
<1>1. flush[t] = [stage |-> flush[t].stage, ahead |-> flush[t].ahead,
                  upto |-> flush[t].upto, deletes |-> flush[t].deletes]
    BY InvParts, FlushFields
<1>2. flush' = [flush EXCEPT ![t].ahead = IF @ = 0 THEN 0 ELSE @ - 1]
    BY DEF OperationEnds
<1>3. /\ flush'[t] = [stage |-> flush[t].stage, ahead |-> Down(flush[t].ahead),
                      upto |-> flush[t].upto, deletes |-> flush[t].deletes]
      /\ \A s \in Thread \ {t}: flush'[s] = flush[s]
      /\ DOMAIN flush' = Thread
    BY <1>1, <1>2 DEF WriterInv, Shape, Down
<1>4. /\ writes'[t] = Tail(writes[t]) /\ \A s \in Thread \ {t}: writes'[s] = writes[s]
      /\ DOMAIN writes' = Thread
    BY DEF OperationEnds, WriterInv, Shape
<1>5. QED
    BY <1>3, <1>4 DEF Lowered

LEMMA HeadIsFirst ==
  ASSUME NEW S, NEW W \in Seq(S), W # <<>> PROVE Head(W) = W[1] /\ 1 \in 1..Len(W) /\ W[1] \in S
  BY HeadTailProperties, EmptySeq, ElementOfSeq

(* An operation that ends with its contents stored or its compaction       *)
(* dropped.                                                                *)
LEMMA OperationPopped ==
  ASSUME WriterInv, NEW t \in Thread, OperationEnds(t),
         PopStep(accepted[t], log[t], writes[t], batch[t], accepted[t], log'[t], Tail(writes[t]), batch[t]),
         \A s \in Thread \ {t}: log'[s] = log[s], DOMAIN log' = Thread,
         UNCHANGED <<accepted, batch, failed, flushed, deleted, flushes, faults>>
  PROVE  WriterInv'
<1>1. /\ writes'[t] = Tail(writes[t]) /\ flush'[t] = Lowered(flush[t])
      /\ \A s \in Thread \ {t}: writes'[s] = writes[s] /\ flush'[s] = flush[s]
      /\ DOMAIN writes' = Thread /\ DOMAIN flush' = Thread
    BY OperationEnded
<1>2. Shape'
    BY <1>1 DEF WriterInv, Shape
<1>3. ASSUME NEW s \in Thread
      PROVE  ThreadInv(accepted'[s], log'[s], writes'[s], batch'[s], flush'[s], flushed'[s], failed')
  <2>1. CASE s = t
    <3>1. ThreadInv(accepted[t], log'[t], Tail(writes[t]), batch[t], Lowered(flush[t]), flushed[t], failed)
        BY InvParts, InvPopped
    <3>2. QED
        BY <2>1, <3>1, <1>1
  <2>2. CASE s # t
      BY <2>2, <1>1, InvUntouched
  <2>3. QED
      BY <2>1, <2>2
<1>4. QED
    BY <1>2, <1>3 DEF WriterInv

LEMMA StoreBatchStep == ASSUME WriterInv, NEW t \in Thread, StoreBatch(t) PROVE WriterInv'
<1>1. /\ writes[t] # <<>> /\ Head(writes[t]).entries # <<>>
      /\ log' = [log EXCEPT ![t] = @ \o Head(writes[t]).entries]
      /\ UNCHANGED <<accepted, batch, failed, flushed, deleted, flushes, faults>>
    BY DEF StoreBatch
<1>2. Head(writes[t]) = writes[t][1] /\ 1 \in 1..Len(writes[t])
      /\ writes[t][1] \in Operation(Len(accepted[t]))
    BY <1>1, InvParts, HeadIsFirst
<1>3. /\ log'[t] = log[t] \o writes[t][1].entries
      /\ \A s \in Thread \ {t}: log'[s] = log[s]
      /\ DOMAIN log' = Thread
    BY <1>1, <1>2 DEF WriterInv, Shape
<1>4. CASE Head(writes[t]).event = NoEntry
  <2>1. OperationEnds(t)
      BY <1>4 DEF StoreBatch
  <2>2. Contents(writes[t][1]) = writes[t][1].entries
      BY <1>2, <1>4 DEF Contents
  <2>3. StoreStep(accepted[t], log[t], writes[t], batch[t], accepted[t], log'[t], Tail(writes[t]), batch[t])
      BY <1>1, <1>3, <2>2 DEF StoreStep
  <2>4. PopStep(accepted[t], log[t], writes[t], batch[t], accepted[t], log'[t], Tail(writes[t]), batch[t])
      BY <2>3 DEF PopStep
  <2>5. QED
      BY <2>1, <2>4, <1>1, <1>3, OperationPopped
<1>5. CASE Head(writes[t]).event # NoEntry
  <2>1. writes' = [writes EXCEPT ![t][1].entries = <<>>] /\ flush' = flush
      BY <1>5 DEF StoreBatch
  <2>2. writes[t][1] = [entries |-> writes[t][1].entries, event |-> writes[t][1].event]
      BY <1>2 DEF Operation
  <2>3. PICK V: V = [entries |-> <<>>, event |-> writes[t][1].event]
      OBVIOUS
  <2>4. [writes[t][1] EXCEPT !.entries = <<>>] = V
      BY <2>2, <2>3
  <2>5. /\ writes'[t] = [writes[t] EXCEPT ![1] = V]
        /\ \A s \in Thread \ {t}: writes'[s] = writes[s]
        /\ DOMAIN writes' = Thread
      BY <2>1, <2>4 DEF WriterInv, Shape
  <2>6. Splits(log[t], writes[t], log'[t], writes'[t])
      BY <1>1, <1>2, <1>3, <1>5, <2>3, <2>5 DEF Splits
  <2>7. SplitStep(accepted[t], log[t], writes[t], batch[t], accepted'[t], log'[t], writes'[t], batch'[t])
      BY <1>1, <2>6 DEF SplitStep
  <2>8. Shape'
      BY <1>1, <1>3, <2>1, <2>5 DEF WriterInv, Shape
  <2>9. ASSUME NEW s \in Thread
        PROVE  ThreadInv(accepted'[s], log'[s], writes'[s], batch'[s], flush'[s], flushed'[s], failed')
    <3>1. CASE s = t
      <4>1. flush'[t] = flush[t] /\ flushed'[t] = flushed[t] /\ failed' = failed
          BY <1>1, <2>1
      <4>2. QED
          BY <3>1, <4>1, <2>7, InvParts, InvSplit
    <3>2. CASE s # t
      <4>1. writes'[s] = writes[s] /\ log'[s] = log[s] /\ flush'[s] = flush[s]
          BY <3>2, <1>3, <2>1, <2>5
      <4>2. QED
          BY <4>1, <1>1, InvUntouched
    <3>3. QED
        BY <3>1, <3>2
  <2>10. QED
      BY <2>8, <2>9 DEF WriterInv
<1>6. QED
    BY <1>4, <1>5

LEMMA StoreEventStep == ASSUME WriterInv, NEW t \in Thread, StoreEvent(t) PROVE WriterInv'
<1>1. /\ writes[t] # <<>> /\ Head(writes[t]).entries = <<>> /\ OperationEnds(t)
      /\ \/ log' = [log EXCEPT ![t] = Append(@, Head(writes[t]).event)]
         \/ Head(writes[t]).event.kind = "compaction" /\ log' = log
      /\ UNCHANGED <<accepted, batch, failed, flushed, deleted, flushes, faults>>
    BY DEF StoreEvent
<1>2. Head(writes[t]) = writes[t][1] /\ 1 \in 1..Len(writes[t])
      /\ writes[t][1] \in Operation(Len(accepted[t]))
    BY <1>1, InvParts, HeadIsFirst
<1>3. writes[t][1].entries = <<>> /\ writes[t][1].event # NoEntry
    BY <1>1, <1>2, InvParts DEF NonEmpty
<1>4. log[t] \in Seq(EntryOf(Kind, Len(accepted[t]))) /\ Len(accepted[t]) \in Nat
    BY InvParts, ThreadLengths DEF ThreadType, Typed
<1>5. writes[t][1].event \in EntryOf(Kind, Len(accepted[t]))
    BY <1>2, <1>3, <1>4, ContentsTyped
<1>6. CASE log' = [log EXCEPT ![t] = Append(@, Head(writes[t]).event)]
  <2>1. /\ log'[t] = Append(log[t], writes[t][1].event)
        /\ \A s \in Thread \ {t}: log'[s] = log[s]
        /\ DOMAIN log' = Thread
      BY <1>6, <1>2 DEF WriterInv, Shape
  <2>2. Append(log[t], writes[t][1].event) = log[t] \o <<writes[t][1].event>>
      BY <1>4, <1>5, AppendIsConcat
  <2>3. Contents(writes[t][1]) = <<writes[t][1].event>>
      BY <1>3 DEF Contents
  <2>4. StoreStep(accepted[t], log[t], writes[t], batch[t], accepted[t], log'[t], Tail(writes[t]), batch[t])
      BY <1>1, <2>1, <2>2, <2>3 DEF StoreStep
  <2>5. PopStep(accepted[t], log[t], writes[t], batch[t], accepted[t], log'[t], Tail(writes[t]), batch[t])
      BY <2>4 DEF PopStep
  <2>6. QED
      BY <2>1, <2>5, <1>1, OperationPopped
<1>7. CASE Head(writes[t]).event.kind = "compaction" /\ log' = log
  <2>1. DropStep(accepted[t], log[t], writes[t], batch[t], accepted[t], log'[t], Tail(writes[t]), batch[t])
      BY <1>1, <1>7 DEF DropStep
  <2>2. SkipStep(accepted[t], log[t], writes[t], batch[t], accepted[t], log'[t], Tail(writes[t]), batch[t])
      BY <1>2, <1>3, <1>7, <2>1 DEF SkipStep
  <2>3. PopStep(accepted[t], log[t], writes[t], batch[t], accepted[t], log'[t], Tail(writes[t]), batch[t])
      BY <2>2 DEF PopStep
  <2>4. (\A s \in Thread \ {t}: log'[s] = log[s]) /\ DOMAIN log' = Thread
      BY <1>7 DEF WriterInv, Shape
  <2>5. QED
      BY <2>3, <2>4, <1>1, OperationPopped
<1>8. QED
    BY <1>1, <1>6, <1>7

LEMMA WriteFailsStep == ASSUME WriterInv, NEW t \in Thread, WriteFails(t) PROVE WriterInv'
<1>1. /\ writes[t] # <<>> /\ failed' = TRUE /\ OperationEnds(t)
      /\ faults' = faults \/ (faults < MaxFaults /\ faults' = faults + 1)
      /\ UNCHANGED <<accepted, batch, log, flushed, deleted, flushes>>
    BY DEF WriteFails
<1>2. /\ writes'[t] = Tail(writes[t]) /\ flush'[t] = Lowered(flush[t])
      /\ \A s \in Thread \ {t}: writes'[s] = writes[s] /\ flush'[s] = flush[s]
      /\ DOMAIN writes' = Thread /\ DOMAIN flush' = Thread
    BY <1>1, OperationEnded
<1>3. Shape'
  <2>1. faults' \in 0..MaxFaults
      BY <1>1, BoundsAreNumbers DEF WriterInv, Shape
  <2>2. QED
      BY <1>1, <1>2, <2>1 DEF WriterInv, Shape
<1>4. ASSUME NEW s \in Thread
      PROVE  ThreadInv(accepted'[s], log'[s], writes'[s], batch'[s], flush'[s], flushed'[s], failed')
  <2>1. CASE s = t
    <3>1. DropStep(accepted[t], log[t], writes[t], batch[t], accepted'[t], log'[t], writes'[t], batch'[t])
        BY <1>1, <1>2 DEF DropStep
    <3>2. flush'[t] = Lowered(flush[t]) /\ flushed'[t] = flushed[t] /\ failed' = TRUE
        BY <1>1, <1>2
    <3>3. QED
        BY <2>1, <3>1, <3>2, InvParts, InvDropped
  <2>2. CASE s # t
    <3>1. writes'[s] = writes[s] /\ flush'[s] = flush[s]
        BY <2>2, <1>2
    <3>2. failed => failed'
        BY <1>1
    <3>3. QED
        BY <3>1, <3>2, <1>1, InvUntouched
  <2>3. QED
      BY <2>1, <2>2
<1>5. QED
    BY <1>3, <1>4 DEF WriterInv

LEMMA WriterStep == WriterInv /\ [Next]_vars => WriterInv'
<1> SUFFICES ASSUME WriterInv, [Next]_vars PROVE WriterInv'
    OBVIOUS
<1>1. CASE AppendDelta
    BY <1>1, AppendDeltaStep
<1>2. CASE AppendEvent
    BY <1>2, AppendEventStep
<1>3. CASE FlushThread
    BY <1>3, FlushThreadStep
<1>4. CASE FlushAll
    BY <1>4, FlushAllStep
<1>5. ASSUME NEW t \in Thread, TimerFires(t) PROVE WriterInv'
    BY <1>5, TimerFiresStep
<1>6. ASSUME NEW t \in Thread, Writing(t) PROVE WriterInv'
    BY <1>6, StoreBatchStep, StoreEventStep, WriteFailsStep DEF Writing
<1>7. ASSUME NEW t \in Thread, Flushes(t) PROVE WriterInv'
    BY <1>7, FlushAwaitsQueueStep, FlushReturnsStep, DeleteThreadStep DEF Flushes
<1>8. CASE UNCHANGED vars
    BY <1>8 DEF vars, WriterInv, Shape
<1>9. QED
    BY <1>1, <1>2, <1>3, <1>4, <1>5, <1>6, <1>7, <1>8 DEF Next

(* What was accepted for a thread is its log, its chain and its batch:     *)
(* each stream and the order of the rest are kept while entries move       *)
(* through them, and a flush waits for what it has promised.               *)
THEOREM WriterInvariant == Spec => []WriterInv
<1>1. WriterInv /\ [Next]_vars => WriterInv'
    BY WriterStep
<1>2. QED
    BY InitInv, <1>1, PTL DEF Spec

-----------------------------------------------------------------------------
(* The properties.                                                         *)

(* What is buffered, queued, stored and promised keeps its type.           *)
THEOREM TypeCorrect == Spec => []TypeOK
<1>1. WriterInv => TypeOK
  <2> SUFFICES ASSUME WriterInv PROVE TypeOK
      OBVIOUS
  <2>1. ASSUME NEW t \in Thread
        PROVE  /\ batch[t] \in Seq(EntryOf(Stream, Len(accepted[t])))
               /\ log[t] \in Seq(EntryOf(Kind, Len(accepted[t])))
               /\ writes[t] \in Seq([entries: Seq(EntryOf(Stream, Len(accepted[t]))),
                                     event: EntryOf(Single, Len(accepted[t])) \cup {NoEntry}])
               /\ \A i \in DOMAIN writes[t]:
                    writes[t][i].entries # <<>> \/ writes[t][i].event # NoEntry
               /\ flush[t] \in [stage: {"none", "own", "queue", "done"}, ahead: 0..Len(writes[t]),
                                upto: 0..Len(accepted[t]), deletes: BOOLEAN]
               /\ flushed[t] \in 0..Len(accepted[t])
    <3>1. /\ batch[t] \in Seq(EntryOf(Stream, Len(accepted[t])))
          /\ log[t] \in Seq(EntryOf(Kind, Len(accepted[t])))
          /\ writes[t] \in Seq(Operation(Len(accepted[t])))
        BY InvParts DEF ThreadType, Typed
    <3>2. DOMAIN writes[t] = 1..Len(writes[t])
        BY <3>1, LenProperties
    <3>3. \A i \in DOMAIN writes[t]: writes[t][i].entries # <<>> \/ writes[t][i].event # NoEntry
        BY <3>2, InvParts DEF NonEmpty
    <3>4. flush[t] \in FlushRecord(Len(writes[t]), Len(accepted[t])) /\ flushed[t] \in 0..Len(accepted[t])
        BY InvParts
    <3>5. QED
        BY <3>1, <3>3, <3>4 DEF Operation, FlushRecord, Stages
  <2>2. QED
      BY <2>1 DEF TypeOK, WriterInv, Shape
<1>2. QED
    BY WriterInvariant, <1>1, PTL

(* The segments of a thread are those of its log, its chain and its batch. *)
LEMMA SegmentIsSeg ==
  ASSUME WriterInv, NEW t \in Thread
  PROVE  /\ \A s: Segment(t, s) = Seg(log[t], writes[t], batch[t], s)
         /\ \A s \in Segments(t): /\ DOMAIN Segment(t, s) = 1..Len(Segment(t, s))
                                  /\ Len(Segment(t, s)) \in Nat
         /\ Segments(t) = 0..(Len(writes[t]) + 1) /\ Len(writes[t]) \in Nat
         /\ DOMAIN log[t] = 1..Len(log[t]) /\ DOMAIN accepted[t] = 1..Len(accepted[t])
         /\ Len(accepted[t]) \in Nat
<1>1. Typed(Len(accepted[t]), log[t], writes[t], batch[t])
    BY InvParts DEF ThreadType
<1>2. \A s: Segment(t, s) = Seg(log[t], writes[t], batch[t], s)
    BY DEF Segment, Seg
<1>3. Segments(t) = 0..(Len(writes[t]) + 1) /\ Len(writes[t]) \in Nat
    BY <1>1, SegTyped DEF Segments
<1>4. ASSUME NEW s \in Segments(t)
      PROVE  DOMAIN Segment(t, s) = 1..Len(Segment(t, s)) /\ Len(Segment(t, s)) \in Nat
  <2>1. Segment(t, s) \in Seq(EntryOf(Kind, Len(accepted[t])))
      BY <1>1, <1>2, <1>3, SegTyped
  <2>2. QED
      BY <2>1, LenProperties
<1>5. DOMAIN log[t] = 1..Len(log[t])
    BY <1>1, LenProperties DEF Typed
<1>6. DOMAIN accepted[t] = 1..Len(accepted[t]) /\ Len(accepted[t]) \in Nat
    BY InvParts, LenProperties
<1>7. QED
    BY <1>2, <1>3, <1>4, <1>5, <1>6

LEMMA JournalIsHeld ==
  ASSUME WriterInv, NEW t \in Thread, NEW e
  PROVE  e \in Journal(t) <=> Held(log[t], writes[t], batch[t], e)
<1>1. ASSUME e \in Journal(t) PROVE Held(log[t], writes[t], batch[t], e)
  <2>1. PICK s \in Segments(t): e \in Elements(Segment(t, s))
      BY <1>1 DEF Journal
  <2>2. PICK i \in DOMAIN Segment(t, s): e = Segment(t, s)[i]
      BY <2>1 DEF Elements
  <2>3. s \in Nat /\ i \in Nat /\ InSeg(log[t], writes[t], batch[t], s, i)
      BY <2>2, SegmentIsSeg DEF InSeg
  <2>4. QED
      BY <2>2, <2>3, SegmentIsSeg DEF Held
<1>2. ASSUME Held(log[t], writes[t], batch[t], e) PROVE e \in Journal(t)
  <2>1. PICK s, i \in Nat: InSeg(log[t], writes[t], batch[t], s, i) /\ e = Seg(log[t], writes[t], batch[t], s)[i]
      BY <1>2 DEF Held
  <2>2. s \in Segments(t) /\ i \in DOMAIN Segment(t, s) /\ e = Segment(t, s)[i]
      BY <2>1, SegmentIsSeg DEF InSeg
  <2>3. e \in Elements(Segment(t, s))
      BY <2>2 DEF Elements
  <2>4. QED
      BY <2>2, <2>3 DEF Journal
<1>3. QED
    BY <1>1, <1>2

LEMMA PrecedesIsPre ==
  ASSUME WriterInv, NEW t \in Thread, NEW e, NEW f, Precedes(t, e, f)
  PROVE  Pre(log[t], writes[t], batch[t], e, f)
<1>1. PICK r, s \in Segments(t): \E i \in DOMAIN Segment(t, r), j \in DOMAIN Segment(t, s):
        /\ r < s \/ (r = s /\ i < j)
        /\ e = Segment(t, r)[i] /\ f = Segment(t, s)[j]
    BY DEF Precedes
<1>2. PICK i \in DOMAIN Segment(t, r), j \in DOMAIN Segment(t, s):
        /\ r < s \/ (r = s /\ i < j)
        /\ e = Segment(t, r)[i] /\ f = Segment(t, s)[j]
    BY <1>1
<1>3. r \in Nat /\ s \in Nat /\ i \in Nat /\ j \in Nat
    BY SegmentIsSeg
<1>4. InSeg(log[t], writes[t], batch[t], r, i) /\ InSeg(log[t], writes[t], batch[t], s, j)
    BY SegmentIsSeg DEF InSeg
<1>5. Lower(r, i, s, j)
    BY <1>2 DEF Lower
<1>6. e = Seg(log[t], writes[t], batch[t], r)[i] /\ f = Seg(log[t], writes[t], batch[t], s)[j]
    BY <1>2, SegmentIsSeg
<1>7. QED
    BY <1>3, <1>4, <1>5, <1>6 DEF Pre

LEMMA ObsoleteIsObs == \A t, n, upto: Obsolete(t, n, upto) <=> Obs(accepted[t], n, upto)
  BY DEF Obsolete, Obs

(* Each stream is in its journal as it was produced, whatever was merged   *)
(* with whatever and however the writes of the chain end; none of it is    *)
(* missing unless a write failed.                                          *)
THEOREM EveryStreamIsKept == Spec => []StreamsAreKept
<1>1. WriterInv => StreamsAreKept
  <2> SUFFICES ASSUME WriterInv, NEW t \in Thread
               PROVE  /\ \A e \in Journal(t): Increasing(e.of) /\ \A n \in Elements(e.of): accepted[t][n] = e.kind
                      /\ \A e, f \in Journal(t):
                           Precedes(t, e, f) /\ e.kind = f.kind =>
                             \A m \in Elements(e.of), n \in Elements(f.of): m < n
                      /\ ~failed => \A n \in DOMAIN accepted[t]:
                                      \/ Obsolete(t, n, Len(accepted[t]))
                                      \/ \E e \in Journal(t): n \in Elements(e.of)
      BY DEF StreamsAreKept
  <2>1. /\ StreamOK(accepted[t], log[t], writes[t], batch[t])
        /\ ~failed => Complete(accepted[t], log[t], writes[t], batch[t])
      BY InvParts DEF ThreadInv, ThreadOK
  <2>2. ASSUME NEW e \in Journal(t)
        PROVE  Increasing(e.of) /\ \A n \in Elements(e.of): accepted[t][n] = e.kind
    <3>1. Held(log[t], writes[t], batch[t], e)
        BY JournalIsHeld
    <3>2. QED
        BY <2>1, <3>1 DEF StreamOK
  <2>3. ASSUME NEW e \in Journal(t), NEW f \in Journal(t), Precedes(t, e, f), e.kind = f.kind,
               NEW m \in Elements(e.of), NEW n \in Elements(f.of)
        PROVE  m < n
    <3>1. Pre(log[t], writes[t], batch[t], e, f)
        BY <2>3, PrecedesIsPre
    <3>2. QED
        BY <2>1, <2>3, <3>1 DEF StreamOK
  <2>4. ASSUME ~failed, NEW n \in DOMAIN accepted[t]
        PROVE  Obsolete(t, n, Len(accepted[t])) \/ \E e \in Journal(t): n \in Elements(e.of)
    <3>1. n \in 1..Len(accepted[t])
        BY SegmentIsSeg
    <3>2. Obs(accepted[t], n, Len(accepted[t]))
          \/ \E e: Held(log[t], writes[t], batch[t], e) /\ n \in Elements(e.of)
        BY <2>1, <2>4, <3>1 DEF Complete
    <3>3. QED
        BY <3>2, ObsoleteIsObs, JournalIsHeld
  <2>5. QED
      BY <2>2, <2>3, <2>4
<1>2. QED
    BY WriterInvariant, <1>1, PTL

(* Terminal and tool events are never overtaken: what is merged and what   *)
(* is queued keeps the order of everything else.                           *)
THEOREM TheOrderIsKept == Spec => []OrderIsKept
<1>1. WriterInv => OrderIsKept
  <2> SUFFICES ASSUME WriterInv, NEW t \in Thread, NEW e \in Journal(t), NEW f \in Journal(t),
                      Precedes(t, e, f), \E m \in Elements(e.of), n \in Elements(f.of): m > n
               PROVE  {e.kind, f.kind} \cap Single = {} /\ Twins(e.kind, f.kind)
      BY DEF OrderIsKept
  <2>1. OrderOK(log[t], writes[t], batch[t])
      BY InvParts DEF ThreadInv, ThreadOK
  <2>2. Pre(log[t], writes[t], batch[t], e, f)
      BY PrecedesIsPre
  <2>3. QED
      BY <2>1, <2>2 DEF OrderOK
<1>2. QED
    BY WriterInvariant, <1>1, PTL

(* A flush that returned without an error kept its promise, for as long as *)
(* the program runs: all that was appended before it was called is stored  *)
(* or was obsolete by then.                                                *)
THEOREM AFlushMeansStored == Spec => []FlushMeansStored
<1>1. WriterInv => FlushMeansStored
  <2> SUFFICES ASSUME WriterInv, NEW t \in Thread, NEW n \in 1..flushed[t]
               PROVE  \/ \E i \in DOMAIN log[t]: n \in Elements(log[t][i].of)
                      \/ Obsolete(t, n, flushed[t])
      BY DEF FlushMeansStored
  <2>1. Promised(accepted[t], log[t], writes[t], batch[t], 0, flushed[t])
      BY InvParts DEF ThreadInv, FlushOK
  <2>2. Obs(accepted[t], n, flushed[t])
        \/ \E e: Front(log[t], writes[t], batch[t], 0, e) /\ n \in Elements(e.of)
      BY <2>1 DEF Promised
  <2>3. Typed(Len(accepted[t]), log[t], writes[t], batch[t])
      BY InvParts DEF ThreadType
  <2>4. \A e: Front(log[t], writes[t], batch[t], 0, e) => \E i \in 1..Len(log[t]): e = log[t][i]
      BY <2>3, FrontIsHeld
  <2>5. QED
      BY <2>2, <2>4, ObsoleteIsObs, SegmentIsSeg
<1>2. QED
    BY WriterInvariant, <1>1, PTL
=============================================================================
