-------------------------- MODULE MsgQueue_proofs --------------------------
(***************************************************************************)
(* A queue of any size is a bounded FIFO channel for one writer and one    *)
(* reader, although neither takes a lock.                                  *)
(*                                                                         *)
(* RingInv says what each thread may rely on while the other moves: the    *)
(* writer's test stays true because only the reader moves the front, and   *)
(* away from the rear; the reader's test stays true because only the       *)
(* writer moves the rear.                                                  *)
(***************************************************************************)
EXTENDS MsgQueue, TLAPS

WriterInv ==
    /\ writer = "idle" <=> writing = Nothing
    /\ writer \in {"store", "move"} => Following(rear) # front
    /\ writer = "move" => node[rear] = writing

ReaderInv ==
    /\ reader # "idle" => rear # front
    /\ reader \in {"idle", "load"} => loaded = Nothing
    /\ reader = "clear" => loaded = node[front]
    /\ reader = "move" => loaded \in Message

RingInv == TypeOK /\ WriterInv /\ ReaderInv /\ NullOutsideWindow

-----------------------------------------------------------------------------
LEMMA InitRing == Init => RingInv
BY QueueAssumption
   DEF Init, RingInv, TypeOK, WriterInv, ReaderInv, NullOutsideWindow, Nodes, InWindow

\* A step of the writer leaves what the reader relies on, and keeps the window.
LEMMA WriterRing == RingInv /\ Writer => RingInv'
<1>. SUFFICES ASSUME RingInv, Writer PROVE RingInv'
  OBVIOUS
<1>. USE QueueAssumption
     DEF RingInv, TypeOK, WriterInv, ReaderInv, NullOutsideWindow, Nodes,
         InWindow, Following, readerVars
<1>1. ASSUME NEW m \in Message, NEW blocking \in BOOLEAN, CallWrite(m, blocking),
             UNCHANGED readerVars
      PROVE RingInv'
  BY <1>1 DEF CallWrite
<1>2. CASE TestFull /\ UNCHANGED readerVars
  BY <1>2 DEF TestFull, Full
<1>3. CASE Store /\ UNCHANGED readerVars
  BY <1>3 DEF Store
<1>4. CASE MoveRear /\ UNCHANGED readerVars
  BY <1>4 DEF MoveRear
<1>. QED  BY <1>1, <1>2, <1>3, <1>4 DEF Writer

\* The same for a step of the reader.
LEMMA ReaderRing == RingInv /\ Reader => RingInv'
<1>. SUFFICES ASSUME RingInv, Reader PROVE RingInv'
  OBVIOUS
<1>. USE QueueAssumption
     DEF RingInv, TypeOK, WriterInv, ReaderInv, NullOutsideWindow, Nodes,
         InWindow, Following, writerVars
<1>1. CASE TestEmpty /\ UNCHANGED writerVars
  BY <1>1 DEF TestEmpty
<1>2. CASE Load /\ UNCHANGED writerVars
  BY <1>2 DEF Load
<1>3. CASE Clear /\ UNCHANGED writerVars
  BY <1>3 DEF Clear
<1>4. CASE MoveFront /\ UNCHANGED writerVars
  BY <1>4 DEF MoveFront
<1>. QED  BY <1>1, <1>2, <1>3, <1>4 DEF Reader

LEMMA NextRing == RingInv /\ [Next]_vars => RingInv'
<1>. SUFFICES ASSUME RingInv, UNCHANGED vars PROVE RingInv'
  BY WriterRing, ReaderRing DEF Next
<1>. QED
  BY DEF vars, RingInv, TypeOK, WriterInv, ReaderInv, NullOutsideWindow,
         InWindow, Following

LEMMA Ring == Spec => []RingInv
<1>. QED  BY InitRing, NextRing, PTL DEF Spec

\* Front and rear stay on nodes of the ring, however the threads interleave.
THEOREM RingTyped == Spec => []TypeOK
<1>1. RingInv => TypeOK
  BY DEF RingInv
<1>. QED  BY Ring, <1>1, PTL

\* The nodes between front and rear hold messages and the others NULL, for a
\* queue of any size.
THEOREM WindowHoldsTheMessages == Spec => []NullOutsideWindow
<1>1. RingInv => NullOutsideWindow
  BY DEF RingInv
<1>. QED  BY Ring, <1>1, PTL

-----------------------------------------------------------------------------
(* Refinement *)

\* The messages held are a sequence, as long as the window.
LEMMA HeldSeq ==
    ASSUME RingInv
    PROVE  /\ Length \in 0 .. QueueSize - 1
           /\ \A k \in 1 .. Length : At(k) \in Nodes /\ InWindow(At(k))
           /\ \A k \in 1 .. Length : At(k) = front <=> k = 1
           /\ Held \in Seq(Message)
           /\ Len(Held) = Length
<1>. USE QueueAssumption DEF RingInv, TypeOK, Nodes
<1>1. Length \in 0 .. QueueSize - 1
  BY DEF Length
<1>2. \A k \in 1 .. Length : At(k) \in Nodes /\ InWindow(At(k))
  BY DEF Length, At, InWindow
<1>3. \A k \in 1 .. Length : At(k) = front <=> k = 1
  BY DEF Length, At
<1>4. \A k \in 1 .. Length :
        (IF k = 1 /\ reader = "move" THEN loaded ELSE node[At(k)]) \in Message
  BY <1>2, <1>3 DEF NullOutsideWindow, ReaderInv
<1>5. Held \in Seq(Message) /\ Len(Held) = Length
  BY <1>1, <1>4 DEF Held
<1>. QED  BY <1>1, <1>2, <1>3, <1>5

\* The rear node is not in the window, so the writer's store is not seen.
LEMMA RearOutside ==
    ASSUME RingInv
    PROVE  ~InWindow(rear)
BY QueueAssumption DEF RingInv, TypeOK, Nodes, InWindow

\* Moving the rear appends the message that was stored.
LEMMA MoveRearWrites ==
    ASSUME RingInv, RingInv', MoveRear, UNCHANGED readerVars
    PROVE  Channel!Write(writing)
<1>. USE QueueAssumption
<1>1. /\ Length < QueueSize - 1
      /\ Length' = Length + 1
      /\ \A k \in 1 .. Length + 1 : At(k)' = At(k)
      /\ At(Length + 1) = rear
  BY DEF RingInv, TypeOK, Nodes, WriterInv, MoveRear, Following, readerVars,
         Length, At
<1>2. writing \in Message /\ node[rear] = writing
  BY DEF RingInv, TypeOK, WriterInv, MoveRear
<1>3. reader = "move" => Length >= 1
  BY DEF RingInv, TypeOK, ReaderInv, Length, Nodes
<1>4. Held' = Append(Held, writing)
  <2>1. Held \in Seq(Message) /\ Len(Held) = Length /\ Length \in Nat
    BY HeldSeq
  <2>2. Held' = [k \in 1 .. Length + 1 |->
                   IF k = 1 /\ reader = "move" THEN loaded ELSE node[At(k)]]
    BY <1>1 DEF Held, MoveRear, readerVars
  <2>3. \A k \in 1 .. Length : Held'[k] = Held[k]
    <3>1. \A k \in 1 .. Length :
            Held[k] = IF k = 1 /\ reader = "move" THEN loaded ELSE node[At(k)]
      BY DEF Held
    <3>2. \A k \in 1 .. Length : k \in 1 .. Length + 1
      BY <2>1
    <3>. QED  BY <2>2, <3>1, <3>2
  <2>4. Held'[Length + 1] = writing
    BY <1>1, <1>2, <1>3, <2>1, <2>2
  <2>5. Held' \in Seq(Message) /\ Len(Held') = Length + 1
    <3>1. (Held \in Seq(Message) /\ Len(Held) = Length)'
      BY HeldSeq, PTL
    <3>. QED  BY <1>1, <3>1
  <2>. QED  BY <1>2, <2>1, <2>3, <2>4, <2>5
<1>. QED  BY <1>1, <1>4, HeldSeq DEF Channel!Write, MoveRear, readerVars

\* Moving the front takes the message that was loaded.
LEMMA MoveFrontReads ==
    ASSUME RingInv, RingInv', MoveFront, UNCHANGED writerVars
    PROVE  Channel!Read
<1>. USE QueueAssumption
<1>1. /\ Length >= 1
      /\ Length' = Length - 1
      /\ \A k \in 1 .. Length - 1 : At(k)' = At(k + 1)
  BY DEF RingInv, TypeOK, Nodes, ReaderInv, MoveFront, Following, writerVars,
         Length, At
<1>2. Held \in Seq(Message) /\ Len(Held) = Length /\ Length \in Nat
  BY HeldSeq
<1>3. Held' \in Seq(Message) /\ Len(Held') = Length - 1
  <2>1. (Held \in Seq(Message) /\ Len(Held) = Length)'
    BY HeldSeq, PTL
  <2>. QED  BY <1>1, <2>1
<1>4. Head(Held) = loaded
  BY <1>1, <1>2 DEF Held, MoveFront
<1>5. \A k \in 1 .. Length - 1 : Held'[k] = Held[k + 1]
  <2>1. \A k \in 1 .. Length - 1 : Held[k + 1] = node[At(k + 1)]
    BY <1>2 DEF Held
  <2>2. \A k \in 1 .. Length - 1 : Held'[k] = node[At(k)']
    BY <1>1, <1>2 DEF Held, MoveFront
  <2>. QED  BY <1>1, <2>1, <2>2
<1>6. Held' = Tail(Held)
  BY <1>1, <1>2, <1>3, <1>5
<1>. QED  BY <1>1, <1>2, <1>4, <1>6 DEF Channel!Read, MoveFront, writerVars

\* What the other steps of the writer do: a refused write, or nothing.
LEMMA WriterRefines ==
    ASSUME RingInv, RingInv', Writer
    PROVE  [Channel!Next]_Channel!vars
<1>. USE QueueAssumption
<1>1. ASSUME NEW m \in Message, NEW blocking \in BOOLEAN, CallWrite(m, blocking),
             UNCHANGED readerVars
      PROVE Held' = Held /\ written' = written /\ got' = got
  BY <1>1 DEF CallWrite, readerVars, Held, Length, At
<1>2. CASE TestFull /\ UNCHANGED readerVars
  <2>1. Held' = Held /\ got' = got
    BY <1>2 DEF TestFull, readerVars, Held, Length, At
  <2>2. CASE ~Full
    BY <1>2, <2>1, <2>2 DEF TestFull, Channel!vars
  <2>3. CASE Full
    <3>1. Length = QueueSize - 1
      BY <2>3 DEF RingInv, TypeOK, Nodes, Full, Following, Length
    <3>2. Len(Held) = QueueSize - 1
      BY <3>1, HeldSeq
    <3>3. written' = Nothing
      BY <1>2, <2>3 DEF TestFull
    <3>. QED  BY <2>1, <3>2, <3>3 DEF Channel!Next, Channel!Refuse
  <2>. QED  BY <2>2, <2>3
<1>3. CASE Store /\ UNCHANGED readerVars
  <2>1. \A k \in 1 .. Length : node'[At(k)] = node[At(k)]
    BY <1>3, HeldSeq, RearOutside DEF Store, RingInv, TypeOK
  <2>2. Length' = Length /\ \A k \in 1 .. Length : At(k)' = At(k)
    BY <1>3 DEF Store, readerVars, Length, At
  <2>3. Held' = Held
    BY <1>3, <2>1, <2>2 DEF Held, readerVars
  <2>. QED  BY <1>3, <2>3 DEF Store, readerVars, Channel!vars
<1>4. CASE MoveRear /\ UNCHANGED readerVars
  <2>1. writing \in Message
    BY <1>4 DEF RingInv, TypeOK, WriterInv, MoveRear
  <2>. QED  BY <1>4, <2>1, MoveRearWrites DEF Channel!Next
<1>. QED  BY <1>1, <1>2, <1>3, <1>4 DEF Writer, Channel!vars

\* What the other steps of the reader do: a read of an empty channel, or nothing.
LEMMA ReaderRefines ==
    ASSUME RingInv, RingInv', Reader
    PROVE  [Channel!Next]_Channel!vars
<1>. USE QueueAssumption
<1>1. CASE TestEmpty /\ UNCHANGED writerVars
  <2>1. Held' = Held /\ written' = written
    BY <1>1 DEF TestEmpty, writerVars, Held, Length, At, RingInv, TypeOK
  <2>2. CASE rear # front
    BY <1>1, <2>1, <2>2 DEF TestEmpty, Channel!vars
  <2>3. CASE rear = front
    <3>1. Len(Held) = 0 /\ Held \in Seq(Message)
      BY <2>3, HeldSeq DEF Length, RingInv, TypeOK, Nodes
    <3>2. Held = <<>>
      BY <3>1
    <3>. QED  BY <1>1, <2>1, <2>3, <3>2 DEF TestEmpty, Channel!Next, Channel!ReadNothing
  <2>. QED  BY <2>2, <2>3
<1>2. CASE Load /\ UNCHANGED writerVars
  <2>1. Held' = Held
    BY <1>2 DEF Load, writerVars, Held, Length, At
  <2>. QED  BY <1>2, <2>1 DEF Load, writerVars, Channel!vars
<1>3. CASE Clear /\ UNCHANGED writerVars
  <2>1. Length' = Length /\ \A k \in 1 .. Length : At(k)' = At(k)
    BY <1>3 DEF Clear, writerVars, Length, At
  <2>2. \A k \in 1 .. Length :
          IF k = 1 THEN loaded' = node[At(k)] ELSE node'[At(k)] = node[At(k)]
    BY <1>3, HeldSeq DEF Clear, RingInv, TypeOK, ReaderInv
  <2>3. Held' = Held
    BY <1>3, <2>1, <2>2 DEF Held, Clear
  <2>. QED  BY <1>3, <2>3 DEF Clear, writerVars, Channel!vars
<1>4. CASE MoveFront /\ UNCHANGED writerVars
  BY <1>4, MoveFrontReads DEF Channel!Next
<1>. QED  BY <1>1, <1>2, <1>3, <1>4 DEF Reader

\* A queue of any size implements a FIFO channel of one message less: nothing
\* is lost, repeated or reordered, and a full or empty answer is right.
THEOREM QueueRefinesChannel == Spec => ImplementsChannel
<1>1. Init => Channel!Init
  <2>. SUFFICES ASSUME Init PROVE Channel!Init
    OBVIOUS
  <2>1. RingInv
    BY InitRing
  <2>2. Len(Held) = 0 /\ Held \in Seq(Message)
    BY <2>1, HeldSeq DEF Init, Length
  <2>. QED  BY <2>2 DEF Init, Channel!Init
<1>2. RingInv /\ RingInv' /\ [Next]_vars => [Channel!Next]_Channel!vars
  <2>. SUFFICES ASSUME RingInv, RingInv', UNCHANGED vars PROVE UNCHANGED Channel!vars
    BY WriterRefines, ReaderRefines DEF Next
  <2>. QED  BY DEF vars, Channel!vars, Held, Length, At
<1>. QED  BY Ring, <1>1, <1>2, PTL DEF Spec, ImplementsChannel, Channel!Spec
=============================================================================
