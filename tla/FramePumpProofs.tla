--------------------------- MODULE FramePumpProofs ---------------------------
(***************************************************************************)
(* Proofs about SseFramePump for every limit, frame size and number of      *)
(* frames, and about the backend under load (StreamLoad), whose connection  *)
(* is such a pump, for every soft limit, greatest share to shed and number  *)
(* of stages and runs.                                                      *)
(***************************************************************************)
EXTENDS StreamLoad, FiniteSetTheorems, SequenceTheorems, WellFoundedInduction, TLAPS

\* Splitting a queue at n keeps its frames, their order and their number.
LEMMA SplitFacts ==
    ASSUME NEW frames \in Seq(Frame), NEW n \in 0 .. Len(frames)
    PROVE  /\ First(frames, n) \in Seq(Frame) /\ Len(First(frames, n)) = n
           /\ \A i \in 1 .. n : First(frames, n)[i] = frames[i]
           /\ Rest(frames, n) \in Seq(Frame) /\ Len(Rest(frames, n)) = Len(frames) - n
           /\ \A i \in 1 .. Len(frames) - n : Rest(frames, n)[i] = frames[n + i]
    BY DEF First, Rest

LEMMA SplitSets ==
    ASSUME NEW frames \in Seq(Frame), NEW n \in 0 .. Len(frames)
    PROVE  ToSet(frames) = ToSet(First(frames, n)) \union ToSet(Rest(frames, n))
<1> DEFINE F == First(frames, n)
<1> DEFINE R == Rest(frames, n)
<1>a. /\ F \in Seq(Frame) /\ Len(F) = n /\ \A i \in 1 .. n : F[i] = frames[i]
      /\ R \in Seq(Frame) /\ Len(R) = Len(frames) - n
      /\ \A i \in 1 .. Len(frames) - n : R[i] = frames[n + i]
    BY SplitFacts
<1>b. /\ DOMAIN F = 1 .. n /\ DOMAIN R = 1 .. Len(frames) - n
      /\ DOMAIN frames = 1 .. Len(frames)
    BY <1>a
<1> HIDE DEF F, R
<1>1. \A i \in DOMAIN frames : \/ i \in DOMAIN F /\ frames[i] = F[i]
                               \/ i - n \in DOMAIN R /\ frames[i] = R[i - n]
    <2> TAKE i \in DOMAIN frames
    <2>1. CASE i <= n
        BY <2>1, <1>a, <1>b
    <2>2. CASE ~(i <= n)
        <3>1. i - n \in 1 .. Len(frames) - n /\ n + (i - n) = i
            BY <2>2, <1>b
        <3> QED
            BY <3>1, <1>a, <1>b
    <2> QED
        BY <2>1, <2>2
<1>2. \A i \in DOMAIN F : i \in DOMAIN frames /\ F[i] = frames[i]
    BY <1>a, <1>b
<1>3. \A i \in DOMAIN R : n + i \in DOMAIN frames /\ R[i] = frames[n + i]
    BY <1>a, <1>b
<1>4. ToSet(frames) = ToSet(F) \union ToSet(R)
    BY <1>1, <1>2, <1>3 DEF ToSet
<1> QED
    BY <1>4 DEF F, R

\* Cutting an ordered queue leaves two ordered parts, the head before the rest.
LEMMA SplitOrder ==
    ASSUME NEW frames \in Seq(Frame), NEW n \in 0 .. Len(frames), Increasing(frames)
    PROVE  /\ Increasing(First(frames, n)) /\ Increasing(Rest(frames, n))
           /\ \A f \in ToSet(First(frames, n)), g \in ToSet(Rest(frames, n)) : f.id < g.id
<1> DEFINE F == First(frames, n)
<1> DEFINE R == Rest(frames, n)
<1>a. /\ F \in Seq(Frame) /\ Len(F) = n /\ \A i \in 1 .. n : F[i] = frames[i]
      /\ R \in Seq(Frame) /\ Len(R) = Len(frames) - n
      /\ \A i \in 1 .. Len(frames) - n : R[i] = frames[n + i]
    BY SplitFacts
<1>b. /\ DOMAIN F = 1 .. n /\ DOMAIN R = 1 .. Len(frames) - n
      /\ DOMAIN frames = 1 .. Len(frames)
    BY <1>a
<1> HIDE DEF F, R
<1>2. Increasing(F)
    BY <1>a, <1>b DEF Increasing
<1>3. Increasing(R)
    <2> SUFFICES ASSUME NEW i \in DOMAIN R, NEW j \in DOMAIN R, i < j
                 PROVE  R[i].id < R[j].id
        BY DEF Increasing
    <2>1. n + i \in DOMAIN frames /\ n + j \in DOMAIN frames /\ n + i < n + j
        BY <1>b
    <2> QED
        BY <2>1, <1>a, <1>b DEF Increasing
<1>4. ASSUME NEW i \in DOMAIN F, NEW j \in DOMAIN R
      PROVE  F[i].id < R[j].id
    <2>1. i \in DOMAIN frames /\ n + j \in DOMAIN frames /\ i < n + j
        BY <1>b
    <2> QED
        BY <2>1, <1>a, <1>b DEF Increasing
<1>5. \A f \in ToSet(F), g \in ToSet(R) : f.id < g.id
    BY <1>4 DEF ToSet
<1> QED
    BY <1>2, <1>3, <1>5 DEF F, R

\* Joining two ordered sequences, the first before the second.
LEMMA JoinOrder ==
    ASSUME NEW s \in Seq(Frame), NEW t \in Seq(Frame), Increasing(s), Increasing(t),
           \A f \in ToSet(s), g \in ToSet(t) : f.id < g.id
    PROVE  /\ s \o t \in Seq(Frame) /\ Increasing(s \o t)
           /\ ToSet(s \o t) = ToSet(s) \union ToSet(t)
<1> DEFINE st == s \o t
<1>1. /\ st \in Seq(Frame) /\ Len(st) = Len(s) + Len(t)
      /\ \A i \in 1 .. Len(s) : st[i] = s[i]
      /\ \A i \in Len(s) + 1 .. Len(s) + Len(t) : st[i] = t[i - Len(s)]
    OBVIOUS
<1>2. DOMAIN st = 1 .. Len(s) + Len(t) /\ DOMAIN s = 1 .. Len(s) /\ DOMAIN t = 1 .. Len(t)
    BY <1>1
<1> HIDE DEF st
<1>3. ToSet(st) = ToSet(s) \union ToSet(t)
    <2>1. \A i \in DOMAIN st : \/ i \in DOMAIN s /\ st[i] = s[i]
                               \/ i - Len(s) \in DOMAIN t /\ st[i] = t[i - Len(s)]
        BY <1>1, <1>2
    <2>2. \A i \in DOMAIN s : i \in DOMAIN st /\ st[i] = s[i]
        BY <1>1, <1>2
    <2>3. \A i \in DOMAIN t : Len(s) + i \in DOMAIN st /\ st[Len(s) + i] = t[i]
        BY <1>1, <1>2
    <2> QED
        BY <2>1, <2>2, <2>3 DEF ToSet
<1>4. ASSUME NEW i \in DOMAIN st, NEW j \in DOMAIN st, i < j
      PROVE  st[i].id < st[j].id
    <2>1. CASE j \in 1 .. Len(s)
        BY <2>1, <1>1, <1>2, <1>4 DEF Increasing
    <2>2. CASE i \notin 1 .. Len(s)
        <3>1. /\ i \in Len(s) + 1 .. Len(s) + Len(t) /\ j \in Len(s) + 1 .. Len(s) + Len(t)
              /\ i - Len(s) \in DOMAIN t /\ j - Len(s) \in DOMAIN t /\ i - Len(s) < j - Len(s)
            BY <2>2, <1>2, <1>4
        <3>2. st[i] = t[i - Len(s)] /\ st[j] = t[j - Len(s)]
            BY <3>1, <1>1
        <3> QED
            BY <3>1, <3>2 DEF Increasing
    <2>3. CASE i \in 1 .. Len(s) /\ j \notin 1 .. Len(s)
        <3>1. st[i] = s[i] /\ i \in DOMAIN s
            BY <2>3, <1>1, <1>2
        <3>2. j \in Len(s) + 1 .. Len(s) + Len(t) /\ j - Len(s) \in DOMAIN t
            BY <2>3, <1>2, <1>4
        <3>3. st[j] = t[j - Len(s)]
            BY <3>2, <1>1
        <3> QED
            BY <3>1, <3>2, <3>3 DEF ToSet
    <2> QED
        BY <2>1, <2>2, <2>3, <1>2, <1>4
<1> QED
    BY <1>1, <1>3, <1>4 DEF st, Increasing

\* A flush moves a head of the line to the socket and leaves the rest in order.
LEMMA FlushFacts ==
    ASSUME NEW frames \in Seq(Frame), NEW bytes, NEW waiting \in BOOLEAN,
           TypeOK, Flush(frames, bytes, waiting),
           Increasing(frames), Increasing(sent),
           \A f \in ToSet(sent), g \in ToSet(frames) : f.id < g.id
    PROVE  /\ sent' \in Seq(Frame) /\ queue' \in Seq(Frame) /\ waitingDrain' \in BOOLEAN
           /\ Len(queue') <= Len(frames)
           /\ ToSet(queue') \subseteq ToSet(frames) /\ ToSet(sent) \subseteq ToSet(sent')
           /\ ToSet(sent') \union ToSet(queue') = ToSet(sent) \union ToSet(frames)
           /\ InOrder' /\ NoStall'
<1>1. PICK n \in 0 .. Len(frames), ok \in BOOLEAN :
         /\ IF waiting THEN n = 0 /\ ~ok
            ELSE (ok /\ n = Len(frames)) \/ (~ok /\ n > 0)
         /\ queue' = Rest(frames, n)
         /\ waitingDrain' = ~ok
         /\ sent' = sent \o First(frames, n)
    BY DEF Flush
<1> DEFINE F == First(frames, n)
<1> DEFINE R == Rest(frames, n)
<1>2. /\ F \in Seq(Frame) /\ R \in Seq(Frame) /\ Len(R) = Len(frames) - n
      /\ ToSet(frames) = ToSet(F) \union ToSet(R)
      /\ Increasing(F) /\ Increasing(R)
      /\ \A f \in ToSet(F), g \in ToSet(R) : f.id < g.id
    BY SplitFacts, SplitSets, SplitOrder
<1>3. queue' = R /\ sent' = sent \o F /\ sent \in Seq(Frame)
    BY <1>1 DEF TypeOK
<1> HIDE DEF F, R
<1>4. \A f \in ToSet(sent), g \in ToSet(F) : f.id < g.id
    BY <1>2
<1>5. /\ sent \o F \in Seq(Frame) /\ Increasing(sent \o F)
      /\ ToSet(sent \o F) = ToSet(sent) \union ToSet(F)
    BY <1>2, <1>3, <1>4, JoinOrder
<1>6. sent' \in Seq(Frame) /\ queue' \in Seq(Frame) /\ waitingDrain' \in BOOLEAN
    BY <1>1, <1>2, <1>3, <1>5
<1>7. ToSet(sent') = ToSet(sent) \union ToSet(F) /\ ToSet(queue') = ToSet(R)
    BY <1>3, <1>5
<1>8. /\ ToSet(queue') \subseteq ToSet(frames) /\ ToSet(sent) \subseteq ToSet(sent')
      /\ ToSet(sent') \union ToSet(queue') = ToSet(sent) \union ToSet(frames)
    BY <1>2, <1>7
<1>9. \A f \in ToSet(sent'), g \in ToSet(queue') : f.id < g.id
    BY <1>2, <1>7, <1>8
<1>10. Increasing(sent') /\ Increasing(queue')
    BY <1>2, <1>3, <1>5
<1>11. InOrder'
    BY <1>9, <1>10 DEF InOrder, Increasing, ToSet
<1>12. Len(queue') <= Len(frames)
    BY <1>1, <1>2, <1>3
<1>13. queue' # <<>> => waitingDrain'
    <2>1. CASE ok
        <3>1. Len(R) = 0
            BY <2>1, <1>1, <1>2
        <3> QED
            BY <3>1, <1>2, <1>3
    <2>2. CASE ~ok
        BY <2>2, <1>1
    <2> QED
        BY <2>1, <2>2
<1> QED
    BY <1>6, <1>8, <1>11, <1>12, <1>13 DEF NoStall

-----------------------------------------------------------------------------

\* A frame's number is its id; new ones are larger than any the pump has seen.
LEMMA SeenIds ==
    ASSUME IInv
    PROVE  \A f \in ToSet(sent) \union dropped \union ToSet(queue) \union refused :
             f.id \in 1 .. offered
    BY DEF IInv, OneFate, Ids

\* enqueue on the three ways it can go keeps the invariant.
LEMMA RefuseStep ==
    ASSUME IInv, NEW bytes \in FrameBytes, Enqueue(bytes), closed
    PROVE  IInv'
<1> DEFINE frame == [id |-> offered + 1, bytes |-> bytes]
<1>1. /\ offered < MaxOffers /\ offered' = offered + 1
      /\ refused' = refused \union {frame} /\ closed' = closed
      /\ UNCHANGED <<queue, waitingDrain, sent, dropped>>
    BY DEF Enqueue, Refuse
<1>2. frame \in Frame /\ offered' \in 0 .. MaxOffers /\ frame.id = offered + 1
    BY <1>1, PumpAssumption DEF IInv, TypeOK, Frame
<1> HIDE DEF frame
<1>3. TypeOK'
    BY <1>1, <1>2 DEF IInv, TypeOK
<1>4. OneFate'
    <2>1. Ids(refused') = Ids(refused) \union {offered + 1}
        BY <1>1, <1>2 DEF Ids
    <2>2. 1 .. offered' = (1 .. offered) \union {offered + 1} /\ offered + 1 \notin 1 .. offered
        BY <1>1 DEF IInv, TypeOK
    <2> QED
        BY <2>1, <2>2, <1>1 DEF IInv, OneFate
<1>5. FramesBounded' /\ InOrder' /\ DropsOldest' /\ NoStall'
    BY <1>1 DEF IInv, FramesBounded, InOrder, DropsOldest, NoStall, Increasing, TooBig
<1> QED
    BY <1>3, <1>4, <1>5 DEF IInv

LEMMA OversizedStep ==
    ASSUME IInv, NEW bytes \in FrameBytes, Enqueue(bytes), ~closed, TooBig(bytes)
    PROVE  IInv'
<1> DEFINE frame == [id |-> offered + 1, bytes |-> bytes]
<1>1. /\ offered < MaxOffers /\ offered' = offered + 1
      /\ dropped' = dropped \union {frame} /\ closed' = closed
      /\ UNCHANGED <<queue, waitingDrain, sent, refused>>
    BY DEF Enqueue, DropOversized
<1>2. /\ frame \in Frame /\ offered' \in 0 .. MaxOffers /\ frame.id = offered + 1
      /\ TooBig(frame.bytes)
    BY <1>1, PumpAssumption DEF IInv, TypeOK, Frame
<1> HIDE DEF frame
<1>3. TypeOK'
    BY <1>1, <1>2 DEF IInv, TypeOK
<1>4. OneFate'
    <2>1. Ids(dropped') = Ids(dropped) \union {offered + 1}
        BY <1>1, <1>2 DEF Ids
    <2>2. 1 .. offered' = (1 .. offered) \union {offered + 1} /\ offered + 1 \notin 1 .. offered
        BY <1>1 DEF IInv, TypeOK
    <2> QED
        BY <2>1, <2>2, <1>1 DEF IInv, OneFate
<1>5. DropsOldest'
    BY <1>1, <1>2 DEF IInv, DropsOldest, TooBig
<1>6. FramesBounded' /\ InOrder' /\ NoStall'
    BY <1>1 DEF IInv, FramesBounded, InOrder, NoStall, Increasing
<1> QED
    BY <1>3, <1>4, <1>5, <1>6 DEF IInv

\* The third way also loses sight of no frame: each was written, dropped or is
\* still queued.
LEMMA PushStep ==
    ASSUME IInv, NEW bytes \in FrameBytes, Enqueue(bytes), ~closed, ~TooBig(bytes)
    PROVE  /\ IInv' /\ offered' = offered + 1 /\ closed' = closed
           /\ ToSet(sent) \subseteq ToSet(sent') /\ dropped \subseteq dropped'
           /\ ToSet(sent') \union ToSet(queue') \union dropped'
                = ToSet(sent) \union ToSet(queue) \union dropped
                  \union {[id |-> offered + 1, bytes |-> bytes]}
<1> DEFINE frame == [id |-> offered + 1, bytes |-> bytes]
<1>1. PICK n \in 0 .. Len(queue) : MakesRoom(n, bytes) /\ Push(frame, n)
    BY DEF Enqueue
<1>2. /\ offered < MaxOffers /\ offered' = offered + 1 /\ closed' = closed
    BY DEF Enqueue
<1> DEFINE kept == Rest(queue, n)
<1> DEFINE gone == First(queue, n)
<1> DEFINE line == Append(kept, frame)
<1>3. /\ dropped' = dropped \union ToSet(gone)
      /\ Flush(line, BytesAfter(n) + frame.bytes, waitingDrain)
      /\ refused' = refused
    BY <1>1 DEF Push, DropOldest
<1>4. /\ frame \in Frame /\ frame.id = offered + 1 /\ frame.bytes = bytes
      /\ offered' \in 0 .. MaxOffers /\ offered \in Nat
    BY <1>2, PumpAssumption DEF IInv, TypeOK, Frame
<1>5. /\ kept \in Seq(Frame) /\ gone \in Seq(Frame) /\ Len(kept) = Len(queue) - n
      /\ ToSet(queue) = ToSet(gone) \union ToSet(kept)
      /\ Increasing(kept) /\ Increasing(gone)
      /\ \A f \in ToSet(gone), g \in ToSet(kept) : f.id < g.id
    BY SplitFacts, SplitSets, SplitOrder DEF IInv, TypeOK, InOrder
<1>6. MaxPendingFrames > 0 => Len(kept) < MaxPendingFrames
    <2>1. CASE n = Len(queue)
        BY <2>1, <1>5, PumpAssumption DEF IInv, TypeOK
    <2>2. CASE HasRoom(DropOldest(n).kept, BytesAfter(n), bytes)
        BY <2>2 DEF HasRoom, DropOldest
    <2> QED
        BY <2>1, <2>2, <1>1 DEF MakesRoom
<1>7. /\ ToSet(gone) \subseteq Frame /\ ToSet(kept) \subseteq Frame
      /\ ToSet(sent) \subseteq Frame
    BY <1>5 DEF ToSet, IInv, TypeOK
<1> HIDE DEF kept, gone, frame
<1>8. \A f \in ToSet(sent) \union dropped \union ToSet(queue) \union refused : f.id \in 1 .. offered
    BY SeenIds
<1>9. /\ Increasing(<<frame>>) /\ <<frame>> \in Seq(Frame) /\ ToSet(<<frame>>) = {frame}
      /\ line = kept \o <<frame>>
    BY <1>4, <1>5 DEF Increasing, ToSet
<1>10. \A f \in ToSet(kept), g \in ToSet(<<frame>>) : f.id < g.id
    BY <1>4, <1>5, <1>8, <1>9
<1>11. line \in Seq(Frame) /\ Increasing(line) /\ ToSet(line) = ToSet(kept) \union {frame}
    <2>1. /\ kept \o <<frame>> \in Seq(Frame) /\ Increasing(kept \o <<frame>>)
          /\ ToSet(kept \o <<frame>>) = ToSet(kept) \union ToSet(<<frame>>)
        BY <1>5, <1>9, <1>10, JoinOrder
    <2> QED
        BY <2>1, <1>9
<1>12. Len(line) = Len(kept) + 1
    BY <1>4, <1>5
<1> HIDE DEF line
<1>13. \A f \in ToSet(sent), g \in ToSet(line) : f.id < g.id
    <2>1. \A f \in ToSet(sent), g \in ToSet(queue) : f.id < g.id
        BY DEF IInv, InOrder
    <2>2. \A f \in ToSet(sent) : f.id < offered + 1
        BY <1>4, <1>8
    <2> QED
        BY <2>1, <2>2, <1>4, <1>5, <1>11
<1>14. TypeOK /\ waitingDrain \in BOOLEAN /\ Increasing(sent)
    BY DEF IInv, TypeOK, InOrder
<1>15. /\ sent' \in Seq(Frame) /\ queue' \in Seq(Frame) /\ waitingDrain' \in BOOLEAN
       /\ Len(queue') <= Len(line)
       /\ ToSet(queue') \subseteq ToSet(line) /\ ToSet(sent) \subseteq ToSet(sent')
       /\ ToSet(sent') \union ToSet(queue') = ToSet(sent) \union ToSet(line)
       /\ InOrder' /\ NoStall'
    BY <1>3, <1>11, <1>13, <1>14, FlushFacts
<1>16. TypeOK'
    BY <1>2, <1>3, <1>4, <1>7, <1>14, <1>15 DEF TypeOK
<1>17. FramesBounded'
    <2>1. Len(queue') \in Nat /\ Len(kept) \in Nat
        BY <1>5, <1>15
    <2> QED
        BY <2>1, <1>6, <1>12, <1>15, PumpAssumption DEF FramesBounded
<1>18. OneFate'
    <2>1. Ids(dropped') = Ids(dropped) \union Ids(ToSet(gone)) /\ Ids(refused') = Ids(refused)
        BY <1>3 DEF Ids
    <2>2. Ids(ToSet(sent')) \union Ids(ToSet(queue'))
            = Ids(ToSet(sent)) \union Ids(ToSet(kept)) \union {offered + 1}
        BY <1>4, <1>11, <1>15 DEF Ids
    <2>3. Ids(ToSet(queue)) = Ids(ToSet(gone)) \union Ids(ToSet(kept))
        BY <1>5 DEF Ids
    <2>4. 1 .. offered' = (1 .. offered) \union {offered + 1} /\ offered + 1 \notin 1 .. offered
        BY <1>2, <1>4
    <2>5. Ids(ToSet(gone)) \intersect (Ids(ToSet(sent)) \union Ids(ToSet(kept))) = {}
        <3>1. \A f \in ToSet(gone), g \in ToSet(sent) : f.id # g.id
            BY <1>5, <1>7 DEF IInv, InOrder, Frame
        <3>2. \A f \in ToSet(gone), g \in ToSet(kept) : f.id # g.id
            BY <1>5, <1>7 DEF Frame
        <3> QED
            BY <3>1, <3>2 DEF Ids
    <2>6. OneFate
        BY DEF IInv
    <2> HIDE DEF IInv
    <2> QED
        BY <2>1, <2>2, <2>3, <2>4, <2>5, <2>6 DEF OneFate
<1>19. DropsOldest'
    <2> SUFFICES ASSUME NEW d \in dropped', NEW i \in DOMAIN queue', ~TooBig(d.bytes)
                 PROVE  d.id < queue'[i].id
        BY DEF DropsOldest, TooBig
    <2>1. queue'[i] \in ToSet(kept) \/ queue'[i] = frame
        BY <1>11, <1>15 DEF ToSet
    <2>2. CASE queue'[i] = frame
        <3>1. d.id \in 1 .. offered
            BY <1>3, <1>5, <1>8
        <3> QED
            BY <2>2, <3>1, <1>4
    <2>3. CASE queue'[i] \in ToSet(kept) /\ d \in ToSet(gone)
        BY <2>3, <1>5
    <2>4. CASE queue'[i] \in ToSet(kept) /\ d \in dropped
        <3>1. PICK k \in DOMAIN queue : queue[k] = queue'[i]
            BY <2>4, <1>5 DEF ToSet
        <3> QED
            BY <2>4, <3>1 DEF IInv, DropsOldest
    <2> QED
        BY <2>1, <2>2, <2>3, <2>4, <1>3
<1>20. /\ dropped \subseteq dropped'
       /\ ToSet(sent') \union ToSet(queue') \union dropped'
            = ToSet(sent) \union ToSet(queue) \union dropped \union {frame}
    BY <1>3, <1>5, <1>11, <1>15
<1> QED
    BY <1>2, <1>15, <1>16, <1>17, <1>18, <1>19, <1>20 DEF IInv, frame

\* A drain writes from the head of what was queued.
LEMMA DrainStep ==
    ASSUME IInv, OnDrain
    PROVE  /\ IInv' /\ UNCHANGED <<closed, offered, dropped, refused>>
           /\ ToSet(sent) \subseteq ToSet(sent')
           /\ ToSet(sent') \union ToSet(queue') = ToSet(sent) \union ToSet(queue)
<1>1. /\ Flush(queue, queueBytes, FALSE)
      /\ UNCHANGED <<closed, offered, dropped, refused>>
    BY DEF OnDrain
<1>2. /\ TypeOK /\ queue \in Seq(Frame) /\ Increasing(queue) /\ Increasing(sent)
      /\ \A f \in ToSet(sent), g \in ToSet(queue) : f.id < g.id
    BY DEF IInv, TypeOK, InOrder
<1>3. /\ sent' \in Seq(Frame) /\ queue' \in Seq(Frame) /\ waitingDrain' \in BOOLEAN
      /\ Len(queue') <= Len(queue)
      /\ ToSet(queue') \subseteq ToSet(queue) /\ ToSet(sent) \subseteq ToSet(sent')
      /\ ToSet(sent') \union ToSet(queue') = ToSet(sent) \union ToSet(queue)
      /\ InOrder' /\ NoStall'
    BY <1>1, <1>2, FlushFacts
<1>4. TypeOK'
    BY <1>1, <1>2, <1>3 DEF TypeOK
<1>5. FramesBounded'
    <2>1. Len(queue') \in Nat /\ Len(queue) \in Nat
        BY <1>2, <1>3
    <2> QED
        BY <2>1, <1>3, PumpAssumption DEF IInv, FramesBounded
<1>6. OneFate'
    <2>1. Ids(ToSet(sent')) \union Ids(ToSet(queue')) = Ids(ToSet(sent)) \union Ids(ToSet(queue))
        BY <1>3 DEF Ids
    <2>2. OneFate /\ dropped' = dropped /\ refused' = refused /\ offered' = offered
        BY <1>1 DEF IInv
    <2> QED
        BY <2>1, <2>2 DEF OneFate
<1>7. DropsOldest'
    <2> SUFFICES ASSUME NEW d \in dropped, NEW i \in DOMAIN queue', ~TooBig(d.bytes)
                 PROVE  d.id < queue'[i].id
        BY <1>1 DEF DropsOldest, TooBig
    <2>1. PICK k \in DOMAIN queue : queue[k] = queue'[i]
        BY <1>3 DEF ToSet
    <2> QED
        BY <2>1 DEF IInv, DropsOldest
<1> QED
    BY <1>1, <1>3, <1>4, <1>5, <1>6, <1>7 DEF IInv

\* A queue that is given up, by close or with its connection.
LEMMA CutStep ==
    ASSUME IInv, queue' = <<>>, waitingDrain' = FALSE, closed' \in BOOLEAN,
           refused' = refused \union ToSet(queue), UNCHANGED <<offered, sent, dropped>>
    PROVE  IInv'
<1>1. /\ queue' = <<>> /\ waitingDrain' = FALSE /\ closed' \in BOOLEAN
      /\ refused' = refused \union ToSet(queue)
      /\ UNCHANGED <<offered, sent, dropped>>
    OBVIOUS
<1>2. ToSet(queue) \subseteq Frame /\ ToSet(queue') = {} /\ queue' \in Seq(Frame)
      /\ DOMAIN queue' = {} /\ Len(queue') = 0
    BY <1>1 DEF IInv, TypeOK, ToSet
<1>3. TypeOK'
    BY <1>1, <1>2 DEF IInv, TypeOK
<1>4. OneFate'
    <2>1. /\ Ids(refused') = Ids(refused) \union Ids(ToSet(queue)) /\ Ids(ToSet(queue')) = {}
        BY <1>1, <1>2 DEF Ids
    <2>2. Ids(ToSet(sent)) \intersect Ids(ToSet(queue)) = {}
        <3>1. \A f \in ToSet(sent), g \in ToSet(queue) : f.id < g.id /\ f \in Frame /\ g \in Frame
            BY DEF IInv, InOrder, TypeOK, ToSet
        <3>2. \A f \in ToSet(sent), g \in ToSet(queue) : f.id # g.id
            BY <3>1 DEF Frame
        <3> QED
            BY <3>2 DEF Ids
    <2>3. OneFate /\ sent' = sent /\ dropped' = dropped /\ offered' = offered
        BY <1>1 DEF IInv
    <2> QED
        BY <2>1, <2>2, <2>3 DEF OneFate
<1>5. InOrder' /\ DropsOldest' /\ NoStall'
    BY <1>1, <1>2 DEF IInv, InOrder, DropsOldest, NoStall, Increasing
<1>6. FramesBounded'
    BY <1>2, PumpAssumption DEF FramesBounded
<1> QED
    BY <1>3, <1>4, <1>5, <1>6 DEF IInv

LEMMA CloseStep ==
    ASSUME IInv, Close
    PROVE  IInv'
    BY CutStep DEF Close

LEMMA InitStep == Init => IInv
<1> SUFFICES ASSUME Init PROVE IInv
    OBVIOUS
<1>1. ToSet(<<>>) = {} /\ Ids({}) = {} /\ 1 .. 0 = {}
    BY DEF ToSet, Ids
<1>2. queue = <<>> /\ sent = <<>> /\ dropped = {} /\ refused = {} /\ offered = 0
      /\ waitingDrain = FALSE /\ closed = FALSE
    BY DEF Init
<1>3. OneFate
    BY <1>1, <1>2 DEF OneFate
<1>4. TypeOK
    <2>1. queue \in Seq(Frame) /\ sent \in Seq(Frame)
        BY <1>2
    <2>2. offered \in 0 .. MaxOffers
        BY <1>2, PumpAssumption
    <2> QED
        BY <1>2, <2>1, <2>2 DEF TypeOK
<1>5. FramesBounded
    BY <1>2, PumpAssumption DEF FramesBounded
<1>6. InOrder
    BY <1>1, <1>2 DEF InOrder, Increasing
<1>7. DropsOldest /\ NoStall
    BY <1>2 DEF DropsOldest, NoStall
<1> QED
    BY <1>3, <1>4, <1>5, <1>6, <1>7 DEF IInv

LEMMA NextStep == IInv /\ [Next]_vars => IInv'
<1> SUFFICES ASSUME IInv, [Next]_vars PROVE IInv'
    OBVIOUS
<1>1. CASE \E bytes \in FrameBytes : Enqueue(bytes)
    BY <1>1, RefuseStep, OversizedStep, PushStep
<1>2. CASE OnDrain
    BY <1>2, DrainStep
<1>3. CASE Close
    BY <1>3, CloseStep
<1>4. CASE UNCHANGED vars
    BY <1>4 DEF vars, IInv, TypeOK, FramesBounded, OneFate, InOrder, DropsOldest,
                NoStall, Increasing, TooBig
<1> QED
    BY <1>1, <1>2, <1>3, <1>4 DEF Next

\* The invariant holds in every reachable state of the pump, whatever is
\* offered and whenever the socket drains or closes.
THEOREM Invariant == Spec => []IInv
    BY InitStep, NextStep, PTL DEF Spec

\* However slowly the client reads, its queue never holds more frames than
\* STREAM_MAX_PENDING_FRAMES.
THEOREM FramesTheorem == Spec => []FramesBounded
    BY Invariant, PTL DEF IInv

\* Every frame handed to enqueue is written once, reported dropped once, still
\* queued, or cut off by close, and never two of these.
THEOREM OneFateTheorem == Spec => []OneFate
    BY Invariant, PTL DEF IInv

\* The client receives frames in the order in which they were offered.
THEOREM OrderTheorem == Spec => []InOrder
    BY Invariant, PTL DEF IInv

\* Backpressure drops the oldest frames only.
THEOREM DropsTheorem == Spec => []DropsOldest
    BY Invariant, PTL DEF IInv

\* Frames are queued only while a drain event is due.
THEOREM NoStallTheorem == Spec => []NoStall
    BY Invariant, PTL DEF IInv

-----------------------------------------------------------------------------
\* The size of a queue: the fold that adds it up.

\* Induction over the naturals, for a set instead of a predicate: the provers
\* can instantiate a set.

NatOrder == OpToRel(<, Nat)

LEMMA NatOrderWellFounded == IsWellFoundedOn(NatOrder, Nat)
    BY NatLessThanWellFounded DEF NatOrder

LEMMA Smallest ==
    ASSUME NEW T, T \subseteq Nat, T # {}
    PROVE  \E x \in T : \A y \in T : ~(y < x)
<1>1. \A R, S : IsWellFoundedOn(R, S) =>
        \A U : U \subseteq S /\ U # {} => \E x \in U : \A y \in U : <<y, x>> \notin R
    BY WFMin, Zenon
<1>2. \E x \in T : \A y \in T : <<y, x>> \notin NatOrder
    BY <1>1, NatOrderWellFounded, Zenon
<1>3. \A m, n \in Nat : m < n => <<m, n>> \in NatOrder
    BY DEF NatOrder, OpToRel
<1> QED
    BY <1>2, <1>3

LEMMA NatInduct ==
    ASSUME NEW S, 0 \in S, \A n \in Nat : n \in S => n + 1 \in S
    PROVE  \A n \in Nat : n \in S
<1> DEFINE T == Nat \ S
<1> SUFFICES ASSUME T # {} PROVE FALSE
    OBVIOUS
<1>1. PICK x \in T : \A y \in T : ~(y < x)
    <2>1. T \subseteq Nat
        OBVIOUS
    <2> HIDE DEF T
    <2> QED
        BY <2>1, Smallest
<1>2. x # 0 /\ x - 1 \in Nat /\ x - 1 < x
    OBVIOUS
<1>3. x - 1 \in S
    BY <1>1, <1>2
<1> QED
    BY <1>2, <1>3

Some(s) == CHOOSE x \in s : TRUE

\* FoldSeq by its recursion over the subsets of the positions.
LEMMA BytesUnroll ==
    ASSUME NEW frames, IsFiniteSet(DOMAIN frames)
    PROVE  \E g : /\ g[{}] = 0 /\ g[DOMAIN frames] = Bytes(frames)
                  /\ \A s \in SUBSET DOMAIN frames : s # {} => g[s] = g[s \ {Some(s)}] + frames[Some(s)].bytes
<1> DEFINE D == DOMAIN frames
<1> DEFINE Step(g, s) == IF s = {} THEN 0 ELSE g[s \ {Some(s)}] + frames[Some(s)].bytes
<1> DEFINE Def(g) == g = [s \in SUBSET D |-> Step(g, s)]
<1> DEFINE h == CHOOSE g : Def(g)
<1>1. Bytes(frames) = h[D]
    BY DEF Bytes, FoldSeq, FoldFunction, FoldFunctionOnSet, MapThenFoldSet, Some
<1>2. ASSUME NEW s \in SUBSET D, s # {}
      PROVE  /\ Some(s) \in s /\ s \ {Some(s)} \in SUBSET D
             /\ Cardinality(s) \in Nat /\ Cardinality(s \ {Some(s)}) = Cardinality(s) - 1
    <2>1. Some(s) \in s
        BY <1>2 DEF Some
    <2>2. IsFiniteSet(s)
        BY FS_Subset
    <2> QED
        BY <2>1, <2>2, FS_RemoveElement, FS_CardinalityType
<1> DEFINE Small(k) == {s \in SUBSET D : Cardinality(s) <= k}
<1> DEFINE S == {k \in Nat : \E g : g = [s \in Small(k) |-> Step(g, s)]}
<1>3. 0 \in S
    <2>1. Small(0) = {{}}
        <3>1. Cardinality({}) = 0
            BY FS_EmptySet
        <3>2. ASSUME NEW s \in Small(0), s # {} PROVE FALSE
            <4>1. Cardinality(s) \in Nat /\ Cardinality(s \ {Some(s)}) = Cardinality(s) - 1
                BY <1>2, <3>2
            <4>2. Cardinality(s \ {Some(s)}) \in Nat
                <5>1. s \ {Some(s)} \in SUBSET D
                    OBVIOUS
                <5> QED
                    BY <5>1, FS_Subset, FS_CardinalityType
            <4> QED
                BY <4>1, <4>2
        <3> QED
            BY <3>1, <3>2
    <2> DEFINE g == [s \in {{}} |-> 0]
    <2>2. g = [s \in {{}} |-> Step(g, s)]
        OBVIOUS
    <2> HIDE DEF Small
    <2> QED
        BY <2>1, <2>2
<1>4. ASSUME NEW k \in Nat, k \in S PROVE k + 1 \in S
    <2>1. PICK g : g = [s \in Small(k) |-> Step(g, s)]
        BY <1>4
    <2> DEFINE w == [s \in Small(k + 1) |-> Step(g, s)]
    <2>2. \A s \in Small(k) : s \in Small(k + 1) /\ w[s] = g[s]
        <3>1. \A s \in SUBSET D : Cardinality(s) \in Nat
            BY FS_Subset, FS_CardinalityType
        <3>2. \A s \in Small(k) : s \in Small(k + 1)
            BY <3>1
        <3>3. \A s \in Small(k) : g[s] = Step(g, s)
            BY <2>1
        <3> HIDE DEF Small
        <3> QED
            BY <3>2, <3>3
    <2>3. ASSUME NEW s \in Small(k + 1), s # {} PROVE s \ {Some(s)} \in Small(k)
        BY <1>2, <2>3
    <2>4. ASSUME NEW s \in Small(k + 1) PROVE w[s] = Step(w, s)
        <3>1. w[s] = Step(g, s)
            OBVIOUS
        <3> HIDE DEF w, Small
        <3> QED
            BY <2>2, <2>3, <3>1
    <2>5. w = [s \in Small(k + 1) |-> Step(w, s)]
        BY <2>4
    <2>6. k + 1 \in Nat
        OBVIOUS
    <2> HIDE DEF w, Small
    <2> QED
        BY <2>5, <2>6
<1>5. Cardinality(D) \in S
    <2>1. \A k \in Nat : k \in S => k + 1 \in S
        BY <1>4
    <2>2. Cardinality(D) \in Nat
        BY FS_CardinalityType
    <2> HIDE DEF S
    <2> QED
        BY <1>3, <2>1, <2>2, NatInduct
<1>6. Small(Cardinality(D)) = SUBSET D
    BY FS_Subset
<1>7. Def(h)
    <2>1. \E g : Def(g)
        <3> HIDE DEF Small
        <3> QED
            BY <1>5, <1>6
    <2> QED
        BY <2>1
<1> HIDE DEF h
<1>8. h[{}] = 0
    BY <1>7
<1>9. ASSUME NEW s \in SUBSET D, s # {} PROVE h[s] = h[s \ {Some(s)}] + frames[Some(s)].bytes
    BY <1>7, <1>9
<1> QED
    BY <1>1, <1>8, <1>9

LEMMA FrameSize == \A frames \in Seq(Frame) : \A i \in DOMAIN frames : frames[i].bytes \in Nat
<1>1. \A f \in Frame : f.bytes \in Nat
    BY PumpAssumption DEF Frame
<1>2. \A frames \in Seq(Frame) : \A i \in DOMAIN frames : frames[i] \in Frame
    OBVIOUS
<1> QED
    BY <1>1, <1>2

\* The order in which the fold takes the frames does not matter, so it may be that
\* of the queue.
LEMMA BytesInOrder ==
    ASSUME NEW frames \in Seq(Frame)
    PROVE  \E h : /\ h \in [0 .. Len(frames) -> Nat] /\ h[0] = 0 /\ h[Len(frames)] = Bytes(frames)
                  /\ \A i \in DOMAIN frames : h[i] = h[i - 1] + frames[i].bytes
<1> DEFINE n == Len(frames)
<1> DEFINE D == DOMAIN frames
<1>1. n \in Nat /\ D = 1 .. n /\ \A i \in D : frames[i].bytes \in Nat
    BY FrameSize
<1>2. IsFiniteSet(D)
    BY <1>1, FS_Interval
<1>3. PICK g : /\ g[{}] = 0 /\ g[D] = Bytes(frames)
               /\ \A s \in SUBSET D : s # {} => g[s] = g[s \ {Some(s)}] + frames[Some(s)].bytes
    BY <1>2, BytesUnroll
<1>4. \A s \in SUBSET D : IsFiniteSet(s) /\ Cardinality(s) \in Nat
    BY <1>2, FS_Subset, FS_CardinalityType
<1>5. ASSUME NEW s \in SUBSET D, NEW x \in s
      PROVE  s \ {x} \in SUBSET D /\ Cardinality(s \ {x}) = Cardinality(s) - 1
    BY <1>4, FS_RemoveElement
<1> DEFINE Fine(s) == g[s] \in Nat /\ \A x \in s : g[s] = g[s \ {x}] + frames[x].bytes
<1> DEFINE S == {k \in Nat : \A s \in SUBSET D : Cardinality(s) <= k => Fine(s)}
<1>e. Fine({})
    BY <1>3
<1>6. 0 \in S
    <2>1. ASSUME NEW s \in SUBSET D, Cardinality(s) <= 0 PROVE s = {}
        <3>1. Cardinality(s) = 0 /\ IsFiniteSet(s)
            BY <1>4, <2>1
        <3> QED
            BY <3>1, FS_EmptySet
    <2> HIDE DEF Fine
    <2> QED
        BY <2>1, <1>e
<1>7. ASSUME NEW k \in Nat, k \in S PROVE k + 1 \in S
    <2>0. k + 1 \in Nat
        OBVIOUS
    <2> HIDE DEF Fine
    <2> SUFFICES ASSUME NEW s \in SUBSET D, Cardinality(s) <= k + 1, s # {} PROVE Fine(s)
        BY <1>e, <2>0
    <2>1. \A t \in SUBSET D : Cardinality(t) <= k => Fine(t)
        BY <1>7
    <2> DEFINE y == Some(s)
    <2>2. y \in s
        BY DEF Some
    <2>3. g[s] = g[s \ {y}] + frames[y].bytes
        BY <1>3
    <2> HIDE DEF y
    <2>4. s \ {y} \in SUBSET D /\ Cardinality(s \ {y}) <= k
        BY <1>4, <1>5, <2>2
    <2>5. g[s] \in Nat
        <3>1. g[s \ {y}] \in Nat
            BY <2>1, <2>4 DEF Fine
        <3>2. frames[y].bytes \in Nat
            BY <1>1, <2>2
        <3> QED
            BY <2>3, <3>1, <3>2
    <2>6. ASSUME NEW x \in s, x # y PROVE g[s] = g[s \ {x}] + frames[x].bytes
        <3>1. /\ s \ {x} \in SUBSET D /\ Cardinality(s \ {x}) <= k
              /\ x \in s \ {y} /\ y \in s \ {x} /\ (s \ {x}) \ {y} = (s \ {y}) \ {x}
            BY <1>4, <1>5, <2>2, <2>6
        <3>2. g[s \ {y}] = g[(s \ {y}) \ {x}] + frames[x].bytes
            BY <2>1, <2>4, <3>1 DEF Fine
        <3>3. g[s \ {x}] = g[(s \ {x}) \ {y}] + frames[y].bytes
            BY <2>1, <3>1 DEF Fine
        <3> DEFINE r == s \ {y}
        <3>a. r \in SUBSET D /\ Cardinality(r) <= k /\ x \in r
            BY <2>4, <3>1
        <3>b. r \ {x} \in SUBSET D /\ Cardinality(r \ {x}) <= k
            <4> HIDE DEF r
            <4>1. r \ {x} \in SUBSET D /\ Cardinality(r \ {x}) = Cardinality(r) - 1 /\ Cardinality(r) \in Nat
                BY <1>4, <1>5, <3>a
            <4> QED
                BY <3>a, <4>1
        <3>4. (s \ {y}) \ {x} \in SUBSET D /\ Cardinality((s \ {y}) \ {x}) <= k
            BY <3>b
        <3>5. g[(s \ {y}) \ {x}] \in Nat
            BY <2>1, <3>4 DEF Fine
        <3>6. frames[x].bytes \in Nat /\ frames[y].bytes \in Nat
            BY <1>1, <2>2
        <3> DEFINE rest == g[(s \ {y}) \ {x}]
        <3>7. g[s \ {y}] = rest + frames[x].bytes /\ g[s \ {x}] = rest + frames[y].bytes
            BY <3>1, <3>2, <3>3
        <3> HIDE DEF rest
        <3>8. rest \in Nat
            BY <3>5 DEF rest
        <3> QED
            BY <2>3, <3>6, <3>7, <3>8
    <2> QED
        BY <2>3, <2>5, <2>6 DEF Fine
<1>8. \A s \in SUBSET D : Fine(s)
    <2>1. \A k \in Nat : k \in S => k + 1 \in S
        BY <1>7
    <2>2. Cardinality(D) \in Nat /\ D \in SUBSET D
        BY <1>4
    <2>3. Cardinality(D) \in S
        <3> HIDE DEF S
        <3> QED
            BY <1>6, <2>1, <2>2, NatInduct
    <2>4. \A s \in SUBSET D : Cardinality(s) <= Cardinality(D)
        BY <1>2, FS_Subset
    <2> HIDE DEF Fine
    <2> QED
        BY <2>3, <2>4
<1> DEFINE h == [i \in 0 .. n |-> g[1 .. i]]
<1>9. ASSUME NEW i \in 0 .. n PROVE 1 .. i \in SUBSET D
    BY <1>1
<1>10. h \in [0 .. n -> Nat]
    BY <1>8, <1>9
<1>11. h[0] = 0
    BY <1>1, <1>3
<1>12. h[n] = Bytes(frames)
    BY <1>1, <1>3
<1>13. ASSUME NEW i \in DOMAIN frames PROVE h[i] = h[i - 1] + frames[i].bytes
    <2>1. i \in 1 .. n /\ i \in 0 .. n /\ i - 1 \in 0 .. n /\ i \in 1 .. i
        BY <1>1
    <2>2. (1 .. i) \ {i} = 1 .. i - 1
        BY <2>1
    <2>3. g[1 .. i] = g[(1 .. i) \ {i}] + frames[i].bytes
        BY <1>8, <1>9, <2>1
    <2> QED
        BY <2>1, <2>2, <2>3
<1> QED
    BY <1>10, <1>11, <1>12, <1>13

LEMMA BytesType ==
    /\ \A frames \in Seq(Frame) : Bytes(frames) \in Nat
    /\ Bytes(<<>>) = 0
<1>1. ASSUME NEW frames \in Seq(Frame)
      PROVE  Bytes(frames) \in Nat /\ (Len(frames) = 0 => Bytes(frames) = 0)
    <2>1. PICK h : h \in [0 .. Len(frames) -> Nat] /\ h[0] = 0 /\ h[Len(frames)] = Bytes(frames)
        BY BytesInOrder
    <2>2. Len(frames) \in 0 .. Len(frames)
        OBVIOUS
    <2> QED
        BY <2>1, <2>2
<1>2. <<>> \in Seq(Frame) /\ Len(<<>>) = 0
    OBVIOUS
<1> QED
    BY <1>1, <1>2

\* The size of two queues, one after the other.
LEMMA BytesJoin ==
    ASSUME NEW s \in Seq(Frame), NEW t \in Seq(Frame)
    PROVE  Bytes(s \o t) = Bytes(s) + Bytes(t)
<1> DEFINE st == s \o t
<1> DEFINE n == Len(s)
<1> DEFINE m == Len(t)
<1>1. /\ st \in Seq(Frame) /\ Len(st) = n + m /\ n \in Nat /\ m \in Nat
      /\ DOMAIN s = 1 .. n /\ DOMAIN t = 1 .. m /\ DOMAIN st = 1 .. n + m
      /\ \A i \in 1 .. n : st[i] = s[i]
      /\ \A i \in 1 .. m : st[n + i] = t[i]
    OBVIOUS
<1>2. \A i \in 1 .. m : t[i].bytes \in Nat
    BY <1>1, FrameSize
<1>3. PICK hs : /\ hs \in [0 .. n -> Nat] /\ hs[0] = 0 /\ hs[n] = Bytes(s)
                /\ \A i \in DOMAIN s : hs[i] = hs[i - 1] + s[i].bytes
    BY BytesInOrder
<1>4. PICK ht : /\ ht \in [0 .. m -> Nat] /\ ht[0] = 0 /\ ht[m] = Bytes(t)
                /\ \A i \in DOMAIN t : ht[i] = ht[i - 1] + t[i].bytes
    BY BytesInOrder
<1>5. PICK h : /\ h \in [0 .. Len(st) -> Nat] /\ h[0] = 0 /\ h[Len(st)] = Bytes(st)
               /\ \A i \in DOMAIN st : h[i] = h[i - 1] + st[i].bytes
    <2> HIDE DEF st
    <2> QED
        BY <1>1, BytesInOrder
<1> HIDE DEF st, n, m
<1> DEFINE S == {i \in Nat : i <= n => h[i] = hs[i]}
<1>6. n \in S
    <2>1. 0 \in S
        BY <1>3, <1>5
    <2>2. ASSUME NEW i \in Nat, i \in S PROVE i + 1 \in S
        <3> SUFFICES ASSUME i + 1 <= n PROVE h[i + 1] = hs[i + 1]
            OBVIOUS
        <3>1. i + 1 \in 1 .. n /\ i + 1 \in 1 .. n + m /\ (i + 1) - 1 = i
            BY <1>1
        <3>2. h[i] = hs[i]
            BY <1>1, <2>2
        <3>3. h[i + 1] = h[i] + st[i + 1].bytes /\ hs[i + 1] = hs[i] + s[i + 1].bytes
            BY <1>1, <1>3, <1>5, <3>1
        <3> QED
            BY <1>1, <3>1, <3>2, <3>3
    <2>3. \A i \in Nat : i \in S => i + 1 \in S
        BY <2>2
    <2> HIDE DEF S
    <2> QED
        BY <1>1, <2>1, <2>3, NatInduct
<1>7. h[n] = Bytes(s)
    BY <1>1, <1>3, <1>6
<1> DEFINE T == {i \in Nat : i <= m => h[n + i] = Bytes(s) + ht[i]}
<1>8. m \in T
    <2>1. 0 \in T
        BY <1>1, <1>3, <1>4, <1>7
    <2>2. ASSUME NEW i \in Nat, i \in T PROVE i + 1 \in T
        <3> SUFFICES ASSUME i + 1 <= m PROVE h[n + (i + 1)] = Bytes(s) + ht[i + 1]
            OBVIOUS
        <3>1. i + 1 \in 1 .. m /\ n + (i + 1) \in 1 .. n + m /\ (n + (i + 1)) - 1 = n + i /\ (i + 1) - 1 = i
            BY <1>1
        <3>2. h[n + i] = Bytes(s) + ht[i]
            BY <1>1, <2>2
        <3>3. h[n + (i + 1)] = h[n + i] + st[n + (i + 1)].bytes /\ ht[i + 1] = ht[i] + t[i + 1].bytes
            BY <1>1, <1>4, <1>5, <3>1
        <3>4. st[n + (i + 1)] = t[i + 1] /\ t[i + 1].bytes \in Nat /\ ht[i] \in Nat /\ Bytes(s) \in Nat
            <4>1. i \in 0 .. m /\ n \in 0 .. n
                BY <1>1, <3>1
            <4> QED
                BY <1>1, <1>2, <1>3, <1>4, <3>1, <4>1
        <3> QED
            BY <3>2, <3>3, <3>4
    <2>3. \A i \in Nat : i \in T => i + 1 \in T
        BY <2>2
    <2> HIDE DEF T
    <2> QED
        BY <1>1, <2>1, <2>3, NatInduct
<1>9. h[n + m] = Bytes(s) + Bytes(t)
    BY <1>1, <1>4, <1>8
<1> QED
    BY <1>1, <1>5, <1>9 DEF st

LEMMA BytesSplit ==
    ASSUME NEW frames \in Seq(Frame), NEW n \in 0 .. Len(frames)
    PROVE  /\ Bytes(First(frames, n)) \in Nat /\ Bytes(Rest(frames, n)) \in Nat
           /\ Bytes(frames) = Bytes(First(frames, n)) + Bytes(Rest(frames, n))
<1> DEFINE F == First(frames, n)
<1> DEFINE R == Rest(frames, n)
<1>1. /\ F \in Seq(Frame) /\ Len(F) = n /\ \A i \in 1 .. n : F[i] = frames[i]
      /\ R \in Seq(Frame) /\ Len(R) = Len(frames) - n
      /\ \A i \in 1 .. Len(frames) - n : R[i] = frames[n + i]
    BY SplitFacts
<1> HIDE DEF F, R
<1>2. frames = F \o R
    <2>1. /\ F \o R \in Seq(Frame) /\ Len(F \o R) = Len(frames)
          /\ \A i \in 1 .. n : (F \o R)[i] = F[i]
          /\ \A i \in n + 1 .. Len(frames) : (F \o R)[i] = R[i - n]
        BY <1>1
    <2>2. \A i \in n + 1 .. Len(frames) : i - n \in 1 .. Len(frames) - n /\ n + (i - n) = i
        OBVIOUS
    <2>3. \A i \in 1 .. Len(frames) : (F \o R)[i] = frames[i]
        BY <1>1, <2>1, <2>2
    <2> QED
        BY <2>1, <2>3, SeqEqual
<1> QED
    BY <1>1, <1>2, BytesType, BytesJoin DEF F, R

LEMMA BytesAppend ==
    ASSUME NEW frames \in Seq(Frame), NEW f \in Frame
    PROVE  Bytes(Append(frames, f)) = Bytes(frames) + f.bytes
<1>1. <<f>> \in Seq(Frame) /\ Append(frames, f) = frames \o <<f>>
    OBVIOUS
<1>2. Bytes(<<f>>) = f.bytes
    <2>1. PICK h : /\ h[0] = 0 /\ h[Len(<<f>>)] = Bytes(<<f>>)
                   /\ \A i \in DOMAIN <<f>> : h[i] = h[i - 1] + <<f>>[i].bytes
        BY <1>1, BytesInOrder
    <2>2. Len(<<f>>) = 1 /\ 1 \in DOMAIN <<f>> /\ <<f>>[1] = f /\ 1 - 1 = 0
        OBVIOUS
    <2>3. f.bytes \in Nat
        BY PumpAssumption DEF Frame
    <2>4. h[1] = h[0] + f.bytes
        BY <2>1, <2>2
    <2> QED
        BY <2>1, <2>2, <2>3, <2>4
<1> QED
    BY <1>1, <1>2, BytesJoin

\* What a flush leaves queued is counted right, and is no more than there was.
LEMMA FlushBytes ==
    ASSUME NEW frames \in Seq(Frame), NEW waiting \in BOOLEAN, Flush(frames, Bytes(frames), waiting)
    PROVE  queueBytes' = Bytes(queue') /\ Bytes(queue') \in Nat /\ Bytes(queue') <= Bytes(frames)
<1>1. PICK n \in 0 .. Len(frames) :
         queue' = Rest(frames, n) /\ queueBytes' = Less(Bytes(frames), Bytes(First(frames, n)))
    BY DEF Flush
<1>2. /\ Bytes(First(frames, n)) \in Nat /\ Bytes(Rest(frames, n)) \in Nat
      /\ Bytes(frames) = Bytes(First(frames, n)) + Bytes(Rest(frames, n))
    BY BytesSplit
<1>3. Less(Bytes(frames), Bytes(First(frames, n))) = Bytes(Rest(frames, n))
    BY <1>2 DEF Less
<1>4. Bytes(queue') = Bytes(Rest(frames, n))
    BY <1>1
<1> QED
    BY <1>1, <1>2, <1>3, <1>4

Counted == BytesExact /\ BytesBounded

\* The counted size, and what is published, stay those of the queue.
LEMMA CountStep == IInv /\ Counted /\ [Next]_vars => Counted'
<1> SUFFICES ASSUME IInv, Counted, [Next]_vars PROVE Counted'
    OBVIOUS
<1>1. /\ queue \in Seq(Frame) /\ waitingDrain \in BOOLEAN /\ queueBytes = Bytes(queue)
      /\ Bytes(queue) \in Nat /\ MaxPendingBytes \in Nat /\ offered \in Nat
    BY BytesType, PumpAssumption DEF IInv, TypeOK, Counted, BytesExact
<1>2. ASSUME queueBytes' = Bytes(queue'), PublishState,
             MaxPendingBytes > 0 => Bytes(queue') <= MaxPendingBytes
      PROVE  Counted'
    BY <1>2 DEF Counted, BytesExact, BytesBounded, PublishState, State
<1>3. ASSUME UNCHANGED <<queue, queueBytes, waitingDrain, published>> PROVE Counted'
    BY <1>3 DEF Counted, BytesExact, BytesBounded, State
<1>4. ASSUME NEW bytes \in FrameBytes, Enqueue(bytes) PROVE Counted'
    <2> DEFINE frame == [id |-> offered + 1, bytes |-> bytes]
    <2>1. CASE Refuse(frame) \/ DropOversized(frame)
        BY <1>3, <2>1 DEF Refuse, DropOversized
    <2>2. CASE ~TooBig(bytes) /\ \E n \in 0 .. Len(queue) : MakesRoom(n, bytes) /\ Push(frame, n)
        <3>1. PICK n \in 0 .. Len(queue) : MakesRoom(n, bytes) /\ Push(frame, n)
            BY <2>2
        <3> DEFINE kept == Rest(queue, n)
        <3> DEFINE line == Append(kept, frame)
        <3>2. frame \in Frame /\ frame.bytes = bytes /\ bytes \in Nat
            BY <1>1, <1>4, PumpAssumption DEF Enqueue, Frame
        <3>3. /\ kept \in Seq(Frame) /\ Len(kept) = Len(queue) - n /\ Bytes(kept) \in Nat
              /\ Bytes(First(queue, n)) \in Nat /\ Bytes(queue) = Bytes(First(queue, n)) + Bytes(kept)
            BY <1>1, SplitFacts, BytesSplit
        <3>4. BytesAfter(n) = Bytes(kept)
            BY <1>1, <3>3 DEF BytesAfter, DropOldest, Less
        <3>5. Flush(line, BytesAfter(n) + frame.bytes, waitingDrain) /\ PublishState
            BY <3>1 DEF Push, DropOldest
        <3> HIDE DEF frame
        <3>6. line \in Seq(Frame) /\ Bytes(line) = Bytes(kept) + bytes
            BY <3>2, <3>3, BytesAppend
        <3>7. MaxPendingBytes > 0 => Bytes(kept) + bytes <= MaxPendingBytes
            <4>1. CASE n = Len(queue)
                <5>1. kept = <<>>
                    BY <3>3, <4>1
                <5>2. Bytes(kept) = 0
                    BY <5>1, BytesType
                <5> HIDE DEF kept
                <5> QED
                    BY <2>2, <3>2, <5>2, <1>1 DEF TooBig
            <4>2. CASE HasRoom(DropOldest(n).kept, BytesAfter(n), bytes)
                BY <3>4, <4>2 DEF HasRoom
            <4> QED
                BY <3>1, <4>1, <4>2 DEF MakesRoom
        <3> HIDE DEF kept, line
        <3>8. Flush(line, Bytes(line), waitingDrain)
            BY <3>2, <3>4, <3>5, <3>6
        <3>9. queueBytes' = Bytes(queue') /\ Bytes(queue') \in Nat /\ Bytes(queue') <= Bytes(line)
            BY <1>1, <3>6, <3>8, FlushBytes
        <3>10. MaxPendingBytes > 0 => Bytes(queue') <= MaxPendingBytes
            BY <1>1, <3>2, <3>3, <3>6, <3>7, <3>9
        <3> QED
            BY <1>2, <3>5, <3>9, <3>10
    <2> QED
        BY <1>4, <2>1, <2>2 DEF Enqueue
<1>5. CASE OnDrain
    <2>1. Flush(queue, queueBytes, FALSE) /\ PublishState
        BY <1>5 DEF OnDrain
    <2>2. queueBytes' = Bytes(queue') /\ Bytes(queue') \in Nat /\ Bytes(queue') <= Bytes(queue)
        BY <1>1, <2>1, FlushBytes
    <2>3. MaxPendingBytes > 0 => Bytes(queue') <= MaxPendingBytes
        BY <1>1, <2>2 DEF Counted, BytesBounded
    <2> QED
        BY <1>2, <2>1, <2>2, <2>3
<1>6. CASE Close
    <2>1. queue' = <<>> /\ queueBytes' = 0 /\ PublishState
        BY <1>6 DEF Close
    <2>2. Bytes(queue') = 0
        BY <2>1, BytesType
    <2> QED
        BY <1>1, <1>2, <2>1, <2>2
<1>7. CASE UNCHANGED vars
    BY <1>3, <1>7 DEF vars
<1> QED
    BY <1>4, <1>5, <1>6, <1>7 DEF Next

LEMMA CountInit == Init => Counted
<1> SUFFICES ASSUME Init PROVE Counted
    OBVIOUS
<1>1. queue = <<>> /\ queueBytes = 0 /\ waitingDrain = FALSE /\ published = State(<<>>, 0, FALSE)
    BY DEF Init
<1>2. Bytes(queue) = 0 /\ MaxPendingBytes \in Nat
    BY <1>1, BytesType, PumpAssumption
<1>3. BytesExact
    BY <1>1, <1>2 DEF BytesExact
<1>4. BytesBounded
    BY <1>2 DEF BytesBounded
<1> QED
    BY <1>3, <1>4 DEF Counted

\* The size kept by differences is that of the queue, and the state last published
\* is the present one.
THEOREM BytesTheorem == Spec => []BytesExact
<1>1. Spec => []Counted
    BY CountInit, CountStep, Invariant, PTL DEF Spec
<1>2. Counted => BytesExact
    BY DEF Counted
<1> QED
    BY <1>1, <1>2, PTL

\* However slowly the client reads, its queue never holds more bytes than
\* STREAM_MAX_PENDING_BYTES.
THEOREM BytesBoundTheorem == Spec => []BytesBounded
<1>1. Spec => []Counted
    BY CountInit, CountStep, Invariant, PTL DEF Spec
<1>2. Counted => BytesBounded
    BY DEF Counted
<1> QED
    BY <1>1, <1>2, PTL

-----------------------------------------------------------------------------
\* The pump within the load (StreamLoad).

PumpInv == IInv /\ BytesExact /\ BytesBounded

LEMMA PumpStep == PumpInv /\ [Next]_vars => PumpInv'
    BY NextStep, CountStep DEF PumpInv, Counted

\* A new connection has an empty pump.
LEMMA NewPump ==
    ASSUME PumpInv, queue' = <<>>, queueBytes' = 0, waitingDrain' = FALSE, closed' = FALSE,
           published' = State(<<>>, 0, FALSE), refused' = refused \union ToSet(queue),
           UNCHANGED <<offered, sent, dropped>>
    PROVE  PumpInv'
<1>1. IInv'
    BY CutStep DEF PumpInv
<1>2. Bytes(queue') = 0 /\ MaxPendingBytes \in Nat
    BY BytesType, PumpAssumption
<1>3. BytesExact'
    BY <1>2 DEF BytesExact, State
<1>4. BytesBounded'
    BY <1>2 DEF BytesBounded
<1> QED
    BY <1>1, <1>3, <1>4 DEF PumpInv

LEMMA PumpIdle == PumpInv /\ UNCHANGED vars => PumpInv'
    BY PumpStep

LEMMA FramesFinite == \A frames \in Seq(Frame) : IsFiniteSet(ToSet(frames))
<1> SUFFICES ASSUME NEW frames \in Seq(Frame) PROVE IsFiniteSet(ToSet(frames))
    OBVIOUS
<1>1. DOMAIN frames = 1 .. Len(frames) /\ Len(frames) \in Nat
    OBVIOUS
<1>2. IsFiniteSet(DOMAIN frames)
    BY <1>1, FS_Interval
<1>3. frames \in [DOMAIN frames -> ToSet(frames)] /\ \A f \in ToSet(frames) : \E i \in DOMAIN frames : frames[i] = f
    BY <1>1 DEF ToSet
<1>4. frames \in Surjection(DOMAIN frames, ToSet(frames))
    BY <1>3 DEF Surjection
<1> QED
    BY <1>2, <1>4, FS_Surjection

\* What was sent and dropped only grows.
LEMMA GrowStep ==
    ASSUME IInv, IsFiniteSet(dropped), [Next]_vars
    PROVE  /\ IsFiniteSet(dropped') /\ Cardinality(dropped) \in Nat /\ Cardinality(dropped') \in Nat
           /\ Cardinality(dropped) <= Cardinality(dropped')
           /\ Len(sent) \in Nat /\ Len(sent') \in Nat /\ Len(sent) <= Len(sent')
<1>1. IInv'
    BY NextStep
<1>2. Len(sent) \in Nat /\ Len(sent') \in Nat
    BY <1>1 DEF IInv, TypeOK
<1>3. ASSUME NEW more, IsFiniteSet(more), dropped' = dropped \union more
      PROVE  IsFiniteSet(dropped') /\ dropped \subseteq dropped'
    BY <1>3, FS_Union
<1>4. ASSUME NEW frames \in Seq(Frame), NEW bytes, NEW waiting \in BOOLEAN, Flush(frames, bytes, waiting)
      PROVE  Len(sent) <= Len(sent')
    <2>1. PICK n \in 0 .. Len(frames) : sent' = sent \o First(frames, n)
        BY <1>4 DEF Flush
    <2>2. First(frames, n) \in Seq(Frame) /\ Len(First(frames, n)) \in Nat
        BY SplitFacts
    <2>3. Len(sent \o First(frames, n)) = Len(sent) + Len(First(frames, n))
        BY <2>2 DEF IInv, TypeOK
    <2> QED
        BY <1>2, <2>1, <2>2, <2>3
<1>5. IsFiniteSet(dropped') /\ dropped \subseteq dropped' /\ Len(sent) <= Len(sent')
    <2>1. ASSUME UNCHANGED <<sent, dropped>>
          PROVE  IsFiniteSet(dropped') /\ dropped \subseteq dropped' /\ Len(sent) <= Len(sent')
        <3>1. sent' = sent /\ dropped' = dropped
            BY <2>1
        <3>2. Len(sent) <= Len(sent')
            BY <1>2, <3>1
        <3>3. IsFiniteSet(dropped')
            BY <3>1
        <3>4. dropped \subseteq dropped'
            BY <3>1
        <3> QED
            BY <3>2, <3>3, <3>4
    <2>2. ASSUME NEW bytes \in FrameBytes, Enqueue(bytes) PROVE  IsFiniteSet(dropped') /\ dropped \subseteq dropped' /\ Len(sent) <= Len(sent')
        <3> DEFINE frame == [id |-> offered + 1, bytes |-> bytes]
        <3>1. CASE Refuse(frame)
            BY <2>1, <3>1 DEF Refuse
        <3>2. CASE DropOversized(frame)
            <4>1. dropped' = dropped \union {frame} /\ sent' = sent
                BY <3>2 DEF DropOversized
            <4>2. IsFiniteSet({frame})
                BY FS_Singleton
            <4> HIDE DEF frame
            <4>3. IsFiniteSet(dropped') /\ dropped \subseteq dropped'
                BY <1>3, <4>1, <4>2
            <4>4. Len(sent) <= Len(sent')
                BY <1>2, <4>1
            <4> QED
                BY <4>3, <4>4
        <3>3. CASE \E n \in 0 .. Len(queue) : MakesRoom(n, bytes) /\ Push(frame, n)
            <4>1. PICK n \in 0 .. Len(queue) : Push(frame, n)
                BY <3>3
            <4>2. /\ dropped' = dropped \union ToSet(First(queue, n))
                  /\ Flush(Append(Rest(queue, n), frame), BytesAfter(n) + frame.bytes, waitingDrain)
                BY <4>1 DEF Push, DropOldest
            <4>3. queue \in Seq(Frame) /\ waitingDrain \in BOOLEAN /\ offered \in Nat
                BY PumpAssumption DEF IInv, TypeOK
            <4>4. First(queue, n) \in Seq(Frame) /\ Rest(queue, n) \in Seq(Frame)
                BY <4>3, SplitFacts
            <4>5. frame \in Frame
                BY <2>2, <4>3, PumpAssumption DEF Enqueue, Frame
            <4>6. Append(Rest(queue, n), frame) \in Seq(Frame)
                BY <4>4, <4>5
            <4>7. IsFiniteSet(ToSet(First(queue, n)))
                BY <4>4, FramesFinite
            <4> HIDE DEF frame
            <4>8. Len(sent) <= Len(sent')
                BY <1>4, <4>2, <4>3, <4>6
            <4> QED
                BY <1>3, <4>2, <4>7, <4>8
        <3> QED
            BY <2>2, <3>1, <3>2, <3>3 DEF Enqueue
    <2>3. CASE OnDrain
        <3>1. Flush(queue, queueBytes, FALSE) /\ dropped' = dropped
            BY <2>3 DEF OnDrain
        <3>2. queue \in Seq(Frame)
            BY DEF IInv, TypeOK
        <3> QED
            BY <1>4, <3>1, <3>2
    <2>4. CASE Close
        BY <2>1, <2>4 DEF Close
    <2>5. CASE UNCHANGED vars
        BY <2>1, <2>5 DEF vars
    <2> QED
        BY <2>2, <2>3, <2>4, <2>5 DEF Next
<1>6. /\ Cardinality(dropped) \in Nat /\ Cardinality(dropped') \in Nat
      /\ Cardinality(dropped) <= Cardinality(dropped')
    BY <1>5, FS_Subset, FS_CardinalityType
<1> QED
    BY <1>2, <1>5, <1>6

-----------------------------------------------------------------------------
\* The registry: sums kept by differences.

LEMMA TotalFacts ==
    ASSUME NEW a \in Entries, NEW b \in Entries, NEW c \in Entries
    PROVE  /\ sums = Total(a, b) /\ a.open = c.open => Updated(a, c) = Total(c, b)
           /\ a.open => Unregistered(Total(a, b), a) = Total(NoEntry, b)
           /\ Total(a, b) = Total(b, a)
<1>1. /\ a.frames \in Nat /\ b.frames \in Nat /\ c.frames \in Nat
      /\ a.bytes \in Nat /\ b.bytes \in Nat /\ c.bytes \in Nat
      /\ a.waiting \in BOOLEAN /\ b.waiting \in BOOLEAN /\ c.waiting \in BOOLEAN
      /\ a.open \in BOOLEAN /\ b.open \in BOOLEAN /\ c.open \in BOOLEAN
    BY DEF Entries
<1>2. \A w \in BOOLEAN : Ones(w) \in {0, 1} /\ (w => Ones(w) = 1) /\ (~w => Ones(w) = 0)
    BY DEF Ones
<1>3. ASSUME sums = Total(a, b), a.open = c.open PROVE Updated(a, c) = Total(c, b)
    <2>1. /\ sums.waiting = Ones(a.waiting) + Ones(b.waiting) /\ sums.frames = a.frames + b.frames
          /\ sums.bytes = a.bytes + b.bytes /\ sums.subs = Ones(c.open) + Ones(b.open)
          /\ sums = [subs |-> sums.subs, waiting |-> sums.waiting, frames |-> sums.frames, bytes |-> sums.bytes]
        BY <1>3 DEF Total
    <2>2. /\ NonNegative(sums.waiting + Ones(c.waiting) - Ones(a.waiting)) = Ones(c.waiting) + Ones(b.waiting)
          /\ NonNegative(sums.frames + c.frames - a.frames) = c.frames + b.frames
          /\ NonNegative(sums.bytes + c.bytes - a.bytes) = c.bytes + b.bytes
        BY <1>1, <1>2, <2>1 DEF NonNegative
    <2>3. Updated(a, c) = [subs |-> sums.subs,
                           waiting |-> NonNegative(sums.waiting + Ones(c.waiting) - Ones(a.waiting)),
                           frames |-> NonNegative(sums.frames + c.frames - a.frames),
                           bytes |-> NonNegative(sums.bytes + c.bytes - a.bytes)]
        BY DEF Updated
    <2> QED
        BY <2>1, <2>2, <2>3 DEF Total
<1>4. ASSUME a.open PROVE Unregistered(Total(a, b), a) = Total(NoEntry, b)
    <2> DEFINE t == Total(a, b)
    <2>1. /\ t.subs = 1 + Ones(b.open) /\ t.waiting = Ones(a.waiting) + Ones(b.waiting)
          /\ t.frames = a.frames + b.frames /\ t.bytes = a.bytes + b.bytes
        BY <1>2, <1>4 DEF Total, Ones
    <2> HIDE DEF t
    <2>2. /\ NonNegative(t.subs - 1) = Ones(b.open) /\ NonNegative(t.waiting - Ones(a.waiting)) = Ones(b.waiting)
          /\ NonNegative(t.frames - a.frames) = b.frames /\ NonNegative(t.bytes - a.bytes) = b.bytes
        BY <1>1, <1>2, <2>1 DEF NonNegative
    <2>3. Unregistered(t, a) = [subs |-> Ones(b.open), waiting |-> Ones(b.waiting),
                                frames |-> b.frames, bytes |-> b.bytes]
        BY <2>2 DEF Unregistered
    <2>4. Total(NoEntry, b) = [subs |-> Ones(b.open), waiting |-> Ones(b.waiting),
                               frames |-> b.frames, bytes |-> b.bytes]
        <3>1. /\ NoEntry.open = FALSE /\ NoEntry.waiting = FALSE /\ NoEntry.frames = 0 /\ NoEntry.bytes = 0
            BY DEF NoEntry
        <3>2. Ones(NoEntry.open) + Ones(b.open) = Ones(b.open) /\ Ones(NoEntry.waiting) + Ones(b.waiting) = Ones(b.waiting)
            <4>1. Ones(NoEntry.open) = 0 /\ Ones(NoEntry.waiting) = 0
                BY <3>1 DEF Ones
            <4>2. Ones(b.open) \in {0, 1} /\ Ones(b.waiting) \in {0, 1}
                BY <1>1, <1>2
            <4> QED
                BY <4>1, <4>2
        <3>3. NoEntry.frames + b.frames = b.frames /\ NoEntry.bytes + b.bytes = b.bytes
            BY <1>1, <3>1
        <3> QED
            BY <3>2, <3>3 DEF Total
    <2> QED
        BY <2>3, <2>4 DEF t
<1>5. Total(a, b) = Total(b, a)
    <2>1. /\ Ones(a.open) + Ones(b.open) = Ones(b.open) + Ones(a.open)
          /\ Ones(a.waiting) + Ones(b.waiting) = Ones(b.waiting) + Ones(a.waiting)
        BY <1>1, <1>2
    <2>2. a.frames + b.frames = b.frames + a.frames /\ a.bytes + b.bytes = b.bytes + a.bytes
        BY <1>1
    <2> QED
        BY <2>1, <2>2 DEF Total
<1> QED
    BY <1>3, <1>4, <1>5

LEMMA EntryFacts ==
    /\ NoEntry \in Entries /\ ~NoEntry.open /\ ~NoEntry.waiting /\ NoEntry.frames = 0 /\ NoEntry.bytes = 0
    /\ PumpInv => /\ published = State(queue, Bytes(queue), waitingDrain)
                  /\ Entry(published) \in Entries /\ Entry(published).open
                  /\ Own = IF link = "none" THEN NoEntry ELSE Entry(published)
    /\ PumpInv' => /\ published' = State(queue', Bytes(queue'), waitingDrain')
                   /\ Entry(published') \in Entries /\ Entry(published').open
                   /\ Own' = IF link' = "none" THEN NoEntry ELSE Entry(published')
<1>1. NoEntry \in Entries /\ ~NoEntry.open /\ ~NoEntry.waiting /\ NoEntry.frames = 0 /\ NoEntry.bytes = 0
    BY DEF NoEntry, Entries
<1>2. ASSUME NEW frames \in Seq(Frame), NEW waiting \in BOOLEAN
      PROVE  Entry(State(frames, Bytes(frames), waiting)) \in Entries /\ Entry(State(frames, Bytes(frames), waiting)).open
    <2>1. Bytes(frames) \in Nat /\ Len(frames) \in Nat
        BY BytesType
    <2> QED
        BY <2>1 DEF Entry, State, Entries
<1>3. ASSUME PumpInv
      PROVE  /\ published = State(queue, Bytes(queue), waitingDrain)
             /\ Entry(published) \in Entries /\ Entry(published).open
             /\ Own = IF link = "none" THEN NoEntry ELSE Entry(published)
    <2>1. published = State(queue, Bytes(queue), waitingDrain)
        BY <1>3 DEF PumpInv, BytesExact
    <2>2. queue \in Seq(Frame) /\ waitingDrain \in BOOLEAN
        BY <1>3 DEF PumpInv, IInv, TypeOK
    <2> QED
        BY <1>2, <2>1, <2>2 DEF Own
<1>4. ASSUME PumpInv'
      PROVE  /\ published' = State(queue', Bytes(queue'), waitingDrain')
             /\ Entry(published') \in Entries /\ Entry(published').open
             /\ Own' = IF link' = "none" THEN NoEntry ELSE Entry(published')
    <2>1. published' = State(queue', Bytes(queue'), waitingDrain')
        BY <1>4 DEF PumpInv, BytesExact
    <2>2. queue' \in Seq(Frame) /\ waitingDrain' \in BOOLEAN
        BY <1>4 DEF PumpInv, IInv, TypeOK
    <2>3. Own' = IF link' = "none" THEN NoEntry ELSE Entry(published')
        BY <2>1 DEF Own
    <2> QED
        BY <1>2, <2>1, <2>2, <2>3
<1> QED
    BY <1>1, <1>3, <1>4

\* Connections, from its parts.
LEMMA ConnectionsHold ==
    ASSUME PumpInv', link' \in {"none", "up", "gone"}, left' \in Entries, ~left'.open => left' = NoEntry,
           entry' = IF link' = "none" THEN NoEntry ELSE Entry(published'), sums' = Total(entry', left'),
           link' = "none" => queue' = <<>> /\ ~waitingDrain',
           gauge' = Ones(link' # "none") + Ones(left'.open)
    PROVE  Connections'
<1>1. entry' = Own'
    BY EntryFacts
<1>2. RegistryExact'
    BY <1>1 DEF RegistryExact
<1> QED
    BY <1>1, <1>2 DEF Connections

\* A step of the pump with its callbacks.
LEMMA ServedStep ==
    ASSUME PumpInv, Connections, link # "none", [Next]_vars, Callbacks, UNCHANGED <<link, left, gauge>>
    PROVE  PumpInv' /\ Connections'
<1>1. PumpInv'
    BY PumpStep
<1>2. /\ entry = Entry(published) /\ entry \in Entries /\ entry.open /\ left \in Entries
      /\ sums = Total(entry, left) /\ (~left.open => left = NoEntry)
      /\ link \in {"none", "up", "gone"} /\ gauge = Ones(link # "none") + Ones(left.open)
    BY EntryFacts DEF Connections, RegistryExact
<1>3. entry' = Entry(published') /\ entry' \in Entries /\ entry'.open /\ sums' = Updated(entry, entry')
    BY <1>1, EntryFacts DEF Callbacks
<1>4. sums' = Total(entry', left)
    <2>1. entry.open = entry'.open
        BY <1>2, <1>3 DEF Entry
    <2> QED
        BY <1>2, <1>3, <2>1, TotalFacts
<1>5. link' # "none" /\ link' = link /\ left' = left /\ gauge' = gauge
    OBVIOUS
<1>6. Connections'
    BY <1>1, <1>2, <1>3, <1>4, <1>5, ConnectionsHold
<1> QED
    BY <1>1, <1>6

LEMMA FinishStep ==
    ASSUME PumpInv, Connections, Finish
    PROVE  PumpInv' /\ Connections'
<1>1. /\ link # "none" /\ link' = "none" /\ Close /\ entry' = NoEntry /\ left' = left /\ gauge' = gauge - 1
      /\ sums' = Unregistered(Updated(entry, Entry(published')), Entry(published'))
    BY DEF Finish
<1>2. PumpInv' /\ queue' = <<>> /\ ~waitingDrain'
    BY <1>1, PumpStep DEF Close, Next
<1>3. /\ entry = Entry(published) /\ entry \in Entries /\ left \in Entries
      /\ sums = Total(entry, left) /\ (~left.open => left = NoEntry)
      /\ gauge = Ones(link # "none") + Ones(left.open)
    BY <1>1, EntryFacts DEF Connections, RegistryExact
<1> DEFINE last == Entry(published')
<1>4. last \in Entries /\ last.open /\ entry.open = last.open
    BY <1>2, <1>3, EntryFacts DEF Entry
<1> HIDE DEF last
<1>5. Updated(entry, last) = Total(last, left)
    BY <1>3, <1>4, TotalFacts
<1>6. Unregistered(Total(last, left), last) = Total(NoEntry, left)
    BY <1>3, <1>4, TotalFacts
<1>7. sums' = Total(entry', left')
    BY <1>1, <1>5, <1>6 DEF last
<1>8. gauge' = Ones(link' # "none") + Ones(left'.open)
    BY <1>1, <1>3 DEF Ones
<1>9. Connections'
    BY <1>1, <1>2, <1>3, <1>7, <1>8, ConnectionsHold
<1> QED
    BY <1>2, <1>9

LEMMA ConnectStep ==
    ASSUME PumpInv, Connections, Connect
    PROVE  PumpInv' /\ Connections'
<1>0. ~left.open
    BY DEF Connect
<1>1. /\ entry = IF link = "none" THEN NoEntry ELSE Entry(published)
      /\ entry \in Entries /\ left = NoEntry /\ left \in Entries
      /\ sums = Total(entry, left) /\ gauge = Ones(link # "none") + Ones(left.open)
      /\ ~entry.open => entry = NoEntry /\ link = "none"
      /\ entry.open => link # "none"
    BY <1>0, EntryFacts DEF Connections, RegistryExact
<1>2. CASE UNCHANGED <<vars, registry, gauge>>
    <2>1. UNCHANGED <<vars, link, entry, left, sums, gauge>>
        BY <1>2 DEF registry
    <2>2. PumpInv'
        BY <2>1, PumpIdle
    <2>3. UNCHANGED <<queue, waitingDrain, published>>
        BY <2>1 DEF vars
    <2>4. Connections'
        BY <1>1, <2>1, <2>2, <2>3, ConnectionsHold DEF Connections
    <2> QED
        BY <2>2, <2>4
<1>3. CASE /\ link' = "up" /\ left' = entry /\ entry' = Entry(State(<<>>, 0, FALSE)) /\ sums' = Registered
           /\ gauge' = gauge + 1
           /\ queue' = <<>> /\ queueBytes' = 0 /\ waitingDrain' = FALSE /\ closed' = FALSE
           /\ published' = State(<<>>, 0, FALSE) /\ refused' = refused \union ToSet(queue)
           /\ UNCHANGED <<offered, sent, dropped>>
    <2>1. PumpInv'
        BY <1>3, NewPump
    <2>2. /\ entry'.frames = 0 /\ entry'.bytes = 0 /\ entry'.waiting = FALSE /\ entry'.open = TRUE
        BY <1>3 DEF Entry, State
    <2>3. sums' = Total(entry', left')
        <3>1. sums' = [subs |-> sums.subs + 1, waiting |-> sums.waiting, frames |-> sums.frames, bytes |-> sums.bytes]
            BY <1>1, <1>3 DEF Registered, Total
        <3>2. /\ sums.subs = Ones(entry.open) + 0 /\ sums.waiting = Ones(entry.waiting) + 0
              /\ sums.frames = entry.frames + 0 /\ sums.bytes = entry.bytes + 0
            BY <1>1, EntryFacts DEF Total, Ones
        <3>3. /\ Ones(entry.open) \in {0, 1} /\ Ones(entry.waiting) \in {0, 1}
              /\ entry.frames \in Nat /\ entry.bytes \in Nat
            BY <1>1 DEF Ones, Entries
        <3>4. /\ sums.subs + 1 = Ones(TRUE) + Ones(entry.open) /\ sums.waiting = Ones(FALSE) + Ones(entry.waiting)
              /\ sums.frames = 0 + entry.frames /\ sums.bytes = 0 + entry.bytes
            BY <3>2, <3>3 DEF Ones
        <3>5. Total(entry', left') = [subs |-> Ones(TRUE) + Ones(entry.open), waiting |-> Ones(FALSE) + Ones(entry.waiting),
                                      frames |-> 0 + entry.frames, bytes |-> 0 + entry.bytes]
            BY <1>3, <2>2 DEF Total
        <3> QED
            BY <3>1, <3>4, <3>5
    <2>4. gauge' = Ones(link' # "none") + Ones(left'.open)
        <3>1. Ones(entry.open) = Ones(link # "none")
            BY <1>1 DEF Ones
        <3>2. Ones(link # "none") \in {0, 1} /\ Ones(left.open) = 0 /\ Ones(link' # "none") = 1
            BY <1>0, <1>3 DEF Ones
        <3> QED
            BY <1>1, <1>3, <3>1, <3>2
    <2>5. entry' = Entry(published') /\ link' \in {"none", "up", "gone"} /\ link' # "none"
        BY <1>3
    <2>6. left' \in Entries /\ (~left'.open => left' = NoEntry)
        BY <1>1, <1>3
    <2>7. Connections'
        BY <2>1, <2>3, <2>4, <2>5, <2>6, ConnectionsHold
    <2> QED
        BY <2>1, <2>7
<1> QED
    BY <1>2, <1>3 DEF Connect

LEMMA ConnectionFacts ==
    ASSUME PumpInv, Connections
    PROVE  /\ link \in {"none", "up", "gone"} /\ left \in Entries /\ (~left.open => left = NoEntry)
           /\ entry = (IF link = "none" THEN NoEntry ELSE Entry(published)) /\ entry \in Entries
           /\ sums = Total(entry, left) /\ (link = "none" => queue = <<>> /\ ~waitingDrain)
           /\ gauge = Ones(link # "none") + Ones(left.open)
    BY EntryFacts DEF Connections, RegistryExact

LEMMA LeftStep ==
    ASSUME PumpInv, Connections, LeftBatch \/ LeftFinishes
    PROVE  PumpInv' /\ Connections'
<1>1. left.open /\ UNCHANGED <<vars, link, entry>>
    BY DEF LeftBatch, LeftFinishes
<1>2. PumpInv' /\ UNCHANGED <<queue, waitingDrain, published>>
    <2>1. UNCHANGED vars
        BY <1>1
    <2> QED
        BY <2>1, PumpIdle DEF vars
<1>3. /\ link \in {"none", "up", "gone"} /\ left \in Entries
      /\ entry = (IF link = "none" THEN NoEntry ELSE Entry(published)) /\ entry \in Entries
      /\ sums = Total(entry, left) /\ (link = "none" => queue = <<>> /\ ~waitingDrain)
      /\ gauge = Ones(link # "none") + Ones(left.open)
    BY ConnectionFacts
<1>4. sums = Total(left, entry)
    BY <1>3, TotalFacts
<1>5. CASE LeftBatch
    <2>1. PICK f \in {0, MaxPendingFrames} : left' = [left EXCEPT !.frames = f, !.bytes = f, !.waiting = TRUE]
        BY <1>5 DEF LeftBatch
    <2>2. left' \in Entries /\ left'.open = left.open
        <3>1. f \in Nat
            BY <2>1, PumpAssumption
        <3>2. \A n \in Nat : \A e \in Entries :
                 LET d == [e EXCEPT !.frames = n, !.bytes = n, !.waiting = TRUE]
                 IN  d \in Entries /\ d.open = e.open
            BY DEF Entries
        <3> QED
            BY <1>3, <2>1, <3>1, <3>2
    <2>3. sums' = Updated(left, left') /\ gauge' = gauge
        BY <1>5 DEF LeftBatch
    <2>4. sums' = Total(left', entry)
        BY <1>3, <1>4, <2>2, <2>3, TotalFacts
    <2>5. sums' = Total(entry', left')
        BY <1>1, <1>3, <2>2, <2>4, TotalFacts
    <2> QED
        BY <1>1, <1>2, <1>3, <2>2, <2>3, <2>5, ConnectionsHold
<1>6. CASE LeftFinishes
    <2>1. left' = NoEntry /\ sums' = Unregistered(sums, left) /\ gauge' = gauge - 1
        BY <1>6 DEF LeftFinishes
    <2>2. sums' = Total(NoEntry, entry)
        BY <1>1, <1>3, <1>4, <2>1, TotalFacts
    <2>3. sums' = Total(entry', left')
        BY <1>1, <1>3, <2>1, <2>2, EntryFacts, TotalFacts
    <2>4. gauge' = Ones(link' # "none") + Ones(left'.open)
        <3>1. Ones(left.open) = 1 /\ Ones(left'.open) = 0
            BY <1>1, <2>1, EntryFacts DEF Ones
        <3>2. Ones(link # "none") \in {0, 1} /\ Ones(link' # "none") = Ones(link # "none")
            BY <1>1 DEF Ones
        <3> QED
            BY <1>3, <2>1, <3>1, <3>2
    <2>5. left' \in Entries /\ (~left'.open => left' = NoEntry)
        BY <2>1, EntryFacts
    <2> QED
        BY <1>1, <1>2, <1>3, <2>3, <2>4, <2>5, ConnectionsHold
<1> QED
    BY <1>5, <1>6

\* A step that does not touch the pump or the registry; its client may leave.
LEMMA IdleStep ==
    ASSUME PumpInv, Connections, UNCHANGED <<vars, entry, left, sums, gauge>>,
           link' = link \/ (link = "up" /\ link' = "gone")
    PROVE  PumpInv' /\ Connections'
<1>1. PumpInv' /\ UNCHANGED <<queue, waitingDrain, published>>
    BY PumpIdle DEF vars
<1>2. /\ link \in {"none", "up", "gone"} /\ left \in Entries /\ (~left.open => left = NoEntry)
      /\ entry = (IF link = "none" THEN NoEntry ELSE Entry(published))
      /\ sums = Total(entry, left) /\ (link = "none" => queue = <<>> /\ ~waitingDrain)
      /\ gauge = Ones(link # "none") + Ones(left.open)
    BY ConnectionFacts
<1>3. link' \in {"none", "up", "gone"} /\ ((link' = "none") <=> (link = "none"))
    BY <1>2
<1>4. Ones(link' # "none") = Ones(link # "none")
    BY <1>3 DEF Ones
<1> QED
    BY <1>1, <1>2, <1>3, <1>4, ConnectionsHold

LEMMA ConnectionsStep == PumpInv /\ Connections /\ [LoadNext]_loadVars => PumpInv' /\ Connections'
<1> SUFFICES ASSUME PumpInv, Connections, [LoadNext]_loadVars PROVE PumpInv' /\ Connections'
    OBVIOUS
<1>1. CASE Serve
    <2>1. /\ link # "none" /\ Callbacks /\ UNCHANGED <<link, left, gauge>>
          /\ [Next]_vars
        BY <1>1 DEF Serve, Next
    <2> QED
        BY <2>1, ServedStep
<1>2. CASE Drain
    <2>1. /\ link # "none" /\ Callbacks /\ UNCHANGED <<link, left, gauge>>
          /\ [Next]_vars
        BY <1>2 DEF Drain, Next
    <2> QED
        BY <2>1, ServedStep
<1>3. CASE Finish
    BY <1>3, FinishStep
<1>4. CASE Connect
    BY <1>4, ConnectStep
<1>5. CASE LeftBatch \/ LeftFinishes
    BY <1>5, LeftStep
<1>6. CASE Break \/ EndStage
    <2>1. /\ UNCHANGED <<vars, entry, left, sums, gauge>>
          /\ link' = link \/ (link = "up" /\ link' = "gone")
        BY <1>6 DEF Break, EndStage, metrics
    <2> QED
        BY <2>1, IdleStep
<1>7. CASE Ingest \/ IngestFails \/ ForeignReset \/ ResetStage \/ StartStage \/ Judge \/ NextStage
    <2>1. UNCHANGED <<vars, link, entry, left, sums, gauge>>
        BY <1>7 DEF Ingest, IngestFails, ForeignReset, ResetWindow, ResetStage, StartStage, Judge, NextStage,
                    registry, metrics
    <2> QED
        BY <2>1, IdleStep
<1>8. CASE UNCHANGED loadVars
    <2>1. UNCHANGED <<vars, link, entry, left, sums, gauge>>
        BY <1>8 DEF loadVars, registry, metrics
    <2> QED
        BY <2>1, IdleStep
<1> QED
    BY <1>1, <1>2, <1>3, <1>4, <1>5, <1>6, <1>7, <1>8 DEF LoadNext

LEMMA LoadStart == LoadInit => PumpInv /\ Connections
<1> SUFFICES ASSUME LoadInit PROVE PumpInv /\ Connections
    OBVIOUS
<1>1. PumpInv /\ link = "none" /\ queue = <<>> /\ waitingDrain = FALSE
    BY InitStep, CountInit DEF LoadInit, Init, PumpInv, Counted
<1>2. entry = NoEntry /\ left = NoEntry /\ gauge = 0 /\ sums = [subs |-> 0, waiting |-> 0, frames |-> 0, bytes |-> 0]
    BY DEF LoadInit
<1>3. entry = Own /\ left \in Entries /\ ~left.open
    BY <1>1, <1>2, EntryFacts
<1>4. Own = NoEntry
    BY <1>1 DEF Own
<1>5. RegistryExact
    BY <1>2, <1>4 DEF RegistryExact, Total, NoEntry, Ones
<1>6. gauge = Ones(link # "none") + Ones(left.open)
    BY <1>1, <1>2, <1>3 DEF Ones
<1> QED
    BY <1>1, <1>2, <1>3, <1>5, <1>6 DEF Connections

\* After a drained stage nothing of it is left.
LEMMA AloneStep == Connections /\ Alone /\ [LoadNext]_loadVars => Alone'
<1> SUFFICES ASSUME Connections, Alone, [LoadNext]_loadVars PROVE Alone'
    OBVIOUS
<1>1. ASSUME UNCHANGED <<drained, pc>>, left' = left \/ ~left'.open, link' = link \/ link' = "none" \/ link # "none"
      PROVE  Alone'
    BY <1>1 DEF Alone
<1>2. CASE Serve \/ Drain \/ Ingest \/ IngestFails \/ ForeignReset \/ Finish \/ Break
    <2>1. UNCHANGED <<drained, pc, left>> /\ (link' = link \/ link' = "none" \/ link # "none")
        BY <1>2 DEF Serve, Drain, Ingest, IngestFails, ForeignReset, Finish, Break, registry, harness
    <2> QED
        BY <1>1, <2>1
<1>3. CASE LeftFinishes
    <2>1. left' = NoEntry /\ UNCHANGED <<drained, pc, link>>
        BY <1>3 DEF LeftFinishes, harness
    <2> QED
        BY <1>1, <2>1, EntryFacts
<1>4. CASE LeftBatch
    <2>1. left.open /\ drained' = drained
        BY <1>4 DEF LeftBatch, harness
    <2> QED
        BY <2>1 DEF Alone
<1>5. CASE Connect
    <2>1. /\ pc = "begin" /\ pc' = "warm" /\ drained' = drained /\ ~left.open
          /\ left' = entry \/ left' = left
        BY <1>5 DEF Connect, registry
    <2>2. drained => link = "none" /\ entry = NoEntry
        BY <2>1, EntryFacts DEF Alone, Connections, Own
    <2>3. drained => ~left'.open
        BY <2>1, <2>2, EntryFacts
    <2> QED
        BY <2>1, <2>3 DEF Alone
<1>6. CASE ResetStage \/ StartStage \/ EndStage
    <2>1. UNCHANGED <<left, drained>> /\ pc' \notin {"begin", "judged"}
        BY <1>6 DEF ResetStage, StartStage, EndStage, registry
    <2> QED
        BY <2>1 DEF Alone
<1>7. CASE Judge
    <2>1. (drained' => gauge = 0) /\ UNCHANGED <<link, left>>
        BY <1>7 DEF Judge, registry
    <2>2. gauge = 0 => link = "none" /\ ~left.open
        <3>1. /\ gauge = Ones(link # "none") + Ones(left.open) /\ left.open \in BOOLEAN
            BY DEF Connections, Entries
        <3> QED
            BY <3>1 DEF Ones
    <2> QED
        BY <2>1, <2>2 DEF Alone
<1>8. CASE NextStage
    <2>1. UNCHANGED <<link, left, drained>> /\ pc = "judged"
        BY <1>8 DEF NextStage, registry
    <2> QED
        BY <2>1 DEF Alone
<1>9. CASE UNCHANGED loadVars
    BY <1>1, <1>9 DEF loadVars, registry, harness
<1> QED
    BY <1>2, <1>3, <1>4, <1>5, <1>6, <1>7, <1>8, <1>9 DEF LoadNext

-----------------------------------------------------------------------------
\* The snapshots of a stage.

\* The meters: what the metrics count, and their window.
Meters ==
    /\ {counter, base} \subseteq [sent : Nat, drops : Nat]
    /\ base.sent <= counter.sent /\ base.drops <= counter.drops
    /\ generation \in Nat /\ IsFiniteSet(dropped)

LEMMA LessFacts == \A a, b \in Nat : b <= a => Less(a, b) = a - b /\ a - b \in Nat
    BY DEF Less

LEMMA SummaryFacts ==
    ASSUME PumpInv, Measured
    PROVE  /\ Summary \in Snapshot /\ Summary.generation = generation
           /\ Summary.sent = Len(sent) /\ Summary.dropped = Cardinality(dropped)
           /\ Summary.frames = counter.sent - base.sent /\ Summary.drops = counter.drops - base.drops
<1>1. /\ counter.sent \in Nat /\ counter.drops \in Nat /\ base.sent \in Nat /\ base.drops \in Nat
      /\ base.sent <= counter.sent /\ base.drops <= counter.drops /\ generation \in Nat
    BY DEF Measured
<1>2. Len(sent) \in Nat /\ Cardinality(dropped) \in Nat
    BY FS_CardinalityType DEF Measured, PumpInv, IInv, TypeOK
<1>3. /\ Less(counter.sent, base.sent) = counter.sent - base.sent /\ counter.sent - base.sent \in Nat
      /\ Less(counter.drops, base.drops) = counter.drops - base.drops /\ counter.drops - base.drops \in Nat
    BY <1>1, LessFacts
<1>4. Summary = [frames |-> counter.sent - base.sent, drops |-> counter.drops - base.drops,
                 generation |-> generation, sent |-> Len(sent), dropped |-> Cardinality(dropped)]
    BY <1>3 DEF Summary
<1>5. Summary \in Snapshot
    BY <1>1, <1>2, <1>3, <1>4 DEF Snapshot
<1> QED
    BY <1>4, <1>5

LEMMA NextSummary ==
    ASSUME Meters', Len(sent') \in Nat
    PROVE  /\ Summary' \in Snapshot /\ Summary'.generation = generation'
           /\ Summary'.sent = Len(sent') /\ Summary'.dropped = Cardinality(dropped')
           /\ Summary'.frames = counter'.sent - base'.sent /\ Summary'.drops = counter'.drops - base'.drops
<1>1. /\ counter'.sent \in Nat /\ counter'.drops \in Nat /\ base'.sent \in Nat /\ base'.drops \in Nat
      /\ base'.sent <= counter'.sent /\ base'.drops <= counter'.drops /\ generation' \in Nat
    BY DEF Meters
<1>2. Cardinality(dropped') \in Nat
    BY FS_CardinalityType DEF Meters
<1>3. /\ Less(counter'.sent, base'.sent) = counter'.sent - base'.sent /\ counter'.sent - base'.sent \in Nat
      /\ Less(counter'.drops, base'.drops) = counter'.drops - base'.drops /\ counter'.drops - base'.drops \in Nat
    BY <1>1, LessFacts
<1>4. Summary' = [frames |-> counter'.sent - base'.sent, drops |-> counter'.drops - base'.drops,
                  generation |-> generation', sent |-> Len(sent'), dropped |-> Cardinality(dropped')]
    BY <1>3 DEF Summary
<1>5. Summary' \in Snapshot
    BY <1>1, <1>2, <1>3, <1>4 DEF Snapshot
<1> QED
    BY <1>4, <1>5

\* Growth carries on from one snapshot to the next.
LEMMA GrownOn ==
    ASSUME NEW from \in Snapshot, NEW now \in Snapshot, NEW next \in Snapshot,
           Grown(from, now), Grown(now, next)
    PROVE  Grown(from, next)
<1>1. /\ from.generation \in Nat /\ now.generation \in Nat /\ next.generation \in Nat
      /\ from.frames \in Nat /\ now.frames \in Nat /\ next.frames \in Nat
      /\ from.drops \in Nat /\ now.drops \in Nat /\ next.drops \in Nat
      /\ from.sent \in Nat /\ now.sent \in Nat /\ next.sent \in Nat
      /\ from.dropped \in Nat /\ now.dropped \in Nat /\ next.dropped \in Nat
    BY DEF Snapshot
<1>2. from.generation <= next.generation /\ from.dropped <= next.dropped
    BY <1>1 DEF Grown
<1>3. ASSUME from.generation = next.generation
      PROVE  from.generation = now.generation /\ now.generation = next.generation
    BY <1>1, <1>3 DEF Grown
<1>4. ASSUME from.generation = next.generation
      PROVE  next.frames - from.frames = next.sent - from.sent /\ next.drops - from.drops = next.dropped - from.dropped
    <2>1. /\ now.frames - from.frames = now.sent - from.sent /\ now.drops - from.drops = now.dropped - from.dropped
          /\ next.frames - now.frames = next.sent - now.sent /\ next.drops - now.drops = next.dropped - now.dropped
        BY <1>3, <1>4 DEF Grown
    <2>2. \A a, b, c, d, e, f \in Nat : b - a = e - d /\ c - b = f - e => c - a = f - d
        OBVIOUS
    <2>3. next.frames - from.frames = next.sent - from.sent
        BY <1>1, <2>1, <2>2
    <2>4. next.drops - from.drops = next.dropped - from.dropped
        BY <1>1, <2>1, <2>2
    <2> QED
        BY <2>3, <2>4
<1> QED
    BY <1>2, <1>4 DEF Grown

LEMMA GrownSelf == \A s \in Snapshot : Grown(s, s)
    BY DEF Snapshot, Grown

LEMMA SnapshotsKept ==
    ASSUME PumpInv, PumpInv', Measured, Meters', UNCHANGED <<start, end, pc, drained>>,
           drained /\ pc = "ingest" => Grown(Summary, Summary')
    PROVE  Measured'
<1>1. Summary \in Snapshot /\ start \in Snapshot /\ end \in Snapshot
    BY SummaryFacts DEF Measured
<1>2. Summary' \in Snapshot
    <2>1. Len(sent') \in Nat
        BY DEF PumpInv, IInv, TypeOK
    <2> QED
        BY <2>1, NextSummary
<1>3. drained /\ pc = "ingest" => Grown(start, Summary')
    BY <1>1, <1>2, GrownOn DEF Measured
<1>4. (drained' /\ pc' = "ingest" => Grown(start', Summary')) /\ (drained' /\ pc' = "ending" => Grown(start', end'))
    BY <1>3 DEF Measured
<1>5. start' \in Snapshot /\ end' \in Snapshot
    BY <1>1
<1> QED
    BY <1>4, <1>5 DEF Measured, Meters

\* A step of the pump with its callbacks, or without any.
LEMMA CountedStep ==
    ASSUME PumpInv, PumpInv', Measured, [Next]_vars, UNCHANGED <<base, generation>>,
           counter' = [sent |-> counter.sent + Len(sent') - Len(sent),
                       drops |-> counter.drops + Cardinality(dropped') - Cardinality(dropped)]
    PROVE  Meters' /\ Grown(Summary, Summary')
<1>1. /\ counter.sent \in Nat /\ counter.drops \in Nat /\ base.sent \in Nat /\ base.drops \in Nat
      /\ base \in [sent : Nat, drops : Nat]
      /\ base.sent <= counter.sent /\ base.drops <= counter.drops /\ generation \in Nat
    BY DEF Measured
<1>2. /\ IsFiniteSet(dropped') /\ Cardinality(dropped) \in Nat /\ Cardinality(dropped') \in Nat
      /\ Cardinality(dropped) <= Cardinality(dropped')
      /\ Len(sent) \in Nat /\ Len(sent') \in Nat /\ Len(sent) <= Len(sent')
    BY GrowStep DEF PumpInv, Measured
<1>3. /\ counter'.sent = counter.sent + Len(sent') - Len(sent)
      /\ counter'.drops = counter.drops + Cardinality(dropped') - Cardinality(dropped)
    OBVIOUS
<1>4. counter'.sent \in Nat /\ counter'.drops \in Nat /\ counter.sent <= counter'.sent /\ counter.drops <= counter'.drops
    <2>1. \A a, b, c \in Nat : b <= c => a + c - b \in Nat /\ a <= a + c - b
        OBVIOUS
    <2>2. counter'.sent \in Nat /\ counter.sent <= counter'.sent
        BY <1>1, <1>2, <1>3, <2>1
    <2>3. counter'.drops \in Nat /\ counter.drops <= counter'.drops
        BY <1>1, <1>2, <1>3, <2>1
    <2> QED
        BY <2>2, <2>3
<1>5. counter' \in [sent : Nat, drops : Nat]
    <2>1. counter' = [sent |-> counter'.sent, drops |-> counter'.drops]
        BY <1>3
    <2> QED
        BY <1>4, <2>1
<1>6. base' = base /\ generation' = generation
    OBVIOUS
<1>7. Meters'
    <2>1. {counter', base'} \subseteq [sent : Nat, drops : Nat]
        BY <1>1, <1>5, <1>6
    <2>2. base'.sent <= counter'.sent /\ base'.drops <= counter'.drops
        BY <1>1, <1>4, <1>6
    <2> QED
        BY <1>1, <1>2, <1>6, <2>1, <2>2 DEF Meters
<1>8. /\ Summary.generation = generation /\ Summary.sent = Len(sent) /\ Summary.dropped = Cardinality(dropped)
      /\ Summary.frames = counter.sent - base.sent /\ Summary.drops = counter.drops - base.drops
    BY SummaryFacts
<1>9. /\ Summary'.generation = generation' /\ Summary'.sent = Len(sent') /\ Summary'.dropped = Cardinality(dropped')
      /\ Summary'.frames = counter'.sent - base'.sent /\ Summary'.drops = counter'.drops - base'.drops
    BY <1>2, <1>7, NextSummary
<1>10. Grown(Summary, Summary')
    <2>1. Summary'.frames - Summary.frames = Summary'.sent - Summary.sent
        <3>1. Summary'.frames = (counter.sent + Len(sent') - Len(sent)) - base.sent /\ Summary'.sent = Len(sent')
            BY <1>3, <1>6, <1>9
        <3>2. Summary.frames = counter.sent - base.sent /\ Summary.sent = Len(sent)
            BY <1>8
        <3> QED
            BY <1>1, <1>2, <3>1, <3>2
    <2>2. Summary'.drops - Summary.drops = Summary'.dropped - Summary.dropped
        <3>1. /\ Summary'.drops = (counter.drops + Cardinality(dropped') - Cardinality(dropped)) - base.drops
              /\ Summary'.dropped = Cardinality(dropped')
            BY <1>3, <1>6, <1>9
        <3>2. Summary.drops = counter.drops - base.drops /\ Summary.dropped = Cardinality(dropped)
            BY <1>8
        <3> QED
            BY <1>1, <1>2, <3>1, <3>2
    <2>3. Summary.generation <= Summary'.generation /\ Summary.dropped <= Summary'.dropped
        BY <1>1, <1>2, <1>6, <1>8, <1>9
    <2> QED
        BY <2>1, <2>2, <2>3 DEF Grown
<1> QED
    BY <1>7, <1>10

LEMMA MeasuredStep ==
    ASSUME PumpInv, PumpInv', Connections, Alone, Measured, [LoadNext]_loadVars
    PROVE  Measured'
<1>1. Meters /\ start \in Snapshot /\ end \in Snapshot /\ Summary \in Snapshot /\ Len(sent) \in Nat /\ Len(sent') \in Nat
    BY SummaryFacts DEF Measured, Meters, PumpInv, IInv, TypeOK
<1>2. ASSUME UNCHANGED <<sent, dropped, counter, base, generation>>
      PROVE  Meters' /\ Summary' = Summary
    BY <1>1, <1>2 DEF Meters, Summary
<1>3. ASSUME UNCHANGED <<sent, dropped, counter, base, generation, start, end, pc, drained>> PROVE Measured'
    <2>1. Meters' /\ Summary' = Summary
        BY <1>2, <1>3
    <2>2. Grown(Summary, Summary')
        BY <1>1, <2>1, GrownSelf
    <2> QED
        BY <1>3, <2>1, <2>2, SnapshotsKept
<1>4. CASE Serve \/ Drain
    <2>1. Callbacks /\ UNCHANGED <<base, generation, start, end, pc, drained>>
        BY <1>4 DEF Serve, Drain, harness
    <2>2. [Next]_vars
        BY <1>4 DEF Serve, Drain, Next
    <2>3. counter' = [sent |-> counter.sent + Len(sent') - Len(sent),
                      drops |-> counter.drops + Cardinality(dropped') - Cardinality(dropped)]
        BY <2>1 DEF Callbacks
    <2>4. Meters' /\ Grown(Summary, Summary')
        BY <2>1, <2>2, <2>3, CountedStep
    <2> QED
        BY <2>1, <2>4, SnapshotsKept
<1>5. CASE Ingest \/ IngestFails \/ Break \/ LeftFinishes
    <2>1. UNCHANGED <<vars, counter, base, generation, start, end, pc, drained>>
        BY <1>5 DEF Ingest, IngestFails, Break, LeftFinishes, metrics, harness
    <2>2. UNCHANGED <<sent, dropped>>
        BY <2>1 DEF vars
    <2> QED
        BY <1>3, <2>1, <2>2
<1>6. CASE Finish
    BY <1>3, <1>6 DEF Finish, Close, harness
<1>7. CASE LeftBatch
    <2>1. /\ left.open /\ UNCHANGED <<vars, base, generation, start, end, pc, drained>>
          /\ \E d \in 0 .. 1 : counter' = [sent |-> counter.sent + 1, drops |-> counter.drops + d]
        BY <1>7 DEF LeftBatch, harness
    <2>2. ~drained
        BY <2>1 DEF Alone
    <2>3. UNCHANGED <<sent, dropped>>
        BY <2>1 DEF vars
    <2>4. Meters'
        <3>1. PICK d \in 0 .. 1 : counter' = [sent |-> counter.sent + 1, drops |-> counter.drops + d]
            BY <2>1
        <3>2. counter.sent \in Nat /\ counter.drops \in Nat /\ base.sent \in Nat /\ base.drops \in Nat /\ d \in Nat
            BY <1>1 DEF Meters
        <3>3. /\ counter' \in [sent : Nat, drops : Nat] /\ base' \in [sent : Nat, drops : Nat]
              /\ base.sent <= counter'.sent /\ base.drops <= counter'.drops
            BY <1>1, <2>1, <3>1, <3>2 DEF Meters
        <3> QED
            BY <1>1, <2>1, <2>3, <3>3 DEF Meters
    <2> QED
        BY <2>1, <2>2, <2>4, SnapshotsKept
<1>8. ASSUME ResetWindow, UNCHANGED <<sent, dropped>> PROVE Meters' /\ Grown(Summary, Summary')
    <2>1. generation' = generation + 1 /\ base' = counter /\ counter' = counter
        BY <1>8 DEF ResetWindow
    <2>2. Meters'
        <3>1. counter.sent \in Nat /\ counter.drops \in Nat /\ generation \in Nat
            BY <1>1 DEF Meters
        <3>2. counter'.sent <= counter'.sent /\ counter'.drops <= counter'.drops /\ generation' \in Nat
            BY <2>1, <3>1
        <3> QED
            BY <1>1, <1>8, <2>1, <3>2 DEF Meters
    <2>3. /\ Summary.generation = generation /\ Summary.dropped = Cardinality(dropped)
          /\ Summary'.generation = generation' /\ Summary'.dropped = Cardinality(dropped')
        BY <1>1, <2>2, SummaryFacts, NextSummary
    <2>4. Cardinality(dropped) \in Nat /\ generation \in Nat
        BY <1>1, FS_CardinalityType DEF Meters
    <2> QED
        BY <1>8, <2>1, <2>2, <2>3, <2>4 DEF Grown
<1>9. CASE ForeignReset
    <2>1. ResetWindow /\ UNCHANGED <<vars, start, end, pc, drained>>
        BY <1>9 DEF ForeignReset, harness
    <2>2. UNCHANGED <<sent, dropped>>
        BY <2>1 DEF vars
    <2>3. Meters' /\ Grown(Summary, Summary')
        BY <1>8, <2>1, <2>2
    <2> QED
        BY <2>1, <2>3, SnapshotsKept
<1>10. ASSUME Meters', start' \in Snapshot, end' \in Snapshot, pc' \notin {"ingest", "ending"} PROVE Measured'
    BY <1>10 DEF Measured, Meters
<1>11. CASE Connect
    <2>1. UNCHANGED <<counter, base, generation, start, end>> /\ pc' = "warm"
        BY <1>11 DEF Connect
    <2>2. UNCHANGED <<sent, dropped>>
        BY <1>11 DEF Connect, vars
    <2> QED
        BY <1>1, <1>2, <1>10, <2>1, <2>2
<1>12. CASE ResetStage
    <2>1. /\ UNCHANGED <<vars, start, end>> /\ pc' \in {"aborted", "ready"}
          /\ UNCHANGED metrics \/ ResetWindow
        BY <1>12 DEF ResetStage
    <2>2. UNCHANGED <<sent, dropped>>
        BY <2>1 DEF vars
    <2>3. Meters'
        <3>1. CASE UNCHANGED metrics
            BY <1>2, <2>2, <3>1 DEF metrics
        <3>2. CASE ResetWindow
            BY <1>8, <2>2, <3>2
        <3> QED
            BY <2>1, <3>1, <3>2
    <2> QED
        BY <1>1, <1>10, <2>1, <2>3
<1>13. CASE StartStage
    <2>1. /\ UNCHANGED <<vars, counter, base, generation, end>> /\ pc' = "ingest" /\ start' = Summary
        BY <1>13 DEF StartStage, metrics
    <2>2. UNCHANGED <<sent, dropped>>
        BY <2>1 DEF vars
    <2>3. Meters' /\ Summary' = Summary
        BY <1>2, <2>1, <2>2
    <2>4. Grown(start', Summary') /\ start' \in Snapshot /\ end' \in Snapshot
        BY <1>1, <2>1, <2>3, GrownSelf
    <2> QED
        BY <2>1, <2>3, <2>4 DEF Measured, Meters
<1>14. CASE EndStage
    <2>1. /\ UNCHANGED <<vars, counter, base, generation, start, drained>> /\ pc = "ingest" /\ pc' = "ending" /\ end' = Summary
        BY <1>14 DEF EndStage, metrics
    <2>2. UNCHANGED <<sent, dropped>>
        BY <2>1 DEF vars
    <2>3. Meters'
        BY <1>2, <2>1, <2>2
    <2>4. (drained' => Grown(start', end')) /\ start' \in Snapshot /\ end' \in Snapshot
        BY <1>1, <2>1 DEF Measured
    <2> QED
        BY <2>1, <2>3, <2>4 DEF Measured, Meters
<1>15. CASE Judge
    <2>1. UNCHANGED <<vars, counter, base, generation, start, end>> /\ pc' = "judged"
        BY <1>15 DEF Judge, metrics
    <2>2. UNCHANGED <<sent, dropped>>
        BY <2>1 DEF vars
    <2> QED
        BY <1>1, <1>2, <1>10, <2>1, <2>2
<1>16. CASE NextStage
    <2>1. /\ UNCHANGED <<vars, counter, base, generation>> /\ start' = NoSnapshot /\ end' = NoSnapshot
          /\ pc' \in {"begin", "reported"}
        BY <1>16 DEF NextStage, metrics
    <2>2. UNCHANGED <<sent, dropped>>
        BY <2>1 DEF vars
    <2>3. NoSnapshot \in Snapshot
        BY DEF NoSnapshot, Snapshot
    <2> QED
        BY <1>2, <1>10, <2>1, <2>2, <2>3
<1>17. CASE UNCHANGED loadVars
    <2>1. UNCHANGED <<vars, counter, base, generation, start, end, pc, drained>>
        BY <1>17 DEF loadVars, metrics, harness
    <2>2. UNCHANGED <<sent, dropped>>
        BY <2>1 DEF vars
    <2> QED
        BY <1>3, <2>1, <2>2
<1> QED
    BY <1>4, <1>5, <1>6, <1>7, <1>9, <1>11, <1>12, <1>13, <1>14, <1>15, <1>16, <1>17 DEF LoadNext

\* The inductive invariant of the backend under load: the pump's own, the
\* registry's, and what the snapshots of a stage say of its connection.
THEOREM LoadInvariant == LoadSpec => []LoadInv
<1>1. LoadInit => LoadInv
    <2> SUFFICES ASSUME LoadInit PROVE LoadInv
        OBVIOUS
    <2>1. PumpInv /\ Connections
        BY LoadStart
    <2>2. Alone
        BY EntryFacts DEF LoadInit, Alone
    <2>3. /\ counter = [sent |-> 0, drops |-> 0] /\ base = counter /\ generation = 1 /\ dropped = {}
          /\ start = NoSnapshot /\ end = NoSnapshot /\ pc = "begin"
        BY DEF LoadInit, Init
    <2>4. Measured
        <3>1. IsFiniteSet(dropped)
            BY <2>3, FS_EmptySet
        <3>2. NoSnapshot \in Snapshot
            BY DEF NoSnapshot, Snapshot
        <3>3. {counter, base} \subseteq [sent : Nat, drops : Nat] /\ base.sent <= counter.sent /\ base.drops <= counter.drops
            BY <2>3
        <3> QED
            BY <2>3, <3>1, <3>2, <3>3 DEF Measured
    <2> QED
        BY <2>1, <2>2, <2>4 DEF LoadInv, PumpInv
<1>2. LoadInv /\ [LoadNext]_loadVars => LoadInv'
    <2> SUFFICES ASSUME LoadInv, [LoadNext]_loadVars PROVE LoadInv'
        OBVIOUS
    <2>1. PumpInv /\ Connections /\ Alone /\ Measured
        BY DEF LoadInv, PumpInv
    <2>2. PumpInv' /\ Connections'
        BY <2>1, ConnectionsStep
    <2>3. Alone' /\ Measured'
        BY <2>1, <2>2, AloneStep, MeasuredStep
    <2> QED
        BY <2>2, <2>3 DEF LoadInv, PumpInv
<1> QED
    BY <1>1, <1>2, PTL DEF LoadSpec

\* What a pump promises holds of each connection of the harness, also when a new
\* one takes its place before the old one has ended.
THEOREM LoadPumpTheorem == LoadSpec => [](OneFate /\ DropsOldest /\ NoStall)
<1>1. LoadInv => OneFate /\ DropsOldest /\ NoStall
    BY DEF LoadInv, IInv
<1> QED
    BY <1>1, LoadInvariant, PTL

\* The pressure registry's sums are exact in every state, for any limits, frame
\* sizes and number of stages.
THEOREM RegistryTheorem == LoadSpec => []RegistryExact
<1>1. LoadInv => RegistryExact
    BY DEF LoadInv, Connections
<1> QED
    BY <1>1, LoadInvariant, PTL

\* A stage that follows a drained one is judged by its own connection.
THEOREM StageTheorem == LoadSpec => StageExact
<1>1. LoadInv /\ [LoadNext]_loadVars =>
         [(pc = "ending" /\ pc' = "judged" /\ drained /\ start.generation = end.generation) =>
             /\ verdict'.frames = end.sent - start.sent
             /\ verdict'.drops = end.dropped - start.dropped]_loadVars
    <2> SUFFICES ASSUME LoadInv, LoadNext, pc = "ending", pc' = "judged", drained, start.generation = end.generation
                 PROVE  /\ verdict'.frames = end.sent - start.sent
                        /\ verdict'.drops = end.dropped - start.dropped
        OBVIOUS
    <2>1. Judge
        BY DEF LoadNext, Ingest, IngestFails, Serve, Drain, Finish, Break, LeftBatch, LeftFinishes, ForeignReset,
               Connect, ResetStage, StartStage, EndStage, NextStage, harness
    <2>2. verdict'.frames = end.frames - start.frames /\ verdict'.drops = NonNegative(end.drops - start.drops)
        BY <2>1 DEF Judge
    <2>3. /\ end.frames - start.frames = end.sent - start.sent
          /\ end.drops - start.drops = end.dropped - start.dropped /\ start.dropped <= end.dropped
        BY DEF LoadInv, Measured, Grown
    <2>4. end.dropped \in Nat /\ start.dropped \in Nat
        BY DEF LoadInv, Measured, Snapshot
    <2> QED
        BY <2>2, <2>3, <2>4 DEF NonNegative
<1> QED
    BY <1>1, LoadInvariant, PTL DEF LoadSpec, StageExact

-----------------------------------------------------------------------------
\* What the ingest sheds.

LEMMA Multiples ==
    /\ \A a, b, c \in Nat : a >= b => a * c >= b * c
    /\ \A a, b \in Nat, c \in Nat \ {0} : a * c >= b * c => a >= b
    OBVIOUS

\* Ratios: up counts beyond what is allowed, of the limit.
Ratio == [of : Nat \ {0}, up : Nat]
AtLeast(s, t) == s.up * t.of >= t.up * s.of

LEMMA AtLeastTransitive ==
    ASSUME NEW s \in Ratio, NEW t \in Ratio, NEW u \in Ratio, AtLeast(s, t), AtLeast(t, u)
    PROVE  AtLeast(s, u)
<1>1. /\ s.up \in Nat /\ t.up \in Nat /\ u.up \in Nat
      /\ s.of \in Nat \ {0} /\ t.of \in Nat \ {0} /\ u.of \in Nat \ {0}
    BY DEF Ratio
<1>2. /\ s.up * t.of \in Nat /\ t.up * s.of \in Nat /\ t.up * u.of \in Nat /\ u.up * t.of \in Nat
      /\ s.up * u.of \in Nat /\ u.up * s.of \in Nat
    BY <1>1
<1>3. (s.up * t.of) * u.of >= (t.up * s.of) * u.of
    BY <1>1, <1>2, Multiples DEF AtLeast
<1>4. (t.up * u.of) * s.of >= (u.up * t.of) * s.of
    BY <1>1, <1>2, Multiples DEF AtLeast
<1>5. /\ (s.up * t.of) * u.of = (s.up * u.of) * t.of
      /\ (t.up * s.of) * u.of = (t.up * u.of) * s.of
      /\ (u.up * t.of) * s.of = (u.up * s.of) * t.of
    BY <1>1
<1>6. (s.up * u.of) * t.of >= (u.up * s.of) * t.of
    <2> DEFINE a == (s.up * u.of) * t.of
    <2> DEFINE b == (t.up * u.of) * s.of
    <2> DEFINE c == (u.up * s.of) * t.of
    <2>1. a \in Nat /\ b \in Nat /\ c \in Nat
        BY <1>1
    <2>2. a >= b /\ b >= c
        BY <1>3, <1>4, <1>5
    <2> HIDE DEF a, b, c
    <2>3. a >= c
        BY <2>1, <2>2
    <2> QED
        BY <2>3 DEF a, c
<1>7. s.up * u.of >= u.up * s.of
    BY <1>1, <1>2, <1>6, Multiples
<1> QED
    BY <1>7 DEF AtLeast

LEMMA WorstRatio ==
    ASSUME NEW a \in Ratio, NEW b \in Ratio, NEW c \in Ratio
    PROVE  \E s \in {a, b, c} : \A t \in {a, b, c} : AtLeast(s, t)
<1>1. \A s, t \in Ratio : AtLeast(s, t) \/ AtLeast(t, s)
    <2> SUFFICES ASSUME NEW s \in Ratio, NEW t \in Ratio PROVE AtLeast(s, t) \/ AtLeast(t, s)
        OBVIOUS
    <2>1. s.up * t.of \in Nat /\ t.up * s.of \in Nat
        BY DEF Ratio
    <2> QED
        BY <2>1 DEF AtLeast
<1>2. \A s, t, u \in Ratio : AtLeast(s, t) /\ AtLeast(t, u) => AtLeast(s, u)
    BY AtLeastTransitive
<1>3. ASSUME NEW d \in {a, b}, AtLeast(d, a), AtLeast(d, b)
      PROVE  \E s \in {a, b, c} : \A t \in {a, b, c} : AtLeast(s, t)
    <2>1. d \in Ratio /\ AtLeast(c, c)
        BY <1>1
    <2>2. CASE AtLeast(d, c)
        BY <1>3, <2>2
    <2>3. CASE AtLeast(c, d)
        <3>1. AtLeast(c, a) /\ AtLeast(c, b)
            BY <1>2, <1>3, <2>1, <2>3
        <3> QED
            BY <2>1, <3>1
    <2> QED
        BY <1>1, <2>1, <2>2, <2>3
<1>4. CASE AtLeast(a, b)
    BY <1>1, <1>3, <1>4
<1>5. CASE AtLeast(b, a)
    BY <1>1, <1>3, <1>5
<1> QED
    BY <1>1, <1>4, <1>5

\* Of n events, the share of - up by of rounded down is kept, or one less when
\* nothing had to be rounded.
LEMMA ShareFacts ==
    ASSUME NEW n \in Nat \ {0}, NEW of \in Nat \ {0}, NEW up \in Nat \ {0}, NEW most \in 0 .. 99,
           100 * up <= most * of
    PROVE  LET exact == (n * (of - up)) \div of
           IN  /\ exact \in 0 .. n - 1 /\ 100 * (exact + 1) >= n * (100 - most)
               /\ (n * up) % of = 0 => 100 * exact >= n * (100 - most)
<1> DEFINE part == n * (of - up)
<1> DEFINE exact == part \div of
<1> DEFINE rest == part % of
<1>1. up < of /\ of - up \in Nat
    <2>1. most * of <= 99 * of
        OBVIOUS
    <2> QED
        BY <2>1
<1>2. part \in Nat /\ part = n * of - n * up /\ n * up \in Nat \ {0} /\ n * of \in Nat
    BY <1>1
<1>3. part \in Nat
    BY <1>2
<1> HIDE DEF part
<1>4. exact \in Nat /\ rest \in Nat /\ rest < of /\ part = (of * exact) + rest
    BY <1>3
<1> HIDE DEF exact, rest
<1>5. exact < n
    <2> SUFFICES ASSUME exact >= n PROVE FALSE
        BY <1>4
    <2>1. exact * of >= n * of
        BY <1>4, Multiples
    <2>2. of * exact = exact * of /\ exact * of \in Nat
        BY <1>4
    <2> QED
        BY <1>2, <1>4, <2>1, <2>2
<1>6. n * (100 - most) \in Nat /\ 100 - most \in Nat
    OBVIOUS
<1>7. 100 * part >= (n * (100 - most)) * of
    <2>1. (most * of) * n >= (100 * up) * n
        BY Multiples
    <2>2. /\ (most * of) * n = (n * of) * most /\ (100 * up) * n = 100 * (n * up)
          /\ (n * (100 - most)) * of = 100 * (n * of) - (n * of) * most
        OBVIOUS
    <2>3. 100 * part = 100 * (n * of) - 100 * (n * up)
        BY <1>2
    <2> DEFINE x == (n * of) * most
    <2> DEFINE y == n * up
    <2> DEFINE z == n * of
    <2>4. x \in Nat /\ y \in Nat /\ z \in Nat
        OBVIOUS
    <2>5. x >= 100 * y /\ 100 * part = 100 * z - 100 * y /\ (n * (100 - most)) * of = 100 * z - x
        BY <2>1, <2>2, <2>3
    <2> HIDE DEF x, y, z
    <2> QED
        BY <2>4, <2>5
<1>8. 100 * (exact + 1) >= n * (100 - most)
    <2>1. (100 * (exact + 1)) * of = 100 * (of * exact) + 100 * of
        BY <1>4
    <2>2. (100 * (exact + 1)) * of >= 100 * part
        BY <1>4, <2>1
    <2>3. (100 * (exact + 1)) * of >= (n * (100 - most)) * of
        <3> DEFINE a == (100 * (exact + 1)) * of
        <3> DEFINE b == 100 * part
        <3> DEFINE c == (n * (100 - most)) * of
        <3>1. a \in Nat /\ b \in Nat /\ c \in Nat /\ a >= b /\ b >= c
            BY <1>3, <1>4, <1>6, <1>7, <2>2
        <3> HIDE DEF a, b, c
        <3>2. a >= c
            BY <3>1
        <3> QED
            BY <3>2 DEF a, c
    <2>4. 100 * (exact + 1) \in Nat
        BY <1>4
    <2> QED
        BY <1>6, <2>3, <2>4, Multiples
<1>9. ASSUME (n * up) % of = 0 PROVE 100 * exact >= n * (100 - most)
    <2> DEFINE q == (n * up) \div of
    <2>1. q \in Nat /\ n * up = of * q
        BY <1>2, <1>9
    <2> HIDE DEF q
    <2>2. part = of * (n - q)
        BY <1>2, <2>1
    <2>3. rest = 0
        <3>1. rest = of * ((n - q) - exact)
            BY <1>4, <2>1, <2>2
        <3>2. (n - q) - exact \in Int
            BY <1>4, <2>1
        <3>3. \A k \in Int : of * k < of /\ of * k >= 0 => k = 0
            <4> SUFFICES ASSUME NEW k \in Int, of * k < of, of * k >= 0, k # 0 PROVE FALSE
                OBVIOUS
            <4>1. CASE k >= 1
                <5>1. k * of >= 1 * of
                    BY <4>1, Multiples
                <5> QED
                    BY <5>1
            <4>2. CASE k <= -1
                <5>1. (0 - k) * of >= 1 * of
                    <6>1. 0 - k \in Nat /\ 0 - k >= 1
                        BY <4>2
                    <6> QED
                        BY <6>1, Multiples
                <5>2. (0 - k) * of = 0 - (of * k)
                    OBVIOUS
                <5> QED
                    BY <5>1, <5>2
            <4> QED
                BY <4>1, <4>2
        <3> QED
            BY <1>4, <3>1, <3>2, <3>3
    <2>4. (100 * exact) * of = 100 * part
        BY <1>3, <1>4, <2>3
    <2>5. 100 * exact \in Nat /\ (100 * exact) * of >= (n * (100 - most)) * of
        BY <1>4, <1>7, <2>4
    <2> QED
        BY <1>6, <2>5, Multiples
<1> QED
    BY <1>4, <1>5, <1>8, <1>9 DEF part, exact

LEMMA GreaterOfTwo == \A k \in Nat : Max({1, k}) = IF k > 1 THEN k ELSE 1
<1> SUFFICES ASSUME NEW k \in Nat PROVE Max({1, k}) = IF k > 1 THEN k ELSE 1
    OBVIOUS
<1> DEFINE m == IF k > 1 THEN k ELSE 1
<1>1. \A y \in {1, k} : (y \in {1, k} /\ \A x \in {1, k} : y >= x) => y = m
    OBVIOUS
<1>2. m \in {1, k} /\ \A x \in {1, k} : m >= x
    OBVIOUS
<1> HIDE DEF m
<1>3. Max({1, k}) = m
    BY <1>1, <1>2 DEF Max
<1> QED
    BY <1>3 DEF m

LEMMA KeepFacts ==
    ASSUME NEW n \in Nat \ {0}, sums.waiting \in Nat, sums.frames \in Nat, sums.bytes \in Nat, NEW kept \in Keep(n)
    PROVE  /\ kept \in 1 .. n /\ 100 * (kept + 1) >= n * (100 - MaxShedPct)
           /\ \/ WaitingSoft > 0 /\ sums.waiting > WaitingSoft
              \/ FramesSoft > 0 /\ sums.frames > FramesSoft
              \/ BytesSoft > 0 /\ sums.bytes > BytesSoft
              \/ kept = n
<1> DEFINE over(p, limit) == IF limit > 0 /\ p > limit THEN [of |-> limit, up |-> p - limit] ELSE [of |-> 1, up |-> 0]
<1> DEFINE a == over(sums.waiting, WaitingSoft)
<1> DEFINE b == over(sums.frames, FramesSoft)
<1> DEFINE c == over(sums.bytes, BytesSoft)
<1> DEFINE shares == {a, b, c}
<1> DEFINE capped == {IF 100 * s.up > MaxShedPct * s.of THEN [of |-> 100, up |-> MaxShedPct] ELSE s : s \in shares}
<1> DEFINE worst == CHOOSE s \in capped : \A t \in capped : s.up * t.of >= t.up * s.of
<1> DEFINE exact == (n * (worst.of - worst.up)) \div worst.of
<1> DEFINE below == IF (n * worst.up) % worst.of = 0 THEN {exact, exact - 1} ELSE {exact}
<1>1. kept \in IF worst.up = 0 \/ n <= 1 THEN {n} ELSE {Max({1, k}) : k \in below}
    BY DEF Keep
<1>2. WaitingSoft \in Nat /\ FramesSoft \in Nat /\ BytesSoft \in Nat /\ MaxShedPct \in 0 .. 99
    BY LoadAssumption
<1>3. \A p, limit \in Nat : over(p, limit) \in Ratio /\ (over(p, limit).up = 0 \/ (limit > 0 /\ p > limit))
    BY DEF Ratio
<1>4. /\ a \in Ratio /\ b \in Ratio /\ c \in Ratio
      /\ a.up = 0 \/ (WaitingSoft > 0 /\ sums.waiting > WaitingSoft)
      /\ b.up = 0 \/ (FramesSoft > 0 /\ sums.frames > FramesSoft)
      /\ c.up = 0 \/ (BytesSoft > 0 /\ sums.bytes > BytesSoft)
    BY <1>2, <1>3
<1> HIDE DEF a, b, c
<1> DEFINE cap(s) == IF 100 * s.up > MaxShedPct * s.of THEN [of |-> 100, up |-> MaxShedPct] ELSE s
<1>5. \A s \in Ratio : /\ cap(s) \in Ratio /\ 100 * cap(s).up <= MaxShedPct * cap(s).of
                       /\ s.up = 0 => cap(s).up = 0
    <2> SUFFICES ASSUME NEW s \in Ratio
                 PROVE  /\ cap(s) \in Ratio /\ 100 * cap(s).up <= MaxShedPct * cap(s).of
                        /\ s.up = 0 => cap(s).up = 0
        OBVIOUS
    <2>1. s.up \in Nat /\ s.of \in Nat \ {0} /\ MaxShedPct * s.of \in Nat
        BY <1>2 DEF Ratio
    <2>2. CASE 100 * s.up > MaxShedPct * s.of
        <3>1. cap(s) = [of |-> 100, up |-> MaxShedPct] /\ s.up # 0
            BY <2>1, <2>2
        <3> QED
            BY <1>2, <3>1 DEF Ratio
    <2>3. CASE ~(100 * s.up > MaxShedPct * s.of)
        <3>1. cap(s) = s
            BY <2>3
        <3> QED
            BY <2>1, <2>3, <3>1
    <2> QED
        BY <2>2, <2>3
<1>6. capped = {cap(a), cap(b), cap(c)}
    OBVIOUS
<1> HIDE DEF cap
<1>7. worst \in capped
    <2>1. \E s \in {cap(a), cap(b), cap(c)} : \A t \in {cap(a), cap(b), cap(c)} : AtLeast(s, t)
        BY <1>4, <1>5, WorstRatio
    <2>2. \E s \in capped : \A t \in capped : s.up * t.of >= t.up * s.of
        BY <1>6, <2>1 DEF AtLeast
    <2> HIDE DEF capped
    <2> QED
        BY <2>2
<1>8. /\ worst \in Ratio /\ 100 * worst.up <= MaxShedPct * worst.of
      /\ a.up = 0 /\ b.up = 0 /\ c.up = 0 => worst.up = 0
    <2>1. PICK s \in {a, b, c} : worst = cap(s)
        BY <1>6, <1>7
    <2> HIDE DEF worst
    <2>2. s \in Ratio /\ (a.up = 0 /\ b.up = 0 /\ c.up = 0 => s.up = 0)
        BY <1>4, <2>1
    <2> QED
        BY <1>5, <2>1, <2>2
<1> HIDE DEF worst
<1>9. ASSUME worst.up = 0 \/ n <= 1
      PROVE  kept = n /\ kept \in 1 .. n /\ 100 * (kept + 1) >= n * (100 - MaxShedPct)
    <2>1. kept = n
        BY <1>1, <1>9
    <2>2. n * MaxShedPct \in Nat /\ n * (100 - MaxShedPct) = 100 * n - n * MaxShedPct
        BY <1>2
    <2> QED
        BY <2>1, <2>2
<1>10. ASSUME worst.up # 0, n > 1
       PROVE  kept \in 1 .. n /\ 100 * (kept + 1) >= n * (100 - MaxShedPct)
    <2>1. kept \in {Max({1, k}) : k \in below}
        BY <1>1, <1>10
    <2>2. PICK k \in below : kept = Max({1, k})
        BY <2>1
    <2>3. /\ exact \in 0 .. n - 1 /\ 100 * (exact + 1) >= n * (100 - MaxShedPct)
          /\ (n * worst.up) % worst.of = 0 => 100 * exact >= n * (100 - MaxShedPct)
        <3>1. worst.of \in Nat \ {0} /\ worst.up \in Nat \ {0}
            BY <1>8, <1>10 DEF Ratio
        <3> QED
            BY <1>2, <1>8, <3>1, ShareFacts
    <2>4. k \in Int /\ k <= n - 1 /\ 100 * (k + 1) >= n * (100 - MaxShedPct) /\ (k \in Nat \/ k = -1)
        <3> HIDE DEF exact
        <3>1. k = exact \/ (k = exact - 1 /\ (n * worst.up) % worst.of = 0)
            BY <2>2
        <3>2. CASE k = exact
            BY <2>3, <3>2
        <3>3. CASE k = exact - 1 /\ (n * worst.up) % worst.of = 0
            BY <2>3, <3>3
        <3> QED
            BY <3>1, <3>2, <3>3
    <2>5. kept = IF k > 1 THEN k ELSE 1
        <3>1. CASE k \in Nat
            BY <2>2, <3>1, GreaterOfTwo
        <3>2. CASE k = -1
            <4>1. Max({1, k}) = 1
                BY <3>2 DEF Max
            <4> QED
                BY <2>2, <3>2, <4>1
        <3> QED
            BY <2>4, <3>1, <3>2
    <2>6. n * (100 - MaxShedPct) \in Nat
        BY <1>2
    <2> QED
        BY <1>10, <2>4, <2>5, <2>6
<1> QED
    BY <1>4, <1>8, <1>9, <1>10

\* The ingest sheds no more than it may, never all of a request, and nothing
\* while no queue is over a soft limit, for any limits and greatest share.
THEOREM ShedTheorem == LoadSpec => []ShedJustified
<1>1. LoadInv => ShedJustified
    <2> SUFFICES ASSUME LoadInv, NEW n \in 1 .. MaxBatch, NEW kept \in Keep(n)
                 PROVE  /\ kept \in 1 .. n /\ 100 * (kept + 1) >= n * (100 - MaxShedPct)
                        /\ \/ WaitingSoft > 0 /\ Ones(waitingDrain) + Ones(left.waiting) > WaitingSoft
                           \/ FramesSoft > 0 /\ Len(queue) + left.frames > FramesSoft
                           \/ BytesSoft > 0 /\ Bytes(queue) + left.bytes > BytesSoft
                           \/ kept = n
        BY DEF ShedJustified
    <2>1. /\ left \in Entries /\ sums = Total(Own, left) /\ PumpInv
          /\ link = "none" => queue = <<>> /\ ~waitingDrain
        BY DEF LoadInv, Connections, RegistryExact, PumpInv
    <2>2. queue \in Seq(Frame) /\ Bytes(queue) \in Nat /\ Len(queue) \in Nat /\ waitingDrain \in BOOLEAN
        BY <2>1, BytesType DEF PumpInv, IInv, TypeOK
    <2>3. /\ Own.waiting = waitingDrain /\ Own.frames = Len(queue) /\ Own.bytes = Bytes(queue)
        <3>1. CASE link = "none"
            <4>1. Own = NoEntry /\ queue = <<>> /\ waitingDrain = FALSE
                BY <2>1, <2>2, <3>1 DEF Own
            <4>2. Bytes(<<>>) = 0 /\ Len(<<>>) = 0
                BY BytesType
            <4> QED
                BY <4>1, <4>2 DEF NoEntry
        <3>2. CASE link # "none"
            <4>1. Own = Entry(State(queue, Bytes(queue), waitingDrain))
                BY <3>2 DEF Own
            <4> QED
                BY <4>1 DEF Entry, State
        <3> QED
            BY <3>1, <3>2
    <2>4. /\ sums.waiting = Ones(waitingDrain) + Ones(left.waiting) /\ sums.frames = Len(queue) + left.frames
          /\ sums.bytes = Bytes(queue) + left.bytes
        BY <2>1, <2>3 DEF Total
    <2>5. sums.waiting \in Nat /\ sums.frames \in Nat /\ sums.bytes \in Nat
        BY <2>1, <2>2, <2>4 DEF Entries, Ones
    <2>6. n \in Nat \ {0}
        BY LoadAssumption
    <2> QED
        BY <2>4, <2>5, <2>6, KeepFacts
<1> QED
    BY <1>1, LoadInvariant, PTL
=============================================================================
