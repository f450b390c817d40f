------------------------ MODULE FileTransfer_proofs ------------------------
(***************************************************************************)
(* Proofs about FileTransfer and FileWire, for every set of users, sizes   *)
(* and frames and every bound.                                             *)
(***************************************************************************)
EXTENDS FileTransfer, TLAPS

(***************************************************************************)
(* The frame                                                               *)
(***************************************************************************)
\* parse() accepts what build() makes of a header that fits two bytes and a
\* file of an allowed size, and finds the file where build() put it.
THEOREM RoundTrip ==
    ASSUME NEW h \in Nat, h <= MaxHeader, NEW s \in Nat, s <= MAX_SIZE
    PROVE  /\ Frame(h, s) \in Frames
           /\ Parses(Frame(h, s))
           /\ DataOffset(Frame(h, s)) = 2 + h
           /\ DataLength(Frame(h, s)) = s
<1> DEFINE q == h \div 256
           r == h % 256
<1>1. h \in Int /\ s \in Int /\ 0 <= h /\ h <= 65535 /\ 0 <= s /\ s <= 4096
  BY DEF MaxHeader, MAX_SIZE
<1>2. q \in Int /\ r \in 0..255
  BY <1>1
<1>3. (q * 256) + r = h
  BY <1>1
<1> HIDE DEF q, r
<1>4. q \in 0..255
  BY <1>1, <1>2, <1>3
<1>5. Frame(h, s) = [length |-> 2 + h + s, high |-> q, low |-> r, isFile |-> TRUE]
  BY DEF Frame, q, r
<1> DEFINE frame == [length |-> 2 + h + s, high |-> q, low |-> r, isFile |-> TRUE]
<1>6. /\ frame.length = 2 + h + s /\ frame.high = q /\ frame.low = r /\ frame.isFile
      /\ frame \in Frames
  BY <1>1, <1>2, <1>4 DEF Frames
<1> HIDE DEF frame
<1>7. HeaderLength(frame) = h
  BY <1>3, <1>6 DEF HeaderLength
<1>8. DataOffset(frame) = 2 + h /\ DataLength(frame) = s
  BY <1>1, <1>6, <1>7 DEF DataOffset, DataLength
<1>9. HeaderFits(frame)
  BY <1>1, <1>6, <1>7 DEF HeaderFits
<1>10. Parses(frame)
  BY <1>1, <1>6, <1>8, <1>9 DEF Parses, MAX_SIZE
<1> QED  BY <1>5, <1>6, <1>8, <1>10 DEF frame

\* Whatever a frame begins with, parse() reads and hands on nothing after its
\* end.
LEMMA ReadsInside ==
    ASSUME NEW frame \in Frames
    PROVE  ReadsUpTo(frame) \in Nat /\ ReadsUpTo(frame) <= frame.length
<1>1. /\ frame.length \in Nat /\ frame.high \in Nat /\ frame.low \in Nat
  BY DEF Frames
<1>2. HeaderLength(frame) \in Nat
  BY <1>1 DEF HeaderLength
<1>3. CASE ~HeaderFits(frame)
  BY <1>1, <1>3 DEF ReadsUpTo
<1>4. CASE HeaderFits(frame) /\ ~Parses(frame)
  BY <1>1, <1>2, <1>4 DEF ReadsUpTo, HeaderFits, DataOffset
<1>5. CASE Parses(frame)
  BY <1>1, <1>2, <1>5 DEF ReadsUpTo, Parses, HeaderFits, DataOffset, DataLength
<1> QED  BY <1>3, <1>4, <1>5 DEF Parses

(***************************************************************************)
(* Answers                                                                 *)
(***************************************************************************)
\* An answer to a request that has none, sent on its own connection or not
\* sent, keeps the answers right.
LEMMA AnswerKeeps ==
    ASSUME IndInv, NEW id \in Ids,
           NEW what \in {"file", "notFound", "tooLarge", "uploadFailed", "busy"},
           requests' = requests \/ \E r \in [conn : 1..MaxConns, user : MaybeUser] :
                                     requests' = Append(requests, r),
           id \in 1..Len(requests'), conn \in {0, requests'[id].conn},
           \A i \in 1..Len(answers) : answers[i].id # id,
           answers' = Answered(id, what)
    PROVE  /\ answers' \in Seq(Answers)
           /\ AnsweredOnce'
           /\ OwnConnection'
           /\ \A other : (\A i \in 1..Len(answers) : answers[i].id # other) /\ other # id
                            => \A i \in 1..Len(answers') : answers'[i].id # other
<1>1. /\ requests \in Seq([conn : 1..MaxConns, user : MaybeUser]) /\ answers \in Seq(Answers)
      /\ AnsweredOnce /\ OwnConnection /\ conn \in 0..conns /\ conns \in 0..MaxConns
  BY DEF IndInv, TypeOK
<1>2. /\ Len(requests) \in Nat
      /\ \A n \in 1..Len(requests) : n \in 1..Len(requests') /\ requests'[n] = requests[n]
  <2>1. CASE requests' = requests
    BY <1>1, <2>1
  <2>2. ASSUME NEW r \in [conn : 1..MaxConns, user : MaybeUser], requests' = Append(requests, r)
        PROVE  /\ Len(requests) \in Nat
               /\ \A n \in 1..Len(requests) : n \in 1..Len(requests') /\ requests'[n] = requests[n]
    BY <1>1, <2>2
  <2> QED  BY <2>1, <2>2
<1>3. CASE conn = 0
  <2>1. answers' = answers
    BY <1>3 DEF Answered
  <2>2. OwnConnection'
    BY <1>1, <1>2, <2>1 DEF OwnConnection
  <2> QED  BY <1>1, <2>1, <2>2 DEF AnsweredOnce
<1>4. CASE conn # 0
  <2> DEFINE a == [id |-> id, conn |-> conn, what |-> what]
  <2>1. answers' = Append(answers, a)
    BY <1>4 DEF Answered
  <2>2. conn \in 1..MaxConns /\ conn = requests'[id].conn
    BY <1>1, <1>4, BoundsAssumption
  <2>3. a \in Answers /\ a.id = id /\ a.conn = conn
    BY <2>2 DEF Answers
  <2> HIDE DEF a
  <2>4. /\ answers' \in Seq(Answers) /\ Len(answers) \in Nat
        /\ Len(answers') = Len(answers) + 1 /\ answers'[Len(answers) + 1] = a
        /\ \A i \in 1..Len(answers) : answers'[i] = answers[i]
    BY <1>1, <2>1, <2>3
  <2>5. ASSUME NEW i \in 1..Len(answers')
        PROVE  \/ i = Len(answers) + 1 /\ answers'[i] = a
               \/ i \in 1..Len(answers) /\ answers'[i] = answers[i]
    BY <2>4
  <2>6. AnsweredOnce'
    <3> SUFFICES ASSUME NEW i \in 1..Len(answers'), NEW j \in 1..Len(answers'),
                        answers'[i].id = answers'[j].id
                 PROVE  i = j
      BY DEF AnsweredOnce
    <3>1. CASE i \in 1..Len(answers) /\ j \in 1..Len(answers)
      <4>1. answers'[i] = answers[i] /\ answers'[j] = answers[j]
        BY <2>4, <3>1
      <4> QED  BY <1>1, <3>1, <4>1 DEF AnsweredOnce
    <3>2. CASE i = Len(answers) + 1 /\ j = Len(answers) + 1
      BY <3>2
    <3>3. CASE i = Len(answers) + 1 /\ j \in 1..Len(answers)
      <4>1. answers'[i].id = id /\ answers'[j] = answers[j]
        BY <2>3, <2>4, <3>3
      <4> QED  BY <3>3, <4>1
    <3>4. CASE j = Len(answers) + 1 /\ i \in 1..Len(answers)
      <4>1. answers'[j].id = id /\ answers'[i] = answers[i]
        BY <2>3, <2>4, <3>4
      <4> QED  BY <3>4, <4>1
    <3> QED  BY <2>5, <3>1, <3>2, <3>3, <3>4
  <2>7. OwnConnection'
    <3> SUFFICES ASSUME NEW i \in 1..Len(answers')
                 PROVE  /\ answers'[i].id \in 1..Len(requests')
                        /\ answers'[i].conn = requests'[answers'[i].id].conn
      BY DEF OwnConnection
    <3>1. CASE i = Len(answers) + 1
      BY <2>2, <2>3, <2>4, <3>1
    <3>2. CASE i \in 1..Len(answers)
      <4>1. answers'[i] = answers[i]
        BY <2>4, <3>2
      <4>2. answers[i].id \in 1..Len(requests) /\ answers[i].conn = requests[answers[i].id].conn
        BY <1>1, <3>2 DEF OwnConnection
      <4> QED  BY <1>2, <4>1, <4>2
    <3> QED  BY <2>5, <3>1, <3>2
  <2>8. ASSUME NEW other, \A i \in 1..Len(answers) : answers[i].id # other, other # id,
               NEW i \in 1..Len(answers')
        PROVE  answers'[i].id # other
    BY <2>3, <2>5, <2>8
  <2> QED  BY <2>4, <2>6, <2>7, <2>8
<1> QED  BY <1>3, <1>4

\* A request with no answer stays one when neither requests nor answers change
\* and the connection stays or ends.
LEMMA StaysUnanswered ==
    ASSUME NEW id, NEW user, Unanswered(id, user), conn' \in {0, conn},
           UNCHANGED <<requests, answers>>
    PROVE  Unanswered(id, user)'
BY DEF Unanswered

(***************************************************************************)
(* The invariant                                                           *)
(***************************************************************************)
\* The initial state satisfies the invariant.
LEMMA InitInv == Init => IndInv
BY BoundsAssumption
   DEF Init, IndInv, TypeOK, EmptySlot, NoHeader, AnsweredOnce, OwnConnection, OwnHeader,
       InsideFrame, Ids, MaybeUser, Answers

\* Every step of the loop task preserves the invariant.
LEMMA StepInv == IndInv /\ [Next]_vars => IndInv'
<1> SUFFICES ASSUME IndInv, [Next]_vars PROVE IndInv'
  OBVIOUS
<1> USE DEF IndInv, TypeOK
<1>1. CASE Connect
  <2>1. /\ pc = "pump" /\ pc' = "send" /\ conn = 0 /\ conns < MaxConns
        /\ conn' = conns + 1 /\ conns' = conns + 1
        /\ UNCHANGED <<requests, slot, hdr, answers, headers, reach>>
    BY <1>1 DEF Connect, Goto
  <2>2. ~slot.pending
    BY <2>1
  <2>3. TypeOK'
    BY <2>1, BoundsAssumption
  <2> QED  BY <2>1, <2>2, <2>3 DEF AnsweredOnce, OwnConnection, OwnHeader, InsideFrame
<1>2. CASE Close
  BY <1>2, BoundsAssumption
     DEF Close, Goto, Unanswered, AnsweredOnce, OwnConnection, OwnHeader, InsideFrame
<1>3. CASE PumpDone
  BY <1>3 DEF PumpDone, Goto, Unanswered, AnsweredOnce, OwnConnection, OwnHeader, InsideFrame
<1>4. ASSUME NEW user \in MaybeUser, RequestFile(user) PROVE IndInv'
  <2> DEFINE id == Len(requests) + 1
             r == [conn |-> conn, user |-> user]
  <2>1. /\ pc = "pump" /\ conn # 0 /\ Len(requests) < MaxRequests
        /\ requests' = Append(requests, r)
        /\ UNCHANGED <<pc, conn, conns, hdr, headers, reach>>
    BY <1>4 DEF RequestFile
  <2>2. r \in [conn : 1..MaxConns, user : MaybeUser]
    BY <2>1, BoundsAssumption
  <2>3. /\ requests' \in Seq([conn : 1..MaxConns, user : MaybeUser])
        /\ Len(requests') = id /\ Len(requests) \in Nat /\ id \in Ids /\ id \in 1..Len(requests')
        /\ requests'[id] = r /\ r.conn = conn /\ r.user = user
        /\ \A n \in 1..Len(requests) : n \in 1..Len(requests') /\ requests'[n] = requests[n]
    BY <2>1, <2>2, BoundsAssumption DEF Ids
  <2> HIDE DEF r
  <2>4. \A i \in 1..Len(answers) : answers[i].id # id
    <3>1. \A i \in 1..Len(answers) : answers[i].id \in 1..Len(requests)
      BY DEF OwnConnection
    <3>2. id \notin 1..Len(requests)
      BY <2>3
    <3> QED  BY <3>1, <3>2
  <2>5. OwnHeader' /\ InsideFrame' /\ Len(requests') <= MaxRequests
    BY <2>1, <2>3, BoundsAssumption DEF OwnHeader, InsideFrame
  <2>6. CASE slot.pending
    <3>1. answers' = Answered(id, "busy") /\ slot' = slot
      BY <1>4, <2>6 DEF RequestFile, SlotWhenBusy
    <3>2. conn \in {0, requests'[id].conn}
      BY <2>3
    <3>3. \E q \in [conn : 1..MaxConns, user : MaybeUser] : requests' = Append(requests, q)
      BY <2>1, <2>2
    <3>4. /\ answers' \in Seq(Answers) /\ AnsweredOnce' /\ OwnConnection'
          /\ \A other : (\A i \in 1..Len(answers) : answers[i].id # other) /\ other # id
                            => \A i \in 1..Len(answers') : answers'[i].id # other
      BY <2>3, <2>4, <3>1, <3>2, <3>3, AnswerKeeps
    <3>5. /\ slot.id \in 1..Len(requests) /\ requests[slot.id].user = slot.user
          /\ conn \in {0, requests[slot.id].conn}
          /\ \A i \in 1..Len(answers) : answers[i].id # slot.id
      BY <2>6 DEF Unanswered
    <3>6. slot.id # id /\ slot.id \in 1..Len(requests') /\ requests'[slot.id] = requests[slot.id]
      BY <2>3, <3>5
    <3>7. Unanswered(slot.id, slot.user)'
      BY <2>1, <3>1, <3>4, <3>5, <3>6 DEF Unanswered
    <3>8. TypeOK'
      BY <2>1, <2>3, <2>5, <3>1, <3>4
    <3> QED
      BY <2>1, <2>5, <3>1, <3>4, <3>7, <3>8
  <2>7. CASE ~slot.pending
    <3>1. slot' = Filled(id, user) /\ answers' = answers
      BY <1>4, <2>7 DEF RequestFile
    <3>2. AnsweredOnce' /\ OwnConnection'
      BY <2>3, <3>1 DEF AnsweredOnce, OwnConnection
    <3>3. slot' \in [pending : BOOLEAN, id : Ids, user : MaybeUser]
          /\ slot'.id = id /\ slot'.user = user
      BY <2>3, <3>1 DEF Filled
    <3>4. Unanswered(slot.id, slot.user)'
      BY <2>1, <2>3, <2>4, <3>1, <3>3 DEF Unanswered
    <3>5. TypeOK'
      BY <2>1, <2>3, <2>5, <3>1, <3>3
    <3> QED
      BY <2>1, <2>5, <3>2, <3>4, <3>5
  <2> QED  BY <2>6, <2>7
<1>5. ASSUME NEW frame \in Inbound, ReceiveFile(frame) PROVE IndInv'
  <2>1. frame \in Frames
    BY InboundAssumption
  <2>2. /\ reach' = [length |-> frame.length, upTo |-> ReadsUpTo(frame)]
        /\ UNCHANGED <<pc, conn, conns, requests, slot, hdr, answers, headers>>
    BY <1>5 DEF ReceiveFile
  <2>3. reach' \in [length : Nat, upTo : Nat] /\ InsideFrame'
    BY <2>1, <2>2, ReadsInside DEF InsideFrame, Frames
  <2> QED
    BY <2>2, <2>3 DEF Unanswered, AnsweredOnce, OwnConnection, OwnHeader
<1>6. CASE NothingToSend
  BY <1>6 DEF NothingToSend, Passes, Goto, Unanswered, AnsweredOnce, OwnConnection, OwnHeader,
              InsideFrame
<1>7. CASE Take
  <2>1. /\ pc = "send" /\ pc' = "callback" /\ slot.pending /\ slot' = EmptySlot
        /\ hdr' = [id |-> slot.id, user |-> slot.user] /\ headers' = headers \cup {hdr'}
        /\ UNCHANGED <<conn, conns, requests, answers, reach>>
    BY <1>7 DEF Take, Goto, SlotAfterTake
  <2>2. hdr'.id = slot.id /\ hdr'.user = slot.user /\ hdr' \in [id : Ids, user : MaybeUser]
    BY <2>1
  <2>3. Unanswered(slot.id, slot.user)
    BY <2>1
  <2>4. Unanswered(hdr.id, hdr.user)'
    BY <2>1, <2>2, <2>3 DEF Unanswered
  <2>5. OwnHeader'
    BY <2>1, <2>2, <2>3 DEF OwnHeader, Unanswered
  <2>6. slot' \in [pending : BOOLEAN, id : Ids, user : MaybeUser] /\ ~slot'.pending
    BY <2>1, BoundsAssumption DEF EmptySlot, Ids, MaybeUser
  <2> QED
    BY <2>1, <2>2, <2>4, <2>5, <2>6 DEF AnsweredOnce, OwnConnection, InsideFrame
<1>8. CASE SketchCloses
  BY <1>8, BoundsAssumption
     DEF SketchCloses, Unanswered, AnsweredOnce, OwnConnection, OwnHeader, InsideFrame
<1>9. CASE Callback
  <2>1. PICK size \in Sizes, built \in BOOLEAN, sent \in BOOLEAN : SendFile(size, built, sent)
    BY <1>9 DEF Callback
  <2>2. /\ pc = "callback" /\ pc' = "rest" /\ hdr' = NoHeader
        /\ answers' = Answered(hdr.id, Outcome(size, built, sent))
        /\ UNCHANGED <<conn, conns, requests, slot, headers, reach>>
    BY <2>1 DEF SendFile, Goto
  <2>3. Outcome(size, built, sent) \in {"file", "notFound", "tooLarge", "uploadFailed", "busy"}
    BY DEF Outcome
  <2>4. Unanswered(hdr.id, hdr.user) /\ hdr.id \in Ids
    BY <2>2
  <2>5. answers' \in Seq(Answers) /\ AnsweredOnce' /\ OwnConnection'
    BY <2>2, <2>3, <2>4, AnswerKeeps DEF Unanswered
  <2>6. hdr' \in [id : Ids, user : MaybeUser]
    BY <2>2, BoundsAssumption DEF NoHeader, Ids, MaybeUser
  <2>7. ~slot'.pending
    BY <2>2
  <2> QED
    BY <2>2, <2>5, <2>6, <2>7 DEF OwnHeader, InsideFrame
<1>10. CASE PassDone
  BY <1>10 DEF PassDone, Goto, Unanswered, AnsweredOnce, OwnConnection, OwnHeader, InsideFrame
<1>11. CASE Restart
  BY <1>11, BoundsAssumption
     DEF Restart, EmptySlot, NoHeader, Ids, MaybeUser, Unanswered, AnsweredOnce, OwnConnection,
         OwnHeader, InsideFrame
<1>12. CASE UNCHANGED vars
  BY <1>12 DEF vars, Unanswered, AnsweredOnce, OwnConnection, OwnHeader, InsideFrame
<1> QED
  BY <1>1, <1>2, <1>3, <1>4, <1>5, <1>6, <1>7, <1>8, <1>9, <1>10, <1>11, <1>12
     DEF Next, LoopStep

\* The invariant holds in every reachable state.
THEOREM Invariance == Spec => []IndInv
<1> QED  BY InitInv, StepInv, PTL DEF Spec

\* The program's variables keep their types.
THEOREM TypeCorrect == Spec => []TypeOK
<1>1. IndInv => TypeOK
  BY DEF IndInv
<1> QED  BY <1>1, Invariance, PTL

\* No request is answered twice.
THEOREM AnsweredOnceHolds == Spec => []AnsweredOnce
<1>1. IndInv => AnsweredOnce
  BY DEF IndInv
<1> QED  BY <1>1, Invariance, PTL

\* Every answer goes out on the connection of its request.
THEOREM OwnConnectionHolds == Spec => []OwnConnection
<1>1. IndInv => OwnConnection
  BY DEF IndInv
<1> QED  BY <1>1, Invariance, PTL

\* The sketch is given the user who asked for the file.
THEOREM OwnHeaderHolds == Spec => []OwnHeader
<1>1. IndInv => OwnHeader
  BY DEF IndInv
<1> QED  BY <1>1, Invariance, PTL

\* parse() stays inside every frame the device receives.
THEOREM InsideFrameHolds == Spec => []InsideFrame
<1>1. IndInv => InsideFrame
  BY DEF IndInv
<1> QED  BY <1>1, Invariance, PTL

(***************************************************************************)
(* Every request is answered in the pass it arrives in: what               *)
(* RequestAnswered rests on, but for the fairness of the passes.           *)
(***************************************************************************)
\* Connections have numbers, and requests come on those there have been.
Numbered == \A id \in 1..Len(requests) : requests[id].conn \in 1..conns

\* A request that waits for its answer is in the slot or in the sketch's callback: none is
\* overwritten, dropped at a full slot or left over by a pass.
Accounted ==
    \A id \in 1..Len(requests) :
        Open(id) => \/ slot.pending /\ slot.id = id
                    \/ pc = "callback" /\ hdr.id = id

\* When a pass has been at the slot, no request of the connection that is up waits.
AnsweredInPass == pc = "rest" => \A id \in 1..Len(requests) : ~Open(id)

\* Requests and answers only grow.
LEMMA HistoryGrows ==
    ASSUME IndInv, Next
    PROVE  /\ Len(requests') >= Len(requests)
           /\ \A id \in 1..Len(requests) : id \in 1..Len(requests') /\ requests'[id] = requests[id]
           /\ \A id : (\A i \in 1..Len(answers') : answers'[i].id # id)
                         => \A i \in 1..Len(answers) : answers[i].id # id
<1>1. requests \in Seq([conn : 1..MaxConns, user : MaybeUser]) /\ answers \in Seq(Answers)
  BY DEF IndInv, TypeOK
<1>2. requests' = requests \/ \E r \in [conn : Nat, user : MaybeUser] : requests' = Append(requests, r)
  <2>1. ASSUME NEW user \in MaybeUser, RequestFile(user)
        PROVE  \E r \in [conn : Nat, user : MaybeUser] : requests' = Append(requests, r)
    <3>1. [conn |-> conn, user |-> user] \in [conn : Nat, user : MaybeUser]
      BY DEF IndInv, TypeOK
    <3> QED  BY <2>1, <3>1 DEF RequestFile
  <2>2. CASE \A user \in MaybeUser : ~RequestFile(user)
    BY <2>2 DEF Next, LoopStep, Connect, Close, PumpDone, ReceiveFile, NothingToSend, Take,
                SketchCloses, Callback, SendFile, PassDone, Restart
  <2> QED  BY <2>1, <2>2
<1>3. answers' = answers \/ \E a : answers' = Append(answers, a)
  <2>1. ASSUME NEW id, NEW what, answers' = Answered(id, what)
        PROVE  answers' = answers \/ \E a : answers' = Append(answers, a)
    BY <2>1 DEF Answered
  <2>2. CASE \E user \in MaybeUser : RequestFile(user)
    BY <2>1, <2>2 DEF RequestFile
  <2>3. CASE Callback
    BY <2>1, <2>3 DEF Callback, SendFile
  <2>4. CASE ~Callback /\ \A user \in MaybeUser : ~RequestFile(user)
    BY <2>4 DEF Next, LoopStep, Connect, Close, PumpDone, ReceiveFile, NothingToSend, Take,
                SketchCloses, PassDone, Restart
  <2> QED  BY <2>2, <2>3, <2>4
<1>4. ASSUME NEW seq, NEW S, seq \in Seq(S), NEW x
      PROVE  /\ Len(seq) \in Nat /\ Len(Append(seq, x)) = Len(seq) + 1
             /\ \A i \in 1..Len(seq) : Append(seq, x)[i] = seq[i]
  BY <1>4
<1>5. /\ Len(requests') >= Len(requests)
      /\ \A id \in 1..Len(requests) : id \in 1..Len(requests') /\ requests'[id] = requests[id]
  BY <1>1, <1>2, <1>4
<1>6. \A i \in 1..Len(answers) : i \in 1..Len(answers') /\ answers'[i] = answers[i]
  BY <1>1, <1>3, <1>4
<1> QED  BY <1>5, <1>6

\* A request that is open after a step and was there before was open before, unless the
\* connection has changed.
LEMMA OpenBefore ==
    ASSUME IndInv, Next, NEW id \in 1..Len(requests), Open(id)', conn' = conn
    PROVE  Open(id)
BY HistoryGrows DEF Open

\* Every step keeps the numbers of the connections right.
LEMMA StepNumbered == IndInv /\ Numbered /\ [Next]_vars => Numbered'
<1> SUFFICES ASSUME IndInv, Numbered, [Next]_vars PROVE Numbered'
  OBVIOUS
<1> USE DEF Numbered
<1>1. CASE Connect
  BY <1>1, BoundsAssumption DEF Connect, IndInv, TypeOK
<1>2. ASSUME NEW user \in MaybeUser, RequestFile(user) PROVE Numbered'
  <2> DEFINE r == [conn |-> conn, user |-> user]
  <2>1. requests' = Append(requests, r) /\ r.conn = conn /\ conn \in 1..conns /\ UNCHANGED conns
    BY <1>2, BoundsAssumption DEF RequestFile, IndInv, TypeOK
  <2>2. requests \in Seq([conn : 1..MaxConns, user : MaybeUser])
    BY DEF IndInv, TypeOK
  <2> HIDE DEF r
  <2> QED  BY <2>1, <2>2
<1>3. CASE (UNCHANGED <<requests, conns>>)
  BY <1>3
<1> QED
  BY <1>1, <1>2, <1>3
     DEF Next, LoopStep, Close, PumpDone, ReceiveFile, NothingToSend, Take, SketchCloses,
         Callback, SendFile, PassDone, Restart, vars

\* Every step leaves each open request in the slot or in the callback, or answers it.
LEMMA StepAccounted == IndInv /\ Numbered /\ Accounted /\ [Next]_vars => Accounted'
<1> SUFFICES ASSUME IndInv, Numbered, Accounted, [Next]_vars PROVE Accounted'
  OBVIOUS
<1>1. CASE Close \/ SketchCloses \/ Restart
  <2>1. conn' = 0 /\ UNCHANGED requests
    BY <1>1 DEF Close, SketchCloses, Restart
  <2>2. \A id \in 1..Len(requests) : requests[id].conn # 0
    BY DEF Numbered
  <2> QED  BY <2>1, <2>2 DEF Accounted, Open
<1>2. CASE Connect
  <2>1. conn' = conns + 1 /\ UNCHANGED requests /\ conns \in Nat
    BY <1>2, BoundsAssumption DEF Connect, IndInv, TypeOK
  <2>2. \A id \in 1..Len(requests) : requests[id].conn # conn'
    BY <2>1 DEF Numbered
  <2> QED  BY <2>1, <2>2 DEF Accounted, Open
<1>3. CASE PumpDone \/ PassDone \/ \E frame \in Inbound : ReceiveFile(frame)
  BY <1>3 DEF PumpDone, PassDone, ReceiveFile, Goto, Accounted, Open
<1>4. ASSUME NEW user \in MaybeUser, RequestFile(user) PROVE Accounted'
  <2>0. PICK new : new = Len(requests) + 1
    OBVIOUS
  <2> DEFINE r == [conn |-> conn, user |-> user]
  <2>1. pc = "pump" /\ conn # 0 /\ requests' = Append(requests, r) /\ UNCHANGED <<pc, conn, hdr>>
    BY <1>4 DEF RequestFile
  <2>2. r \in [conn : Nat, user : MaybeUser]
    BY <2>1 DEF IndInv, TypeOK
  <2> HIDE DEF r
  <2>3. Len(requests) \in Nat /\ 1..Len(requests') = 1..Len(requests) \cup {new}
    BY <2>0, <2>1, <2>2 DEF IndInv, TypeOK
  <2>4. ASSUME NEW id \in 1..Len(requests), Open(id)' PROVE slot.pending /\ slot.id = id
    <3>1. Open(id)
      BY <1>4, <2>1, <2>4, OpenBefore DEF Next, LoopStep
    <3> QED  BY <2>1, <3>1 DEF Accounted
  <2>5. CASE slot.pending
    <3>1. answers' = Answered(new, "busy") /\ slot' = slot
      BY <1>4, <2>0, <2>5 DEF RequestFile, SlotWhenBusy
    <3> DEFINE a == [id |-> new, conn |-> conn, what |-> "busy"]
    <3>2. answers' = Append(answers, a) /\ a.id = new
      BY <2>1, <3>1 DEF Answered
    <3> HIDE DEF a
    <3>3. answers \in Seq(Answers)
      BY DEF IndInv, TypeOK
    <3>4. Len(answers') \in 1..Len(answers') /\ answers'[Len(answers')].id = new
      BY <3>2, <3>3
    <3>5. ~Open(new)'
      BY <3>4 DEF Open
    <3> QED  BY <2>3, <2>4, <2>5, <3>1, <3>5 DEF Accounted
  <2>6. CASE ~slot.pending
    <3>1. slot'.pending /\ slot'.id = new
      BY <1>4, <2>0, <2>6 DEF RequestFile, Filled
    <3> QED  BY <2>3, <2>4, <2>6, <3>1 DEF Accounted
  <2> QED  BY <2>5, <2>6
<1>5. CASE NothingToSend
  BY <1>5 DEF NothingToSend, Passes, Goto, Accounted, Open
<1>6. CASE Take
  <2>1. pc = "send" /\ pc' = "callback" /\ hdr'.id = slot.id /\ UNCHANGED <<conn, requests, answers>>
    BY <1>6 DEF Take, Goto
  <2> QED  BY <2>1 DEF Accounted, Open
<1>7. CASE Callback
  <2>1. PICK what : answers' = Answered(hdr.id, what)
    BY <1>7 DEF Callback, SendFile
  <2>2. pc = "callback" /\ UNCHANGED <<conn, conns, requests, slot>>
    BY <1>7 DEF Callback, SendFile, Goto
  <2>3. ASSUME NEW id \in 1..Len(requests), Open(id)' PROVE FALSE
    <3>1. Open(id)
      BY <1>7, <2>2, <2>3, OpenBefore DEF Next, LoopStep
    <3>2. id = hdr.id
      BY <2>2, <3>1 DEF Accounted, IndInv
    <3> DEFINE a == [id |-> hdr.id, conn |-> conn, what |-> what]
    <3>3. conn # 0
      BY <3>1 DEF Open, Numbered
    <3>4. answers' = Append(answers, a) /\ a.id = hdr.id
      BY <2>1, <3>3 DEF Answered
    <3> HIDE DEF a
    <3>5. answers \in Seq(Answers)
      BY DEF IndInv, TypeOK
    <3>6. Len(answers') \in 1..Len(answers') /\ answers'[Len(answers')].id = hdr.id
      BY <3>4, <3>5
    <3> QED  BY <2>3, <3>2, <3>6 DEF Open
  <2> QED  BY <2>2, <2>3 DEF Accounted
<1>8. CASE UNCHANGED vars
  BY <1>8 DEF vars, Accounted, Open
<1> QED
  BY <1>1, <1>2, <1>3, <1>4, <1>5, <1>6, <1>7, <1>8 DEF Next, LoopStep

\* Every request that reaches the device is answered before the pass that received it goes
\* on to the sketch, unless its connection ended first.
THEOREM AnsweredInPassHolds == Spec => []AnsweredInPass
<1>1. Init => Numbered /\ Accounted
  BY DEF Init, Numbered, Accounted
<1>2. IndInv /\ Numbered /\ Accounted /\ [Next]_vars => Numbered' /\ Accounted'
  BY StepNumbered, StepAccounted
<1>3. IndInv /\ Accounted => AnsweredInPass
  BY DEF AnsweredInPass, Accounted, IndInv
<1> QED  BY <1>1, <1>2, <1>3, Invariance, PTL DEF Spec
=============================================================================
