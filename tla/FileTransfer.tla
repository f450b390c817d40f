---------------------------- MODULE FileTransfer ----------------------------
(***************************************************************************)
(* Files over the WebSocket. The server's requestFile only fills the slot  *)
(* s_uploadReq; loop() empties it after _webSocket->loop() has returned,   *)
(* asks the sketch for the file and sends it or an error. A file from the  *)
(* server arrives in a frame of FileWire and goes to the sketch at once.   *)
(*                                                                         *)
(* Everything here runs on the loop task. pc is its place in loop(): in    *)
(* the WebSockets library ("pump"), at the slot ("send"), in the sketch's  *)
(* callback ("callback"), or in the other calls and the sketch ("rest").   *)
(* The library is external: one call of its loop() connects, or reads and  *)
(* may raise several messages, or notices the end of the connection.       *)
(*                                                                         *)
(* Requests are numbered; the number is their requestId. A connection has  *)
(* a number too, so that an answer can be told from one that goes to       *)
(* a later one.                                                            *)
(***************************************************************************)
EXTENDS Naturals, Sequences, FileWire

CONSTANTS
    Users,          \* who may ask for a file
    NoUser,         \* an older server, which does not say
    Sizes,          \* sizes of the files the sketch fills in, 0 for none
    Inbound,        \* frames the server may send
    MaxRequests,    \* bound: requests
    MaxConns        \* bound: connections

ASSUME NoUserAssumption == NoUser \notin Users
ASSUME SizesAssumption == Sizes \subseteq Nat
ASSUME InboundAssumption == Inbound \subseteq Frames
ASSUME BoundsAssumption == MaxRequests \in Nat /\ MaxConns \in Nat

VARIABLES
    pc,
    conn,           \* the connection that is up, or 0
    conns,          \* connections so far
    requests,       \* what the server asked: [conn, user], by request
    slot,           \* s_uploadReq: [pending, id, user]
    hdr,            \* the header of the file being sent: [id, user]
    answers,        \* what was sent: [id, conn, what]
    headers,        \* what the sketch was given for a request: [id, user]
    reach           \* of the last frame received: [length, upTo]

vars == <<pc, conn, conns, requests, slot, hdr, answers, headers, reach>>

MaybeUser == Users \cup {NoUser}
Ids == 0..MaxRequests
Answers == [id : Ids, conn : 1..MaxConns, what : {"file", "notFound", "tooLarge", "uploadFailed", "busy"}]

EmptySlot == [pending |-> FALSE, id |-> 0, user |-> NoUser]
NoHeader == [id |-> 0, user |-> NoUser]

----------------------------------------------------------------------------
Init ==
    /\ pc = "pump"
    /\ conn = 0
    /\ conns = 0
    /\ requests = <<>>
    /\ slot = EmptySlot
    /\ hdr = NoHeader
    /\ answers = <<>>
    /\ headers = {}
    /\ reach = [length |-> 0, upTo |-> 0]

Goto(from, to) == pc = from /\ pc' = to

\* _sendFileError() and sendBIN(): nothing is sent without a connection.
Answered_Anyway(id, what) == Append(answers, [id |-> id, conn |-> conn, what |-> what])
Answered_FilesOnly(id, what) ==
    IF conn = 0 \/ what # "file" THEN answers
    ELSE Append(answers, [id |-> id, conn |-> conn, what |-> what])
Answered(id, what) ==
    IF conn = 0 THEN answers ELSE Append(answers, [id |-> id, conn |-> conn, what |-> what])

(***************************************************************************)
(* _webSocket->loop()                                                      *)
(***************************************************************************)
Connect ==
    /\ Goto("pump", "send")
    /\ conn = 0
    /\ conns < MaxConns
    /\ conn' = conns + 1
    /\ conns' = conns + 1
    /\ UNCHANGED <<requests, slot, hdr, answers, headers, reach>>

Close ==
    /\ Goto("pump", "send")
    /\ conn # 0
    /\ conn' = 0
    /\ UNCHANGED <<conns, requests, slot, hdr, answers, headers, reach>>

PumpDone ==
    /\ Goto("pump", "send")
    /\ UNCHANGED <<conn, conns, requests, slot, hdr, answers, headers, reach>>

\* The slot is filled with who asked, or with nobody.
Filled(id, user) == [pending |-> TRUE, id |-> id, user |-> user]

\* A request that finds one waiting leaves it alone.
SlotWhenBusy_FilledFirst(user) == [slot EXCEPT !.user = user]
SlotWhenBusy(user) == slot

RequestFile(user) ==
    /\ pc = "pump"
    /\ conn # 0
    /\ Len(requests) < MaxRequests
    /\ requests' = Append(requests, [conn |-> conn, user |-> user])
    /\ LET id == Len(requests) + 1 IN
        \/ /\ slot.pending
           /\ answers' = Answered(id, "busy")
           /\ slot' = SlotWhenBusy(user)
        \/ /\ ~slot.pending
           /\ slot' = Filled(id, user)
           /\ UNCHANGED answers
    /\ UNCHANGED <<pc, conn, conns, hdr, headers, reach>>

\* WStype_BIN: parsed whether or not the sketch has a callback for it.
ReceiveFile(frame) ==
    /\ pc = "pump"
    /\ conn # 0
    /\ reach' = [length |-> frame.length, upTo |-> ReadsUpTo(frame)]
    /\ UNCHANGED <<pc, conn, conns, requests, slot, hdr, answers, headers>>

(***************************************************************************)
(* loop(): the slot, and _sendFile()                                       *)
(***************************************************************************)
Passes_WithoutConnection == ~slot.pending \/ conn = 0
Passes == ~slot.pending

NothingToSend ==
    /\ Goto("send", "rest")
    /\ Passes
    /\ UNCHANGED <<conn, conns, requests, slot, hdr, answers, headers, reach>>

SlotAfterTake_Kept == slot
SlotAfterTake == EmptySlot

Take ==
    /\ Goto("send", "callback")
    /\ slot.pending
    /\ hdr' = [id |-> slot.id, user |-> slot.user]
    /\ headers' = headers \cup {hdr'}
    /\ slot' = SlotAfterTake
    /\ UNCHANGED <<conn, conns, requests, answers, reach>>

\* The sketch or another task closes the connection, also inside the callback.
SketchCloses ==
    /\ pc # "pump"
    /\ conn # 0
    /\ conn' = 0
    /\ UNCHANGED <<pc, conns, requests, slot, hdr, answers, headers, reach>>

\* The outcome, given the size of what the callback filled in, whether the
\* frame could be built and whether the library takes it.
Outcome(size, built, sent) ==
    IF size = 0 THEN "notFound"
    ELSE IF size > MAX_SIZE THEN "tooLarge"
    ELSE IF built /\ conn # 0 /\ sent THEN "file"
    ELSE "uploadFailed"

SendFile(size, built, sent) ==
    /\ Goto("callback", "rest")
    /\ answers' = Answered(hdr.id, Outcome(size, built, sent))
    /\ hdr' = NoHeader
    /\ UNCHANGED <<conn, conns, requests, slot, headers, reach>>

Callback == \E size \in Sizes, built, sent \in BOOLEAN : SendFile(size, built, sent)

\* The rest of the pass and the sketch; a new pass comes to the library next.
PassDone ==
    /\ Goto("rest", "pump")
    /\ UNCHANGED <<conn, conns, requests, slot, hdr, answers, headers, reach>>

\* s_uploadReq is RAM, and the connection ends with the program.
Restart ==
    /\ pc' = "pump"
    /\ conn' = 0
    /\ slot' = EmptySlot
    /\ hdr' = NoHeader
    /\ UNCHANGED <<conns, requests, answers, headers, reach>>

----------------------------------------------------------------------------
LoopStep ==
    \/ Connect
    \/ Close
    \/ PumpDone
    \/ \E user \in MaybeUser : RequestFile(user)
    \/ \E frame \in Inbound : ReceiveFile(frame)
    \/ NothingToSend
    \/ Take
    \/ SketchCloses
    \/ Callback

Next == LoopStep \/ PassDone \/ Restart

Spec == Init /\ [][Next]_vars

\* loop() is called again and again, and what it calls returns.
FairSpec ==
    /\ Spec
    /\ WF_vars(PumpDone) /\ WF_vars(NothingToSend \/ Take) /\ WF_vars(Callback) /\ WF_vars(PassDone)

----------------------------------------------------------------------------
\* Request id has got no answer, and its connection is up.
Open(id) ==
    /\ id \in 1..Len(requests)
    /\ conn = requests[id].conn
    /\ \A i \in 1..Len(answers) : answers[i].id # id

TypeOK ==
    /\ pc \in {"pump", "send", "callback", "rest"}
    /\ conns \in 0..MaxConns /\ conn \in 0..conns
    /\ requests \in Seq([conn : 1..MaxConns, user : MaybeUser])
    /\ Len(requests) <= MaxRequests
    /\ slot \in [pending : BOOLEAN, id : Ids, user : MaybeUser]
    /\ hdr \in [id : Ids, user : MaybeUser]
    /\ answers \in Seq(Answers)
    /\ headers \subseteq [id : Ids, user : MaybeUser]
    /\ reach \in [length : Nat, upTo : Nat]

\* No request is answered twice: not as busy and again with its file, and not
\* once more on a later pass (s_uploadReq.pending, SocketClient.cpp:438, 802).
AnsweredOnce ==
    \A i, j \in 1..Len(answers) : answers[i].id = answers[j].id => i = j

\* An answer goes out on the connection its request came in on, never on a
\* later one, although it is sent outside the handler of the request: nothing
\* between the two can connect (SocketClient.cpp:789-804).
OwnConnection ==
    \A i \in 1..Len(answers) :
        /\ answers[i].id \in 1..Len(requests)
        /\ answers[i].conn = requests[answers[i].id].conn

\* The sketch is told who asked for this file, not who asked for one before
\* or meanwhile (SocketClient.cpp:447-454, 800).
OwnHeader ==
    \A h \in headers : h.id \in 1..Len(requests) /\ h.user = requests[h.id].user

\* A request is never forgotten: as long as its connection lasts, it is
\* answered with the file, with what went wrong, or with busy
\* (SocketClient.cpp:438-442, 791-804, 870-895).
RequestAnswered ==
    \A id \in 1..MaxRequests : Open(id) ~> ~Open(id)

\* Whatever two bytes a frame begins with, parse() stays inside it.
InsideFrame == reach.upTo <= reach.length

----------------------------------------------------------------------------
(* What makes the invariants inductive: where a request that has no answer *)
(* yet can be, and that no connection but its own can be up meanwhile.     *)
Unanswered(id, user) ==
    /\ id \in 1..Len(requests)
    /\ requests[id].user = user
    /\ conn \in {0, requests[id].conn}
    /\ \A i \in 1..Len(answers) : answers[i].id # id

IndInv ==
    /\ TypeOK /\ AnsweredOnce /\ OwnConnection /\ OwnHeader /\ InsideFrame
    /\ slot.pending => pc \in {"pump", "send"} /\ Unanswered(slot.id, slot.user)
    /\ slot.pending /\ pc = "pump" => conn # 0
    /\ pc = "callback" => Unanswered(hdr.id, hdr.user)
=============================================================================
