------------------------------ MODULE FileWire ------------------------------
(***************************************************************************)
(* The binary message that carries a file over the WebSocket, in either    *)
(* direction: two bytes with the length of a JSON header, the header, the  *)
(* file. A frame is its length, its first two bytes, and whether the bytes *)
(* they call the header are the JSON of a "file" message with a filename.  *)
(***************************************************************************)
EXTENDS Integers

MAX_SIZE == 4096
MaxHeader == 65535

Frames == [length : Nat, high : 0..255, low : 0..255, isFile : BOOLEAN]

(* build(): false for a header that two bytes cannot count, or no memory. *)
Builds(headerLength, allocated) == headerLength <= MaxHeader /\ allocated

Frame(headerLength, size) ==
    [length |-> 2 + headerLength + size,
     high |-> headerLength \div 256, low |-> headerLength % 256, isFile |-> TRUE]

(* parse() *)
HeaderLength(frame) == frame.high * 256 + frame.low

HeaderFits_InFrame(frame) == frame.length >= 2 /\ HeaderLength(frame) <= frame.length
HeaderFits(frame) == frame.length >= 2 /\ HeaderLength(frame) <= frame.length - 2

DataOffset(frame) == 2 + HeaderLength(frame)
DataLength(frame) == frame.length - DataOffset(frame)

\* A size_t below zero would be far above MAX_SIZE.
Parses(frame) ==
    /\ HeaderFits(frame)
    /\ frame.isFile
    /\ DataLength(frame) \in 0..MAX_SIZE

\* The end of what parse() reads or hands on.
ReadsUpTo(frame) ==
    IF ~HeaderFits(frame) THEN 0
    ELSE IF ~Parses(frame) THEN DataOffset(frame)
    ELSE DataOffset(frame) + DataLength(frame)
=============================================================================
