------------------------------- MODULE CallInfo -------------------------------
(***************************************************************************)
(* What lineGetCallInfo says of a call (nuacom/nuacom.cpp): the line object *)
(* keeps the texts of the last message in msgData, and an application asks  *)
(* twice, once for the size and once, with a buffer of that size, for the   *)
(* data: four texts behind the fixed part of LINECALLINFO.                  *)
(*                                                                          *)
(* TAPI's provider lock keeps entry points apart, so that a message comes   *)
(* before or after a lineGetCallInfo, and between the two of an application.*)
(* A text is its length: bytes of UTF-8 as it came, characters as reported. *)
(* The look-ups that DBGOUT makes are those of debug builds only.           *)
(* Messages come only to a line that handles incoming calls (Drvline).  The *)
(* line's call states, which alone shouldProcessIncomingCalls decides about, *)
(* are in Drvline; a call here is there or not.                             *)
(***************************************************************************)
EXTENDS Naturals

CONSTANTS
  Calls,     \* telephone calls
  NoCall,
  Messages,  \* what the cloud may send: its call and texts
  Fixed      \* sizeof(LINECALLINFO)

Keys == {"call_caller_number", "call_caller_number_local", "call_caller_name",
         "call_callee_number", "call_callee_name"}

\* from_bytes converts a text in "utf8", and throws at an "other".
Texts == [bytes : Nat, chars : Nat, code : {"utf8", "other"}]
NoText == [bytes |-> 0, chars |-> 0, code |-> "other"]
TestName == [bytes |-> 12, chars |-> 12, code |-> "utf8"]   \* "Test name #1"

\* A text has characters when it has bytes, and no more than bytes.
Convertible(text) ==
  text.chars <= text.bytes /\ (text.code = "utf8" /\ text.bytes > 0 => text.chars > 0)

ASSUME CallInfoAssumption ==
  /\ NoCall \notin Calls /\ NoCall \notin Messages
  /\ Fixed \in Nat
  /\ \A m \in Messages :
       /\ m.call \in Calls
       /\ \A k \in Keys : m[k] \in Texts /\ Convertible(m[k])

VARIABLES
  gbIncomingCallsLocal,  \* the registry's setting, read when the DLL is loaded
  msgData,   \* per key: its text, and of which message and key it is
  call,      \* the call there is on the line: htCall
  app,       \* "idle", "sized" after a first answer, "filled" after the last
  total,     \* dwTotalSize of the application's buffer
  info,      \* LINECALLINFO as far as it is filled in: dwUsedSize and the fields
  \* history, read by no action
  last,      \* the last message since a call was closed, or NoCall
  asked      \* sizes given since the last message

vars == <<gbIncomingCallsLocal, msgData, call, app, total, info, last, asked>>

Absent == [text |-> NoText, key |-> "none", message |-> NoCall]
Unfilled == [offset |-> 0, size |-> 0, chars |-> 0, value |-> Absent]

\* from is history: the last message when it was filled in.
Unset == [used |-> Fixed, field |-> [i \in 1..4 |-> Unfilled], from |-> NoCall]

Init ==
  /\ gbIncomingCallsLocal \in BOOLEAN
  /\ msgData = [k \in Keys |-> Absent]
  /\ call = NoCall
  /\ app = "idle" /\ total = Fixed /\ info = Unset
  /\ last = NoCall /\ asked = 0

-----------------------------------------------------------------------------
(* Messages and calls *)

\* Mutant: msgData is not cleared first.
Received_merged(m) ==
  [k \in Keys |-> IF m[k] = NoText THEN msgData[k] ELSE [text |-> m[k], key |-> k, message |-> m]]

\* msgData.clear, and every text of the message.
Received(m) ==
  [k \in Keys |-> IF m[k] = NoText THEN Absent ELSE [text |-> m[k], key |-> k, message |-> m]]

\* The message is kept before anything is asked of it.  Without a call it makes one,
\* which TAPI may refuse.
ProcessCallMessage(m) ==
  /\ msgData' = Received(m)
  /\ call' = call \/ (call = NoCall /\ call' = m.call)
  /\ last' = m /\ asked' = 0
  /\ UNCHANGED <<gbIncomingCallsLocal, app, total, info>>

TSPI_lineMakeCall(c) ==
  /\ call = NoCall
  /\ call' = c
  /\ UNCHANGED <<gbIncomingCallsLocal, msgData, app, total, info, last, asked>>

\* Mutant: the call is closed and its texts stay.
TSPI_lineCloseCall_kept ==
  /\ call # NoCall
  /\ call' = NoCall
  /\ app' = "idle" /\ total' = Fixed /\ info' = Unset
  /\ last' = NoCall /\ asked' = 0
  /\ UNCHANGED <<gbIncomingCallsLocal, msgData>>

\* The application closes its call, whatever it was asking.
TSPI_lineCloseCall ==
  /\ call # NoCall
  /\ call' = NoCall
  /\ msgData' = [k \in Keys |-> Absent]
  /\ app' = "idle" /\ total' = Fixed /\ info' = Unset
  /\ last' = NoCall /\ asked' = 0
  /\ UNCHANGED gbIncomingCallsLocal

-----------------------------------------------------------------------------
(* TSPI_lineGetCallInfo *)

\* An empty name of the callee is replaced, in msgData, while it is counted.
Named(d) ==
  IF d["call_callee_name"] # Absent /\ d["call_callee_name"].text.bytes = 0
    THEN [d EXCEPT !["call_callee_name"].text = TestName] ELSE d

\* Mutant: the terminators are not counted.
Cost_bare(value) == IF value = Absent THEN 0 ELSE value.text.bytes * 2

Cost(value) == IF value = Absent THEN 0 ELSE (value.text.bytes + 1) * 2

SizeOf(d) ==
  Fixed + Cost(d["call_caller_number"]) + Cost(d["call_caller_name"])
        + Cost(d["call_callee_number"]) + Cost(d["call_callee_name"])

\* Mutant: an empty name is counted before it is replaced.
CalculateCallInfoSize_early == SizeOf(msgData)

CalculateCallInfoSize == SizeOf(Named(msgData))

\* Where the text of each part is taken from.
Source(i) ==
  CASE i = 1 -> IF gbIncomingCallsLocal THEN "call_caller_number_local" ELSE "call_caller_number"
    [] i = 3 -> "call_callee_number"
    [] OTHER -> "call_caller_name"

\* A text that is no UTF-8 leaves its part out.
Fills(d, i) == d[Source(i)] # Absent /\ d[Source(i)].text.code = "utf8"

Size(d, i) == IF Fills(d, i) THEN (d[Source(i)].text.bytes + 1) * 2 ELSE 0

\* Mutant: ptr is moved by the characters copied.
Offset_chars(d, i) ==
  LET Moved(j) == IF j < i /\ Fills(d, j) THEN (d[Source(j)].text.chars + 1) * 2 ELSE 0
  IN Fixed + Moved(1) + Moved(2) + Moved(3)

\* ptr is moved past each text and its terminator.
Offset(d, i) ==
  LET Moved(j) == IF j < i THEN Size(d, j) ELSE 0
  IN Fixed + Moved(1) + Moved(2) + Moved(3)

\* An empty name is copied as "Test name #1", in a field of its own length.
Chars(d, i) ==
  IF i \in {2, 4} /\ d[Source(i)].text.chars = 0 THEN TestName.chars ELSE d[Source(i)].text.chars

Filled(d) ==
  [used |-> Offset(d, 4) + Size(d, 4),
   field |-> [i \in 1..4 |->
     IF Fills(d, i)
       THEN [offset |-> Offset(d, i), size |-> Size(d, i), chars |-> Chars(d, i),
             value |-> d[Source(i)]]
       ELSE Unfilled],
   from |-> last]

\* The buffer is too small: only dwNeededSize, of which the application makes its next.
GiveSize ==
  /\ call # NoCall /\ app # "filled"
  /\ CalculateCallInfoSize > total
  /\ msgData' = Named(msgData)
  /\ app' = "sized" /\ total' = CalculateCallInfoSize
  /\ asked' = asked + 1
  /\ UNCHANGED <<gbIncomingCallsLocal, call, info, last>>

GiveData ==
  /\ call # NoCall /\ app # "filled"
  /\ CalculateCallInfoSize <= total
  /\ msgData' = Named(msgData)
  /\ app' = "filled" /\ info' = Filled(Named(msgData))
  /\ UNCHANGED <<gbIncomingCallsLocal, call, total, last, asked>>

TSPI_lineGetCallInfo == GiveSize \/ GiveData

\* The application asks anew, with a buffer of the fixed size.
AskAgain ==
  /\ app = "filled"
  /\ app' = "idle" /\ total' = Fixed /\ info' = Unset
  /\ asked' = 0
  /\ UNCHANGED <<gbIncomingCallsLocal, msgData, call, last>>

Next ==
  \/ \E m \in Messages : ProcessCallMessage(m)
  \/ \E c \in Calls : TSPI_lineMakeCall(c)
  \/ TSPI_lineCloseCall
  \/ TSPI_lineGetCallInfo
  \/ AskAgain

Spec == Init /\ [][Next]_vars

-----------------------------------------------------------------------------
(* Properties *)

MessageTexts == {TestName} \cup {m[k] : m \in Messages, k \in Keys}
Values ==
  {Absent}
    \cup {[text |-> t, key |-> k, message |-> m] : t \in MessageTexts, k \in Keys, m \in Messages}

\* The variables keep their types, and a text stays under its key.
TypeOK ==
  /\ gbIncomingCallsLocal \in BOOLEAN
  /\ msgData \in [Keys -> Values]
  /\ \A k \in Keys : msgData[k].key \in {k, "none"}
  /\ call \in Calls \cup {NoCall}
  /\ app \in {"idle", "sized", "filled"}
  /\ total \in Nat /\ asked \in Nat
  /\ info.used \in Nat
  /\ \A i \in 1..4 : /\ info.field[i].value \in Values
                     /\ <<info.field[i].offset, info.field[i].size, info.field[i].chars>>
                          \in Nat \X Nat \X Nat
  /\ {last, info.from} \subseteq Messages \cup {NoCall}

\* An application that gives a buffer of the size it was told is not told another
\* size, unless a message came in between: counting the texts a second time, in the
\* msgData the first count has written to, comes to the same.
SizeIsStable == asked <= 1

\* Every text filled in is of the last message there was for this call or since the
\* last was closed: no number of one call stands beside the name of another, although
\* msgData is written key by key and by lineGetCallInfo itself, and before the first
\* message nothing is said.
InfoIsOfLastMessage ==
  \A i \in 1..4 :
    info.field[i] # Unfilled => info.from # NoCall /\ info.field[i].value.message = info.from

\* The fields that have a text lie one behind the other after the fixed part and
\* within dwUsedSize; each holds the characters that are copied, fewer than its bytes
\* perhaps, and a terminator.  Only an empty name does not: "Test name #1" is copied in its
\* place and runs over the next field, or the end (CopiedIsWithin).
FieldsAreApart ==
  app = "filled" =>
    \A i \in 1..4 : info.field[i] # Unfilled =>
      LET f == info.field[i] IN
      /\ f.offset >= Fixed /\ f.offset + f.size <= info.used
      /\ f.value.text.bytes > 0 \/ i \in {1, 3} => (f.chars + 1) * 2 <= f.size
      /\ \A j \in 1..(i - 1) : info.field[j] # Unfilled =>
           info.field[j].offset + info.field[j].size <= f.offset

\* The room that the text under a key takes, and the one counted for the callee's name.
Room(m, k) == IF m[k] = NoText THEN 0 ELSE (m[k].bytes + 1) * 2
NameRoom(m) ==
  IF m["call_callee_name"] # NoText /\ m["call_callee_name"].bytes = 0
    THEN (TestName.bytes + 1) * 2 ELSE Room(m, "call_callee_name")

\* The size that was given is enough for every character and terminator copied, although
\* CalculateCallInfoSize counts two other texts than TSPI_lineGetCallInfo copies: the
\* caller's number whichever is reported, and the callee's name where the caller's is
\* reported again.  It is so when the two reported are together no longer than the two
\* counted, and the caller has no empty name, that would be replaced.
SizeIsEnough ==
  LET m == info.from
  IN /\ app = "filled" /\ m # NoCall
     /\ m["call_caller_name"] = NoText \/ m["call_caller_name"].bytes > 0
     /\ Room(m, Source(1)) + Room(m, "call_caller_name")
          <= Room(m, "call_caller_number") + NameRoom(m)
     => /\ info.used <= total
        /\ \A i \in 1..4 : info.field[i] # Unfilled =>
             info.field[i].offset + (info.field[i].chars + 1) * 2 <= total

-----------------------------------------------------------------------------
\* These do not hold.

\* Nothing is copied behind the buffer's end.  A caller's name longer than the callee's
\* is, and so is "Test name #1", copied for an empty name in the room of a terminator.
CopiedIsWithin ==
  app = "filled" =>
    \A i \in 1..4 : info.field[i] # Unfilled =>
      info.field[i].offset + info.field[i].chars * 2 <= total

\* nuacom.cpp:609 "fill caller id": the number reported for a call is that of its
\* caller.  Every message is kept, also one of another call that is then ignored.
CallerIdIsThisCalls ==
  app = "filled" /\ info.field[1] # Unfilled => info.field[1].value.message.call = call
=============================================================================
