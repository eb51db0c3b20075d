--------------------------- MODULE CallInfo_proofs ---------------------------
(***************************************************************************)
(* Proofs about CallInfo, for any calls and messages, whatever their texts. *)
(*                                                                          *)
(* The lemmas say what counting a size and filling in the fields do to any  *)
(* msgData: counting replaces an empty name and does nothing the second     *)
(* time, the fields lie one behind the other.  The invariant CallInv adds   *)
(* where the texts in msgData come from, and what is left of a size that    *)
(* was given.                                                               *)
(***************************************************************************)
EXTENDS CallInfo, TLAPS

-----------------------------------------------------------------------------
(* Texts *)

\* A value is Absent or a text that can be converted as far as its code says.
LEMMA ValueFacts ==
  ASSUME NEW v \in Values
  PROVE  /\ v.text.bytes \in Nat /\ v.text.chars \in Nat
         /\ v.text.code \in {"utf8", "other"}
         /\ Convertible(v.text)
         /\ v = [text |-> v.text, key |-> v.key, message |-> v.message]
         /\ v.key \in Keys \cup {"none"} /\ v.message \in Messages \cup {NoCall}
<1>1. CASE v = Absent
  BY <1>1 DEF Absent, NoText, Convertible
<1>2. CASE v # Absent
  <2>1. PICK t \in MessageTexts, k \in Keys, m \in Messages :
          v = [text |-> t, key |-> k, message |-> m]
    BY <1>2 DEF Values
  <2>2. t \in Texts /\ Convertible(t)
    BY CallInfoAssumption DEF MessageTexts, TestName, Texts, Convertible
  <2>3. QED
    BY <2>1, <2>2 DEF Texts
<1>3. QED
  BY <1>1, <1>2

LEMMA AbsentFacts == Absent \in Values /\ Absent.key = "none" /\ Absent.message = NoCall
  BY DEF Values, Absent

\* Every key is one of the five.
LEMMA KeysAre ==
  /\ "call_caller_number" \in Keys /\ "call_caller_number_local" \in Keys
  /\ "call_caller_name" \in Keys /\ "call_callee_number" \in Keys
  /\ "call_callee_name" \in Keys
  BY DEF Keys

\* What msgData is: texts under their own keys.
Data(d) == d \in [Keys -> Values] /\ \A k \in Keys : d[k].key \in {k, "none"}

\* An empty name is replaced once.
LEMMA NamedFacts ==
  ASSUME NEW d, Data(d)
  PROVE  /\ Data(Named(d)) /\ Named(Named(d)) = Named(d)
         /\ \A k \in Keys : k # "call_callee_name" => Named(d)[k] = d[k]
         /\ \A k \in Keys : Named(d)[k] = Absent <=> d[k] = Absent
         /\ \A k \in Keys : Named(d)[k].message = d[k].message
         /\ d["call_callee_name"] # Absent =>
              Named(d)["call_callee_name"].text =
                IF d["call_callee_name"].text.bytes = 0 THEN TestName
                                                        ELSE d["call_callee_name"].text
<1> DEFINE callee == "call_callee_name"
<1>1. d[callee] \in Values
  BY KeysAre DEF Data
<1>2. CASE ~(d[callee] # Absent /\ d[callee].text.bytes = 0)
  <2>1. Named(d) = d
    BY <1>2 DEF Named
  <2> QED
    BY <1>2, <2>1
<1>3. CASE d[callee] # Absent /\ d[callee].text.bytes = 0
  <2>1. d[callee] # Absent /\ d[callee].text.bytes = 0
        /\ Named(d) = [d EXCEPT !["call_callee_name"].text = TestName]
    BY <1>3 DEF Named
  <2>2. PICK m \in Messages : d[callee].message = m /\ d[callee].key = callee
    <3>1. PICK t \in MessageTexts, k \in Keys, m \in Messages :
            d[callee] = [text |-> t, key |-> k, message |-> m]
      BY <2>1, <1>1 DEF Values
    <3>2. d[callee].key = k /\ d[callee].message = m
      BY <3>1
    <3>3. d[callee].key \in {callee, "none"} /\ k # "none"
      BY KeysAre DEF Data, Keys
    <3>4. QED
      BY <3>2, <3>3
  <2>3. [d[callee] EXCEPT !.text = TestName] = [text |-> TestName, key |-> callee, message |-> m]
    BY <2>2, <1>1, ValueFacts
  <2>4. Named(d) = [d EXCEPT ![callee] = [text |-> TestName, key |-> callee, message |-> m]]
    BY <2>1, <2>3
  <2>5. [text |-> TestName, key |-> callee, message |-> m] \in Values
    BY KeysAre DEF Values, MessageTexts
  <2>6. Named(d)[callee] = [text |-> TestName, key |-> callee, message |-> m]
        /\ \A k \in Keys : k # callee => Named(d)[k] = d[k]
    BY <2>4, KeysAre DEF Data
  <2>7. Data(Named(d))
    BY <2>4, <2>5, <2>6, KeysAre DEF Data
  <2>8. Named(d)[callee].text.bytes = 12 /\ Named(d)[callee] # Absent
    BY <2>6, CallInfoAssumption DEF TestName, Absent, NoText
  <2>9. Named(Named(d)) = Named(d)
    BY <2>8 DEF Named
  <2>10. QED
    BY <2>1, <2>2, <2>6, <2>7, <2>8, <2>9
<1>4. QED
  BY <1>2, <1>3

\* A size is counted whatever the texts are, and a second time to the same.
LEMMA CostNat == ASSUME NEW v \in Values PROVE Cost(v) \in Nat
  BY ValueFacts DEF Cost

LEMMA SizeFacts ==
  ASSUME NEW d, Data(d) PROVE SizeOf(d) \in Nat
<1>1. \A k \in Keys : Cost(d[k]) \in Nat
  BY CostNat DEF Data
<1>2. QED
  BY <1>1, KeysAre, CallInfoAssumption DEF SizeOf

-----------------------------------------------------------------------------
(* The four fields *)

LEMMA SourceIsAKey == \A i \in 1..4 : Source(i) \in Keys
  BY KeysAre DEF Source

\* The size of a field is even for its characters, a text that is replaced apart.
LEMMA FieldFacts ==
  ASSUME NEW d, Data(d), NEW i \in 1..4
  PROVE  /\ Size(d, i) \in Nat
         /\ Fills(d, i) => Chars(d, i) \in Nat
         /\ Fills(d, i) /\ (d[Source(i)].text.bytes > 0 \/ i \in {1, 3})
            => (Chars(d, i) + 1) * 2 <= Size(d, i)
<1>1. d[Source(i)] \in Values
  BY SourceIsAKey DEF Data
<1>2. QED
  BY <1>1, ValueFacts DEF Fills, Size, Chars, Convertible, TestName

\* The fields lie one behind the other.
LEMMA OffsetFacts ==
  ASSUME NEW d, Data(d)
  PROVE  /\ Offset(d, 1) = Fixed
         /\ \A i \in 1..3 : Offset(d, i + 1) = Offset(d, i) + Size(d, i)
         /\ \A i \in 1..4 : Offset(d, i) \in Nat
<1>1. Size(d, 1) \in Nat /\ Size(d, 2) \in Nat /\ Size(d, 3) \in Nat
  BY FieldFacts
<1>2. /\ Offset(d, 1) = Fixed
      /\ Offset(d, 2) = Fixed + Size(d, 1)
      /\ Offset(d, 3) = Fixed + Size(d, 1) + Size(d, 2)
      /\ Offset(d, 4) = Fixed + Size(d, 1) + Size(d, 2) + Size(d, 3)
  BY <1>1, CallInfoAssumption DEF Offset
<1>3. QED
  BY <1>1, <1>2, CallInfoAssumption

LEMMA FieldsFollow ==
  ASSUME NEW d, Data(d), NEW i \in 1..4
  PROVE  /\ Offset(d, i) >= Fixed
         /\ Offset(d, i) + Size(d, i) <= Offset(d, 4) + Size(d, 4)
         /\ \A j \in 1..(i - 1) : Offset(d, j) + Size(d, j) <= Offset(d, i)
<1>1. Size(d, 1) \in Nat /\ Size(d, 2) \in Nat /\ Size(d, 3) \in Nat /\ Size(d, 4) \in Nat
  BY FieldFacts
<1>2. /\ Offset(d, 1) = Fixed
      /\ Offset(d, 2) = Offset(d, 1) + Size(d, 1)
      /\ Offset(d, 3) = Offset(d, 2) + Size(d, 2)
      /\ Offset(d, 4) = Offset(d, 3) + Size(d, 3)
  BY OffsetFacts
<1>3. i \in {1, 2, 3, 4} /\ \A j \in 1..(i - 1) : j \in {1, 2, 3} /\ j < i
  OBVIOUS
<1>4. QED
  BY <1>1, <1>2, <1>3, CallInfoAssumption

\* What Filled says of each field.
LEMMA FilledFacts ==
  ASSUME NEW d, Data(d), NEW i \in 1..4
  PROVE  /\ Filled(d).used \in Nat
         /\ Filled(d).from = last
         /\ Filled(d).field[i] \in {Unfilled,
              [offset |-> Offset(d, i), size |-> Size(d, i), chars |-> Chars(d, i),
               value |-> d[Source(i)]]}
         /\ Filled(d).field[i] # Unfilled => Fills(d, i)
  BY FieldFacts, OffsetFacts DEF Filled

-----------------------------------------------------------------------------
(* The invariant *)

\* The texts in msgData are those of the last message, but for a name replaced.
TextsInv ==
  /\ \A k \in Keys : msgData[k] # Absent => last \in Messages /\ msgData[k].message = last
  /\ last \in Messages => \A k \in Keys :
       /\ msgData[k] = Absent <=> last[k] = NoText
       /\ msgData[k] # Absent =>
            \/ msgData[k].text = last[k]
            \/ k = "call_callee_name" /\ last[k].bytes = 0 /\ msgData[k].text = TestName

\* A size that was given is still large enough.
AskedInv == asked = 0 \/ (asked = 1 /\ SizeOf(Named(msgData)) <= total)

CallInv == TextsInv /\ AskedInv /\ InfoIsOfLastMessage /\ FieldsAreApart /\ SizeIsEnough

LEMMA ReceivedIsData == ASSUME NEW m \in Messages PROVE Data(Received(m))
<1>1. ASSUME NEW k \in Keys PROVE [text |-> m[k], key |-> k, message |-> m] \in Values
  <2>1. m[k] \in MessageTexts
    BY DEF MessageTexts
  <2>2. QED
    BY <2>1 DEF Values
<1>2. Absent \in Values /\ Absent.key = "none"
  BY AbsentFacts
<1>3. QED
  BY <1>1, <1>2 DEF Received, Data

LEMMA Initially == Init => TypeOK /\ CallInv
<1> SUFFICES ASSUME Init PROVE TypeOK /\ CallInv
  OBVIOUS
<1>1. Absent \in Values /\ Absent.key = "none"
  BY AbsentFacts
<1>2. TypeOK
  BY <1>1, CallInfoAssumption DEF Init, TypeOK, Unset, Unfilled
<1>3. TextsInv /\ AskedInv
  BY CallInfoAssumption DEF Init, TextsInv, AskedInv
<1>4. InfoIsOfLastMessage /\ FieldsAreApart /\ SizeIsEnough
  BY DEF Init, InfoIsOfLastMessage, FieldsAreApart, SizeIsEnough, Unset
<1>5. QED
  BY <1>2, <1>3, <1>4 DEF CallInv

LEMMA TypeStep == TypeOK /\ [Next]_vars => TypeOK'
<1> SUFFICES ASSUME TypeOK, [Next]_vars PROVE TypeOK'
  OBVIOUS
<1> USE DEF TypeOK
<1>1. Data(msgData)
  BY DEF Data
<1>2. Absent \in Values /\ Absent.key = "none"
  BY AbsentFacts
<1>3. Unset.used \in Nat /\ Unset.from = NoCall
      /\ \A i \in 1..4 : Unset.field[i].value \in Values
           /\ <<Unset.field[i].offset, Unset.field[i].size, Unset.field[i].chars>>
                \in Nat \X Nat \X Nat
  BY <1>2, CallInfoAssumption DEF Unset, Unfilled
<1>4. ASSUME NEW m \in Messages, ProcessCallMessage(m) PROVE TypeOK'
  BY <1>4, ReceivedIsData, CallInfoAssumption DEF ProcessCallMessage, Data
<1>5. ASSUME NEW c \in Calls, TSPI_lineMakeCall(c) PROVE TypeOK'
  BY <1>5 DEF TSPI_lineMakeCall
<1>6. CASE TSPI_lineCloseCall
  BY <1>2, <1>3, <1>6, CallInfoAssumption DEF TSPI_lineCloseCall
<1>7. Data(Named(msgData)) /\ SizeOf(Named(msgData)) \in Nat
  BY <1>1, NamedFacts, SizeFacts
<1>8. CASE GiveSize
  BY <1>7, <1>8 DEF GiveSize, CalculateCallInfoSize, Data
<1>9. CASE GiveData
  <2>1. /\ UNCHANGED <<gbIncomingCallsLocal, call, total, last, asked>>
        /\ msgData' = Named(msgData) /\ app' = "filled" /\ info' = Filled(Named(msgData))
    BY <1>9 DEF GiveData
  <2>2. \A i \in 1..4 : Named(msgData)[Source(i)] \in Values
    BY <1>7, SourceIsAKey DEF Data
  <2>3. \A i \in 1..4 :
          /\ info'.field[i].value \in Values
          /\ <<info'.field[i].offset, info'.field[i].size, info'.field[i].chars>>
               \in Nat \X Nat \X Nat
    BY <1>2, <1>7, <2>1, <2>2, FilledFacts, FieldFacts, OffsetFacts DEF Unfilled
  <2>4. info'.used \in Nat /\ info'.from = last
    BY <1>7, <2>1, FilledFacts
  <2>5. QED
    BY <1>7, <2>1, <2>3, <2>4 DEF Data
<1>10. CASE AskAgain
  BY <1>3, <1>10, CallInfoAssumption DEF AskAgain
<1>11. CASE UNCHANGED vars
  BY <1>11 DEF vars
<1>12. QED
  BY <1>4, <1>5, <1>6, <1>8, <1>9, <1>10, <1>11 DEF Next, TSPI_lineGetCallInfo

\* Where the texts come from.
LEMMA TextsStep == TypeOK /\ TextsInv /\ [Next]_vars => TextsInv'
<1> SUFFICES ASSUME TypeOK, TextsInv, [Next]_vars PROVE TextsInv'
  OBVIOUS
<1> USE DEF TextsInv
<1>1. ASSUME NEW m \in Messages, ProcessCallMessage(m) PROVE TextsInv'
  BY <1>1, AbsentFacts, CallInfoAssumption DEF ProcessCallMessage, Received
<1>2. ASSUME NEW c \in Calls, TSPI_lineMakeCall(c) PROVE TextsInv'
  BY <1>2 DEF TSPI_lineMakeCall
<1>3. CASE TSPI_lineCloseCall
  BY <1>3, CallInfoAssumption DEF TSPI_lineCloseCall
<1>4. CASE TSPI_lineGetCallInfo
  <2>1. msgData' = Named(msgData) /\ UNCHANGED last
    BY <1>4 DEF TSPI_lineGetCallInfo, GiveSize, GiveData
  <2>2. Data(msgData)
    BY DEF TypeOK, Data
  <2>3. ASSUME last \in Messages, msgData["call_callee_name"] # Absent
        PROVE  \/ Named(msgData)["call_callee_name"].text = last["call_callee_name"]
               \/ /\ last["call_callee_name"].bytes = 0
                  /\ Named(msgData)["call_callee_name"].text = TestName
    BY <2>2, <2>3, NamedFacts, KeysAre DEF TestName
  <2>4. QED
    BY <2>1, <2>2, <2>3, NamedFacts
<1>5. CASE AskAgain
  BY <1>5 DEF AskAgain
<1>6. CASE UNCHANGED vars
  BY <1>6 DEF vars
<1>7. QED
  BY <1>1, <1>2, <1>3, <1>4, <1>5, <1>6 DEF Next

\* A size given is not given again.
LEMMA AskedStep == TypeOK /\ AskedInv /\ [Next]_vars => AskedInv'
<1> SUFFICES ASSUME TypeOK, AskedInv, [Next]_vars PROVE AskedInv'
  OBVIOUS
<1> USE DEF AskedInv
<1>1. Data(msgData) /\ Named(Named(msgData)) = Named(msgData) /\ SizeOf(Named(msgData)) \in Nat
  BY NamedFacts, SizeFacts DEF TypeOK, Data
<1>2. CASE GiveSize
  <2>1. SizeOf(Named(msgData)) > total /\ total \in Nat
    BY <1>2 DEF GiveSize, CalculateCallInfoSize, TypeOK
  <2>2. asked = 0
    BY <1>1, <2>1
  <2>3. msgData' = Named(msgData) /\ total' = SizeOf(Named(msgData)) /\ asked' = 1
    BY <1>2, <2>2 DEF GiveSize, CalculateCallInfoSize
  <2>4. SizeOf(Named(msgData')) <= total'
    BY <1>1, <2>3
  <2>5. QED
    BY <2>3, <2>4
<1>3. CASE GiveData
  <2>1. msgData' = Named(msgData) /\ UNCHANGED <<total, asked>>
    BY <1>3 DEF GiveData
  <2>2. Named(msgData') = Named(msgData)
    BY <1>1, <2>1
  <2>3. QED
    BY <2>1, <2>2
<1>4. ASSUME NEW c \in Calls, TSPI_lineMakeCall(c) PROVE AskedInv'
  BY <1>4 DEF TSPI_lineMakeCall
<1>5. CASE TSPI_lineCloseCall \/ AskAgain \/ \E m \in Messages : ProcessCallMessage(m)
  BY <1>5 DEF TSPI_lineCloseCall, AskAgain, ProcessCallMessage
<1>6. CASE UNCHANGED vars
  BY <1>6 DEF vars
<1>7. QED
  BY <1>2, <1>3, <1>4, <1>5, <1>6 DEF Next, TSPI_lineGetCallInfo

\* The setting stays as it was read.
LEMMA LocalStays == [Next]_vars => UNCHANGED gbIncomingCallsLocal
  BY Zenon DEF Next, vars, ProcessCallMessage, TSPI_lineMakeCall, TSPI_lineCloseCall,
               TSPI_lineGetCallInfo, GiveSize, GiveData, AskAgain

\* The answers change with what is filled in, and are withdrawn by the other steps.
LEMMA AnswerSteps ==
  ASSUME [Next]_vars, ~GiveData
  PROVE  (UNCHANGED <<info, app, total>>) \/ (app' # "filled" /\ info' \in {info, Unset})
<1>1. CASE UNCHANGED vars
  BY <1>1 DEF vars
<1>2. CASE GiveSize
  BY <1>2 DEF GiveSize
<1>3. CASE TSPI_lineCloseCall \/ AskAgain
  BY <1>3 DEF TSPI_lineCloseCall, AskAgain
<1>4. CASE (\E m \in Messages : ProcessCallMessage(m)) \/ (\E c \in Calls : TSPI_lineMakeCall(c))
  BY <1>4 DEF ProcessCallMessage, TSPI_lineMakeCall
<1>5. QED
  BY <1>1, <1>2, <1>3, <1>4 DEF Next, TSPI_lineGetCallInfo

\* What GiveData fills in, of texts that are those of the last message.
LEMMA GivenFacts ==
  ASSUME TypeOK, TextsInv, GiveData
  PROVE  /\ Data(Named(msgData)) /\ info' = Filled(Named(msgData)) /\ info'.from = last
         /\ UNCHANGED total /\ SizeOf(Named(msgData)) <= total
         /\ \A i \in 1..4 : info'.field[i] # Unfilled =>
              /\ last \in Messages /\ info'.field[i].value.message = last
<1>1. Data(msgData)
  BY DEF TypeOK, Data
<1>2. Data(Named(msgData)) /\ info' = Filled(Named(msgData)) /\ UNCHANGED total
  BY <1>1, NamedFacts DEF GiveData
<1>3. SizeOf(Named(msgData)) <= total
  BY DEF GiveData, CalculateCallInfoSize
<1>4. ASSUME NEW i \in 1..4, info'.field[i] # Unfilled
      PROVE  last \in Messages /\ info'.field[i].value.message = last
  <2>1. info'.field[i].value = Named(msgData)[Source(i)] /\ Fills(Named(msgData), i)
    BY <1>2, <1>4, FilledFacts
  <2>2. msgData[Source(i)] # Absent
        /\ Named(msgData)[Source(i)].message = msgData[Source(i)].message
    BY <1>1, <2>1, NamedFacts, SourceIsAKey DEF Fills
  <2>3. QED
    BY <2>1, <2>2, SourceIsAKey DEF TextsInv
<1>5. QED
  BY <1>2, <1>3, <1>4, FilledFacts

LEMMA InfoStep ==
  TypeOK /\ TextsInv /\ InfoIsOfLastMessage /\ [Next]_vars => InfoIsOfLastMessage'
<1> SUFFICES ASSUME TypeOK, TextsInv, InfoIsOfLastMessage, [Next]_vars
             PROVE InfoIsOfLastMessage'
  OBVIOUS
<1>1. CASE GiveData
  BY <1>1, GivenFacts, CallInfoAssumption DEF InfoIsOfLastMessage
<1>2. CASE ~GiveData
  <2>1. \A i \in 1..4 : Unset.field[i] = Unfilled
    BY DEF Unset
  <2>2. QED
    BY <1>2, <2>1, AnswerSteps DEF InfoIsOfLastMessage
<1>3. QED
  BY <1>1, <1>2

LEMMA ApartStep == TypeOK /\ TextsInv /\ FieldsAreApart /\ [Next]_vars => FieldsAreApart'
<1> SUFFICES ASSUME TypeOK, TextsInv, FieldsAreApart, [Next]_vars PROVE FieldsAreApart'
  OBVIOUS
<1>1. CASE GiveData
  <2> DEFINE d == Named(msgData)
  <2>1. Data(d) /\ info' = Filled(d)
    BY <1>1, GivenFacts
  <2>2. info'.used = Offset(d, 4) + Size(d, 4)
    BY <2>1 DEF Filled
  <2>3. ASSUME NEW i \in 1..4, info'.field[i] # Unfilled
        PROVE  /\ info'.field[i].offset = Offset(d, i) /\ info'.field[i].size = Size(d, i)
               /\ info'.field[i].chars = Chars(d, i) /\ info'.field[i].value = d[Source(i)]
               /\ Fills(d, i)
    BY <2>1, <2>3, FilledFacts
  <2>4. ASSUME NEW i \in 1..4, info'.field[i] # Unfilled
        PROVE  LET f == info'.field[i] IN
               /\ f.offset >= Fixed /\ f.offset + f.size <= info'.used
               /\ f.value.text.bytes > 0 \/ i \in {1, 3} => (f.chars + 1) * 2 <= f.size
               /\ \A j \in 1..(i - 1) : info'.field[j] # Unfilled =>
                    info'.field[j].offset + info'.field[j].size <= f.offset
    <3>1. \A j \in 1..(i - 1) : j \in 1..4
      OBVIOUS
    <3>2. QED
      BY <2>1, <2>2, <2>3, <2>4, <3>1, FieldsFollow, FieldFacts
  <2>5. QED
    BY <2>4 DEF FieldsAreApart
<1>2. CASE ~GiveData
  BY <1>2, AnswerSteps DEF FieldsAreApart
<1>3. QED
  BY <1>1, <1>2

\* The size given counts the texts of the last message, and the name put for an empty one.
LEMMA CountedFacts ==
  ASSUME NEW d, Data(d), last \in Messages,
         \A k \in Keys : (d[k] = Absent <=> last[k] = NoText)
                         /\ (d[k] # Absent /\ k # "call_callee_name" => d[k].text = last[k]),
         d["call_callee_name"] # Absent => d["call_callee_name"].text =
           IF last["call_callee_name"].bytes = 0 THEN TestName ELSE last["call_callee_name"]
  PROVE  /\ \A k \in Keys : Room(last, k) \in Nat
         /\ NameRoom(last) \in Nat
         /\ \A i \in 1..4 : Size(d, i) <= Room(last, Source(i))
         /\ SizeOf(d) = Fixed + Room(last, "call_caller_number") + Room(last, "call_caller_name")
                              + Room(last, "call_callee_number") + NameRoom(last)
<1>1. \A k \in Keys : last[k].bytes \in Nat
  BY CallInfoAssumption DEF Texts
<1>2. (\A k \in Keys : Room(last, k) \in Nat) /\ NameRoom(last) \in Nat
  BY <1>1, KeysAre DEF Room, NameRoom, TestName
<1>3. \A k \in Keys : k # "call_callee_name" => Cost(d[k]) = Room(last, k)
  BY DEF Cost, Room
<1>4. Cost(d["call_callee_name"]) = NameRoom(last)
  BY KeysAre DEF Cost, Room, NameRoom
<1>5. \A i \in 1..4 : Size(d, i) <= Room(last, Source(i))
  <2>1. SUFFICES ASSUME NEW i \in 1..4 PROVE Size(d, i) <= Room(last, Source(i))
    OBVIOUS
  <2>2. Source(i) \in Keys /\ Source(i) # "call_callee_name"
    BY SourceIsAKey DEF Source
  <2>3. CASE Fills(d, i)
    BY <1>1, <1>2, <2>2, <2>3 DEF Fills, Size, Room
  <2>4. CASE ~Fills(d, i)
    BY <1>2, <2>2, <2>4 DEF Size
  <2> QED
    BY <2>3, <2>4
<1> QED
  BY <1>2, <1>3, <1>4, <1>5, KeysAre DEF SizeOf

LEMMA EnoughStep == TypeOK /\ TextsInv /\ SizeIsEnough /\ [Next]_vars => SizeIsEnough'
<1> SUFFICES ASSUME TypeOK, TextsInv, SizeIsEnough, [Next]_vars PROVE SizeIsEnough'
  OBVIOUS
<1>0. Source(1)' = Source(1)
  BY LocalStays DEF Source
<1>1. CASE GiveData
  <2> DEFINE d == Named(msgData)
  <2>1. /\ Data(d) /\ info' = Filled(d) /\ info'.from = last /\ UNCHANGED total
        /\ SizeOf(d) <= total
    BY <1>1, GivenFacts
  <2>2. SUFFICES ASSUME last # NoCall,
                        last["call_caller_name"] = NoText \/ last["call_caller_name"].bytes > 0,
                        Room(last, Source(1)) + Room(last, "call_caller_name")
                          <= Room(last, "call_caller_number") + NameRoom(last)
                 PROVE  /\ info'.used <= total
                        /\ \A i \in 1..4 : info'.field[i] # Unfilled =>
                             info'.field[i].offset + (info'.field[i].chars + 1) * 2 <= total
    BY <1>0, <2>1 DEF SizeIsEnough, Room, NameRoom
  <2>3. last \in Messages
    BY <2>2 DEF TypeOK
  <2>4. /\ \A k \in Keys :
             /\ (d[k] = Absent <=> last[k] = NoText)
             /\ d[k] # Absent /\ k # "call_callee_name" => d[k].text = last[k]
        /\ d["call_callee_name"] # Absent => d["call_callee_name"].text =
             IF last["call_callee_name"].bytes = 0 THEN TestName ELSE last["call_callee_name"]
    <3>1. Data(msgData)
      BY DEF TypeOK, Data
    <3>2. QED
      BY <2>3, <3>1, NamedFacts, KeysAre DEF TextsInv, TestName
  <2> HIDE DEF d
  <2>5. /\ \A k \in Keys : Room(last, k) \in Nat
        /\ NameRoom(last) \in Nat
        /\ \A i \in 1..4 : Size(d, i) <= Room(last, Source(i))
        /\ SizeOf(d) = Fixed + Room(last, "call_caller_number") + Room(last, "call_caller_name")
                             + Room(last, "call_callee_number") + NameRoom(last)
    BY <2>1, <2>3, <2>4, CountedFacts
  <2>6. /\ Source(1) \in Keys /\ Source(2) = "call_caller_name"
        /\ Source(3) = "call_callee_number" /\ Source(4) = "call_caller_name"
    BY SourceIsAKey DEF Source
  <2>7. Size(d, 1) \in Nat /\ Size(d, 2) \in Nat /\ Size(d, 3) \in Nat /\ Size(d, 4) \in Nat
    BY <2>1, FieldFacts
  <2>8. info'.used = Offset(d, 4) + Size(d, 4)
        /\ Offset(d, 4) + Size(d, 4) = Fixed + Size(d, 1) + Size(d, 2) + Size(d, 3) + Size(d, 4)
    BY <2>1, <2>7, OffsetFacts, CallInfoAssumption DEF Filled
  <2>9. Offset(d, 4) + Size(d, 4) <= total
    <3>1. /\ Size(d, 1) <= Room(last, Source(1)) /\ Size(d, 2) <= Room(last, "call_caller_name")
          /\ Size(d, 3) <= Room(last, "call_callee_number")
          /\ Size(d, 4) <= Room(last, "call_caller_name")
      BY <2>5, <2>6
    <3>2. /\ Room(last, Source(1)) \in Nat /\ Room(last, "call_caller_name") \in Nat
          /\ Room(last, "call_caller_number") \in Nat /\ Room(last, "call_callee_number") \in Nat
      BY <2>5, <2>6, KeysAre
    <3> QED
      BY <2>1, <2>2, <2>5, <2>7, <2>8, <3>1, <3>2, CallInfoAssumption DEF TypeOK
  <2>10. ASSUME NEW i \in 1..4, info'.field[i] # Unfilled
         PROVE  info'.field[i].offset + (info'.field[i].chars + 1) * 2 <= total
    <3>1. /\ info'.field[i].offset = Offset(d, i) /\ info'.field[i].chars = Chars(d, i)
          /\ Fills(d, i)
      BY <2>1, <2>10, FilledFacts
    <3>2. d[Source(i)].text.bytes > 0 \/ i \in {1, 3}
      <4>1. CASE i \in {2, 4}
        <5>1. Source(i) = "call_caller_name"
          BY <2>6, <4>1
        <5>2. d["call_caller_name"] # Absent
          BY <3>1, <5>1 DEF Fills
        <5> QED
          BY <2>2, <2>4, <5>1, <5>2, KeysAre
      <4> QED
        BY <4>1
    <3>3. (Chars(d, i) + 1) * 2 <= Size(d, i) /\ Chars(d, i) \in Nat /\ Size(d, i) \in Nat
      BY <2>1, <3>1, <3>2, FieldFacts
    <3>4. Offset(d, i) \in Nat /\ Offset(d, i) + Size(d, i) <= Offset(d, 4) + Size(d, 4)
      BY <2>1, OffsetFacts, FieldsFollow
    <3> QED
      BY <2>7, <2>9, <3>1, <3>3, <3>4, OffsetFacts, <2>1 DEF TypeOK
  <2> QED
    BY <2>8, <2>9, <2>10
<1>2. CASE ~GiveData
  BY <1>0, <1>2, AnswerSteps DEF SizeIsEnough, Room, NameRoom
<1>3. QED
  BY <1>1, <1>2

LEMMA Invariant == Spec => [](TypeOK /\ CallInv)
<1>1. TypeOK /\ CallInv /\ [Next]_vars => (TypeOK /\ CallInv)'
  BY TypeStep, TextsStep, AskedStep, InfoStep, ApartStep, EnoughStep DEF CallInv
<1>2. QED
  BY <1>1, Initially, PTL DEF Spec

-----------------------------------------------------------------------------
\* The variables keep their types, and a text stays under its key.
THEOREM TypeCorrect == Spec => []TypeOK
  BY Invariant, PTL

\* Without a message in between, an application is told one size.
THEOREM StableSize == Spec => []SizeIsStable
<1>1. CallInv => SizeIsStable
  BY DEF CallInv, AskedInv, SizeIsStable
<1>2. QED
  BY <1>1, Invariant, PTL

\* The texts an application is given are all of one message, the last.
THEOREM OneMessage == Spec => []InfoIsOfLastMessage
<1>1. CallInv => InfoIsOfLastMessage
  BY DEF CallInv
<1>2. QED
  BY <1>1, Invariant, PTL

\* The four fields lie apart, and each holds the characters copied and a terminator, but
\* for the "Test name #1" that is copied in the place of an empty name.
THEOREM ApartFields == Spec => []FieldsAreApart
<1>1. CallInv => FieldsAreApart
  BY DEF CallInv
<1>2. QED
  BY <1>1, Invariant, PTL

\* Every character copied is within the size given, for all texts of which the reported
\* are no longer than the counted, and an empty name is not replaced.
THEOREM EnoughSize == Spec => []SizeIsEnough
<1>1. CallInv => SizeIsEnough
  BY DEF CallInv
<1>2. QED
  BY <1>1, Invariant, PTL
=============================================================================
