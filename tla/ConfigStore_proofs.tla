-------------------------- MODULE ConfigStore_proofs --------------------------
(***************************************************************************)
(* Proofs about ConfigStore, for every set of clients, settings and         *)
(* accounts.                                                                *)
(*                                                                          *)
(* What a reply says rests on what each step before it left behind: SetInv, *)
(* SetOwn and GetOwn say, for an RPC at a given step, what the registry and *)
(* the parameters hold of the values it has passed.                         *)
(***************************************************************************)
EXTENDS ConfigStore, TLAPS

\* A save writes what a user entered, and what it has come to is there or was refused.
SetInv ==
  /\ \A c \in Clients : reply[c] = "pending" => call[c] \in {"set", "get"}
  /\ \A c \in Clients : InRpc(c, "set") =>
       /\ data[c] \in Settings
       /\ step[c] > 1 => Kept("IncomingCallsLocal")
       /\ step[c] > 2 => Kept("HandleIncomingCalls")
       /\ step[c] > 3 => Kept("username")

\* The registry has a client's value, unless another RPC has written it or the client failed.
Own(c, v) == v \in others[c] \cup failed[c] \/ registry[v] = data[c][v]

\* So it is with each value a save has come past.
SetOwn ==
  \A c \in Clients : InRpc(c, "set") =>
    /\ step[c] > 1 => Own(c, "IncomingCallsLocal")
    /\ step[c] > 2 => Own(c, "HandleIncomingCalls")
    /\ step[c] > 3 => Own(c, "username")
    /\ step[c] > 4 => Own(c, "passwordEncrypted")

\* And with each value read, but for a flag made up.
Told(c, f) == Own(c, f) \/ registry[f] = NoValue

GetOwn ==
  \A c \in Clients : InRpc(c, "get") =>
    /\ step[c] > 1 => Told(c, "HandleIncomingCalls")
    /\ step[c] > 2 => Told(c, "IncomingCallsLocal")
    /\ step[c] > 3 => registry["username"] # NoValue /\ Own(c, "username")
    /\ step[c] > 4 => Own(c, "passwordEncrypted")

ConfigInv ==
  FlagsBeforeAccount /\ SetInv /\ SetOwn /\ GetOwn /\ ConfiguredIsTheRegistry

-----------------------------------------------------------------------------
(* The two orders, and what a setting is *)

LEMMA Orders ==
  /\ SetOrder[1] = "IncomingCallsLocal" /\ SetOrder[2] = "HandleIncomingCalls"
  /\ SetOrder[3] = "username" /\ SetOrder[4] = "passwordEncrypted"
  /\ GetOrder[1] = "HandleIncomingCalls" /\ GetOrder[2] = "IncomingCallsLocal"
  /\ GetOrder[3] = "username" /\ GetOrder[4] = "passwordEncrypted"
  BY DEF SetOrder, GetOrder

LEMMA SettingsAreEntries ==
  \A s \in Settings : s \in [Values -> Entries] /\ \A v \in Values : s[v] # NoValue
<1> SUFFICES ASSUME NEW s \in Settings
             PROVE  s \in [Values -> Entries] /\ \A v \in Values : s[v] # NoValue
  OBVIOUS
<1>1. \A v \in Values : s[v] \in Entries
  BY DEF Entries
<1>2. s = [v \in Values |-> s[v]] /\ NoValue \notin Entries
  BY SettingsAssumption
<1>3. QED
  BY <1>1, <1>2

\* A step of an RPC is at one of the four values, in the RPC's order.
LEMMA AtWrite ==
  ASSUME TypeOK, NEW c \in Clients, WriteValue(c)
  PROVE  \/ step[c] = 1 /\ SetOrder[step[c]] = "IncomingCallsLocal"
         \/ step[c] = 2 /\ SetOrder[step[c]] = "HandleIncomingCalls"
         \/ step[c] = 3 /\ SetOrder[step[c]] = "username"
         \/ step[c] = 4 /\ SetOrder[step[c]] = "passwordEncrypted"
<1>1. step[c] \in 1..4
  BY DEF WriteValue, TypeOK
<1>2. QED
  BY <1>1, Orders

LEMMA AtRead ==
  ASSUME TypeOK, NEW c \in Clients, ReadValue(c)
  PROVE  \/ step[c] = 1 /\ GetOrder[step[c]] = "HandleIncomingCalls"
         \/ step[c] = 2 /\ GetOrder[step[c]] = "IncomingCallsLocal"
         \/ step[c] = 3 /\ GetOrder[step[c]] = "username"
         \/ step[c] = 4 /\ GetOrder[step[c]] = "passwordEncrypted"
<1>1. step[c] \in 1..4
  BY DEF ReadValue, TypeOK
<1>2. QED
  BY <1>1, Orders

-----------------------------------------------------------------------------
(* The kinds of step *)

\* RPCs end without a return.
Ends == \E cs \in SUBSET Clients, how \in {"raised", "lost"} : NoReturn(cs, how)

Begins(c) == Begin(c, "get", Nothing) \/ \E s \in Settings : Begin(c, "set", s)

\* The value w is the one the RPC is at.
Passes(c, rpc, w) ==
  /\ InRpc(c, rpc) /\ step' = [step EXCEPT ![c] = @ + 1]
  /\ UNCHANGED <<call, reply, message>>
  /\ rpc = "set" => \/ step[c] = 1 /\ w = "IncomingCallsLocal"
                    \/ step[c] = 2 /\ w = "HandleIncomingCalls"
                    \/ step[c] = 3 /\ w = "username"
                    \/ step[c] = 4 /\ w = "passwordEncrypted"
  /\ rpc = "get" => \/ step[c] = 1 /\ w = "HandleIncomingCalls"
                    \/ step[c] = 2 /\ w = "IncomingCallsLocal"
                    \/ step[c] = 3 /\ w = "username"
                    \/ step[c] = 4 /\ w = "passwordEncrypted"

Writes(c, w) == Passes(c, "set", w) /\ EntryWritten(c, w) /\ UNCHANGED data
Misses(c, w) == Passes(c, "set", w) /\ EntryRefused(c, w) /\ UNCHANGED data
Reads(c, w) ==
  Passes(c, "get", w) /\ EntryRead(c, w) /\ UNCHANGED <<registry, refused>>
MakesUp(c, w) ==
  Passes(c, "get", w) /\ FlagOff(c, w) /\ UNCHANGED <<registry, refused>>

Agrees(c) == reply[c] = "pending" /\ step[c] = 5 /\ Configured(c)

\* Every step is one of these.
LEMMA Kinds ==
  ASSUME TypeOK, [Next]_vars
  PROVE  \/ Ends \/ UNCHANGED vars
         \/ \E c \in Clients : Begins(c) \/ Agrees(c)
         \/ \E c \in Clients, w \in Values :
              Writes(c, w) \/ Misses(c, w) \/ Reads(c, w) \/ MakesUp(c, w)
<1>1. CASE ServiceRestart
  BY <1>1 DEF ServiceRestart, Ends
<1>2. ASSUME NEW c \in Clients, Raise(c) PROVE Ends
  BY <1>2 DEF Raise, Ends
<1>3. ASSUME NEW c \in Clients, InitConfigDialog(c) \/ ConfigureProvider(c) PROVE Begins(c)
  BY <1>3 DEF InitConfigDialog, ConfigureProvider, Begins
<1>4. ASSUME NEW c \in Clients, WriteValue(c), ~Raise(c)
      PROVE  \E w \in Values : Writes(c, w) \/ Misses(c, w)
  <2> DEFINE w == SetOrder[step[c]]
  <2>1. WriteEntry(c, w) /\ InRpc(c, "set")
    BY <1>4 DEF WriteValue
  <2>2. \/ step[c] = 1 /\ w = "IncomingCallsLocal"
        \/ step[c] = 2 /\ w = "HandleIncomingCalls"
        \/ step[c] = 3 /\ w = "username"
        \/ step[c] = 4 /\ w = "passwordEncrypted"
    BY <1>4, AtWrite
  <2> HIDE DEF w
  <2>3. w \in Values
    BY <2>2 DEF Values
  <2>4. Writes(c, w) \/ Misses(c, w)
    BY <2>1, <2>2 DEF WriteEntry, Writes, Misses, Passes
  <2> QED
    BY <2>3, <2>4
<1>5. ASSUME NEW c \in Clients, ReadValue(c), ~Raise(c)
      PROVE  \E w \in Values : Reads(c, w) \/ MakesUp(c, w)
  <2> DEFINE w == GetOrder[step[c]]
  <2>1. ReadEntry(c, w) /\ InRpc(c, "get")
    BY <1>5 DEF ReadValue
  <2>2. \/ step[c] = 1 /\ w = "HandleIncomingCalls"
        \/ step[c] = 2 /\ w = "IncomingCallsLocal"
        \/ step[c] = 3 /\ w = "username"
        \/ step[c] = 4 /\ w = "passwordEncrypted"
    BY <1>5, AtRead
  <2> HIDE DEF w
  <2>3. w \in Values
    BY <2>2 DEF Values
  <2>4. Reads(c, w) \/ MakesUp(c, w)
    BY <2>1, <2>2 DEF ReadEntry, Reads, MakesUp, Passes
  <2> QED
    BY <2>3, <2>4
<1>6. ASSUME NEW c \in Clients, GetUserExtension(c), ~Raise(c) PROVE Agrees(c)
  BY <1>6 DEF GetUserExtension, Agrees
<1>7. QED
  BY <1>1, <1>2, <1>3, <1>4, <1>5, <1>6 DEF Next, Serve

-----------------------------------------------------------------------------
(* What the steps leave behind *)

\* Every step keeps the types.
LEMMA TypeStep == TypeOK /\ SetInv /\ [Next]_vars => TypeOK'
<1> SUFFICES ASSUME TypeOK, SetInv, [Next]_vars PROVE TypeOK'
  OBVIOUS
<1> USE DEF vars, SetInv
<1>1. CASE Ends
  BY <1>1 DEF TypeOK, Ends, NoReturn, Nothing
<1>2. ASSUME NEW c \in Clients, Begins(c) PROVE TypeOK'
  <2>1. PICK s \in Settings \cup {Nothing}, rpc \in {"get", "set"} : Begin(c, rpc, s)
    BY <1>2 DEF Begins
  <2>2. s \in [Values -> Entries \cup {"off", NoValue}]
    BY SettingsAreEntries DEF Nothing
  <2> QED
    BY <2>1, <2>2 DEF TypeOK, Begin
<1>3. ASSUME NEW c \in Clients, NEW w \in Values, Writes(c, w) PROVE TypeOK'
  <2>1. data[c] \in [Values -> Entries] /\ step[c] \in 1..4
    BY <1>3, SettingsAreEntries DEF Writes, Passes
  <2> QED
    BY <1>3, <2>1 DEF TypeOK, Writes, Passes, EntryWritten
<1>4. ASSUME NEW c \in Clients, NEW w \in Values, Misses(c, w) PROVE TypeOK'
  BY <1>4 DEF TypeOK, Misses, Passes, EntryRefused
<1>5. ASSUME NEW c \in Clients, NEW w \in Values, Reads(c, w) PROVE TypeOK'
  BY <1>5 DEF TypeOK, Reads, Passes, EntryRead
<1>6. ASSUME NEW c \in Clients, NEW w \in Values, MakesUp(c, w) PROVE TypeOK'
  BY <1>6 DEF TypeOK, MakesUp, Passes, FlagOff
<1>7. ASSUME NEW c \in Clients, Agrees(c) PROVE TypeOK'
  BY <1>7 DEF TypeOK, Agrees, Configured
<1>8. CASE UNCHANGED vars
  BY <1>8 DEF TypeOK
<1>9. QED
  BY <1>1, <1>2, <1>3, <1>4, <1>5, <1>6, <1>7, <1>8, Kinds

\* A save keeps the user's settings, and nobody takes a value out of the registry.
LEMMA SetInvStep == TypeOK /\ SetInv /\ [Next]_vars => SetInv'
<1> SUFFICES ASSUME TypeOK, SetInv, [Next]_vars PROVE SetInv'
  OBVIOUS
<1> USE DEF TypeOK, vars, InRpc, Values, Flags, SetInv, Kept
<1>1. CASE Ends
  BY <1>1 DEF Ends, NoReturn, Nothing
<1>2. ASSUME NEW c \in Clients, Begins(c) PROVE SetInv'
  <2>1. PICK rpc \in {"get", "set"}, s \in Settings \cup {Nothing} :
          Begin(c, rpc, s) /\ (rpc = "set" => s \in Settings)
    BY <1>2 DEF Begins
  <2> QED
    BY <2>1 DEF Begin
<1>3. ASSUME NEW c \in Clients, NEW w \in Values, Writes(c, w) PROVE SetInv'
  <2>1. data[c] \in Settings /\ \A v \in Values : data[c][v] # NoValue
    BY <1>3, SettingsAreEntries DEF Writes, Passes
  <2> QED
    BY <1>3, <2>1 DEF Writes, Passes, EntryWritten
<1>4. ASSUME NEW c \in Clients, NEW w \in Values, Misses(c, w) PROVE SetInv'
  BY <1>4 DEF Misses, Passes, EntryRefused
<1>5. ASSUME NEW c \in Clients, NEW w \in Values, Reads(c, w) PROVE SetInv'
  BY <1>5 DEF Reads, Passes, EntryRead
<1>6. ASSUME NEW c \in Clients, NEW w \in Values, MakesUp(c, w) PROVE SetInv'
  BY <1>6 DEF MakesUp, Passes, FlagOff
<1>7. ASSUME NEW c \in Clients, Agrees(c) PROVE SetInv'
  BY <1>7 DEF Agrees, Configured
<1>8. CASE UNCHANGED vars
  BY <1>8
<1>9. QED
  BY <1>1, <1>2, <1>3, <1>4, <1>5, <1>6, <1>7, <1>8, Kinds

\* The account is written after the flags.
LEMMA FlagsStep == TypeOK /\ SetInv /\ FlagsBeforeAccount /\ [Next]_vars => FlagsBeforeAccount'
<1> SUFFICES ASSUME TypeOK, SetInv, FlagsBeforeAccount, [Next]_vars PROVE FlagsBeforeAccount'
  OBVIOUS
<1> USE DEF TypeOK, vars, InRpc, Values, Flags, SetInv, Kept, FlagsBeforeAccount
<1>1. CASE Ends
  BY <1>1 DEF Ends, NoReturn, Nothing
<1>2. ASSUME NEW c \in Clients, Begins(c) PROVE FlagsBeforeAccount'
  <2>1. PICK rpc \in {"get", "set"}, s \in Settings \cup {Nothing} :
          Begin(c, rpc, s) /\ (rpc = "set" => s \in Settings)
    BY <1>2 DEF Begins
  <2> QED
    BY <2>1 DEF Begin
<1>3. ASSUME NEW c \in Clients, NEW w \in Values, Writes(c, w) PROVE FlagsBeforeAccount'
  <2>1. data[c] \in Settings /\ \A v \in Values : data[c][v] # NoValue
    BY <1>3, SettingsAreEntries DEF Writes, Passes
  <2> QED
    BY <1>3, <2>1 DEF Writes, Passes, EntryWritten
<1>4. ASSUME NEW c \in Clients, NEW w \in Values, Misses(c, w) PROVE FlagsBeforeAccount'
  BY <1>4 DEF Misses, Passes, EntryRefused
<1>5. ASSUME NEW c \in Clients, NEW w \in Values, Reads(c, w) PROVE FlagsBeforeAccount'
  BY <1>5 DEF Reads, Passes, EntryRead
<1>6. ASSUME NEW c \in Clients, NEW w \in Values, MakesUp(c, w) PROVE FlagsBeforeAccount'
  BY <1>6 DEF MakesUp, Passes, FlagOff
<1>7. ASSUME NEW c \in Clients, Agrees(c) PROVE FlagsBeforeAccount'
  BY <1>7 DEF Agrees, Configured
<1>8. CASE UNCHANGED vars
  BY <1>8
<1>9. QED
  BY <1>1, <1>2, <1>3, <1>4, <1>5, <1>6, <1>7, <1>8, Kinds

\* What a save has written stays until somebody else writes it.
LEMMA SetOwnStep == TypeOK /\ SetInv /\ SetOwn /\ [Next]_vars => SetOwn'
<1> SUFFICES ASSUME TypeOK, SetInv, SetOwn, [Next]_vars PROVE SetOwn'
  OBVIOUS
<1> USE DEF TypeOK, vars, InRpc, Values, Flags, SetInv, SetOwn, Own
<1>1. CASE Ends
  BY <1>1 DEF Ends, NoReturn, Nothing
<1>2. ASSUME NEW c \in Clients, Begins(c) PROVE SetOwn'
  <2>1. PICK rpc \in {"get", "set"}, s \in Settings \cup {Nothing} :
          Begin(c, rpc, s) /\ (rpc = "set" => s \in Settings)
    BY <1>2 DEF Begins
  <2> QED
    BY <2>1 DEF Begin
<1>3. ASSUME NEW c \in Clients, NEW w \in Values, Writes(c, w) PROVE SetOwn'
  <2>1. data[c] \in Settings /\ \A v \in Values : data[c][v] # NoValue
    BY <1>3, SettingsAreEntries DEF Writes, Passes
  <2> QED
    BY <1>3, <2>1 DEF Writes, Passes, EntryWritten
<1>4. ASSUME NEW c \in Clients, NEW w \in Values, Misses(c, w) PROVE SetOwn'
  BY <1>4 DEF Misses, Passes, EntryRefused
<1>5. ASSUME NEW c \in Clients, NEW w \in Values, Reads(c, w) PROVE SetOwn'
  BY <1>5 DEF Reads, Passes, EntryRead
<1>6. ASSUME NEW c \in Clients, NEW w \in Values, MakesUp(c, w) PROVE SetOwn'
  BY <1>6 DEF MakesUp, Passes, FlagOff
<1>7. ASSUME NEW c \in Clients, Agrees(c) PROVE SetOwn'
  BY <1>7 DEF Agrees, Configured
<1>8. CASE UNCHANGED vars
  BY <1>8
<1>9. QED
  BY <1>1, <1>2, <1>3, <1>4, <1>5, <1>6, <1>7, <1>8, Kinds

\* What was read stays true until somebody writes it.
LEMMA GetOwnStep == TypeOK /\ SetInv /\ GetOwn /\ [Next]_vars => GetOwn'
<1> SUFFICES ASSUME TypeOK, SetInv, GetOwn, [Next]_vars PROVE GetOwn'
  OBVIOUS
<1> USE DEF TypeOK, vars, InRpc, Values, Flags, SetInv, GetOwn, Own, Told
<1>1. CASE Ends
  BY <1>1 DEF Ends, NoReturn, Nothing
<1>2. ASSUME NEW c \in Clients, Begins(c) PROVE GetOwn'
  <2>1. PICK rpc \in {"get", "set"}, s \in Settings \cup {Nothing} :
          Begin(c, rpc, s) /\ (rpc = "set" => s \in Settings)
    BY <1>2 DEF Begins
  <2> QED
    BY <2>1 DEF Begin
<1>3. ASSUME NEW c \in Clients, NEW w \in Values, Writes(c, w) PROVE GetOwn'
  <2>1. data[c] \in Settings /\ \A v \in Values : data[c][v] # NoValue
    BY <1>3, SettingsAreEntries DEF Writes, Passes
  <2> QED
    BY <1>3, <2>1 DEF Writes, Passes, EntryWritten
<1>4. ASSUME NEW c \in Clients, NEW w \in Values, Misses(c, w) PROVE GetOwn'
  BY <1>4 DEF Misses, Passes, EntryRefused
<1>5. ASSUME NEW c \in Clients, NEW w \in Values, Reads(c, w) PROVE GetOwn'
  BY <1>5 DEF Reads, Passes, EntryRead
<1>6. ASSUME NEW c \in Clients, NEW w \in Values, MakesUp(c, w) PROVE GetOwn'
  BY <1>6 DEF MakesUp, Passes, FlagOff
<1>7. ASSUME NEW c \in Clients, Agrees(c) PROVE GetOwn'
  BY <1>7 DEF Agrees, Configured
<1>8. CASE UNCHANGED vars
  BY <1>8
<1>9. QED
  BY <1>1, <1>2, <1>3, <1>4, <1>5, <1>6, <1>7, <1>8, Kinds

\* At the last step all four values agree.
LEMMA RegistryStep == TypeOK /\ ConfigInv /\ [Next]_vars => ConfiguredIsTheRegistry'
<1> SUFFICES ASSUME TypeOK, ConfigInv, [Next]_vars PROVE ConfiguredIsTheRegistry'
  OBVIOUS
<1> USE DEF TypeOK, vars, InRpc, Values, Flags, ConfigInv, SetInv, SetOwn, GetOwn, Own, Told,
            Kept, FlagsBeforeAccount, ConfiguredIsTheRegistry
<1>1. CASE Ends
  BY <1>1 DEF Ends, NoReturn, Nothing
<1>2. ASSUME NEW c \in Clients, Begins(c) PROVE ConfiguredIsTheRegistry'
  <2>1. PICK rpc \in {"get", "set"}, s \in Settings \cup {Nothing} :
          Begin(c, rpc, s) /\ (rpc = "set" => s \in Settings)
    BY <1>2 DEF Begins
  <2> QED
    BY <2>1 DEF Begin
<1>3. ASSUME NEW c \in Clients, NEW w \in Values, Writes(c, w) PROVE ConfiguredIsTheRegistry'
  <2>1. data[c] \in Settings /\ \A v \in Values : data[c][v] # NoValue
    BY <1>3, SettingsAreEntries DEF Writes, Passes
  <2> QED
    BY <1>3, <2>1 DEF Writes, Passes, EntryWritten
<1>4. ASSUME NEW c \in Clients, NEW w \in Values, Misses(c, w) PROVE ConfiguredIsTheRegistry'
  BY <1>4 DEF Misses, Passes, EntryRefused
<1>5. ASSUME NEW c \in Clients, NEW w \in Values, Reads(c, w) PROVE ConfiguredIsTheRegistry'
  BY <1>5 DEF Reads, Passes, EntryRead
<1>6. ASSUME NEW c \in Clients, NEW w \in Values, MakesUp(c, w) PROVE ConfiguredIsTheRegistry'
  BY <1>6 DEF MakesUp, Passes, FlagOff
<1>7. ASSUME NEW c \in Clients, Agrees(c) PROVE ConfiguredIsTheRegistry'
  BY <1>7 DEF Agrees, Configured
<1>8. CASE UNCHANGED vars
  BY <1>8
<1>9. QED
  BY <1>1, <1>2, <1>3, <1>4, <1>5, <1>6, <1>7, <1>8, Kinds

-----------------------------------------------------------------------------
LEMMA Initially == Init => TypeOK /\ ConfigInv
  BY DEF Init, Nothing, TypeOK, ConfigInv, FlagsBeforeAccount, SetInv, SetOwn, GetOwn, InRpc,
         ConfiguredIsTheRegistry, Values, Flags

LEMMA Invariant == Spec => [](TypeOK /\ ConfigInv)
<1>1. TypeOK /\ ConfigInv /\ [Next]_vars => (TypeOK /\ ConfigInv)'
  BY TypeStep, SetInvStep, FlagsStep, SetOwnStep, GetOwnStep, RegistryStep DEF ConfigInv
<1>2. QED
  BY <1>1, Initially, PTL DEF Spec

\* The variables keep their types, for any settings users may enter.
THEOREM TypeCorrect == Spec => []TypeOK
  BY Invariant, PTL

\* Whatever other RPCs write meanwhile, a client told "configured" has seen, or set, each
\* value as the registry has it, until another RPC writes that value, and unless the
\* registry refused it.
THEOREM ConfiguredByValue == Spec => []ConfiguredIsTheRegistry
<1>1. ConfigInv => ConfiguredIsTheRegistry
  BY DEF ConfigInv
<1>2. QED
  BY <1>1, Invariant, PTL

\* No account without its flags, wherever a save is cut short, but for refused flags.
THEOREM AccountHasFlags == Spec => []FlagsBeforeAccount
<1>1. ConfigInv => FlagsBeforeAccount
  BY DEF ConfigInv
<1>2. QED
  BY <1>1, Invariant, PTL

-----------------------------------------------------------------------------
(* Where values come from *)

LEMMA SettingsAreEntered == \A s \in Settings, v \in Values : s[v] \in EnteredFor(v)
  BY DEF EnteredFor

\* A value is written and read in its own place.
LEMMA EnteredStep == TypeOK /\ SetInv /\ ValuesAreEntered /\ [Next]_vars => ValuesAreEntered'
<1> SUFFICES ASSUME TypeOK, SetInv, ValuesAreEntered, [Next]_vars PROVE ValuesAreEntered'
  OBVIOUS
<1> USE DEF TypeOK, vars, ValuesAreEntered, SetInv
<1>1. CASE Ends
  BY <1>1 DEF Ends, NoReturn, Nothing
<1>2. ASSUME NEW c \in Clients, Begins(c) PROVE ValuesAreEntered'
  <2>1. PICK s \in Settings \cup {Nothing}, rpc \in {"get", "set"} : Begin(c, rpc, s)
    BY <1>2 DEF Begins
  <2>2. registry' = registry /\ data' = [data EXCEPT ![c] = s]
    BY <2>1 DEF Begin
  <2>3. \A v \in Values : s[v] \in EnteredFor(v) \cup {NoValue}
    BY SettingsAreEntered DEF Nothing
  <2> QED
    BY <2>2, <2>3
<1>3. ASSUME NEW c \in Clients, NEW w \in Values, Writes(c, w) PROVE ValuesAreEntered'
  <2>1. registry' = [registry EXCEPT ![w] = data[c][w]] /\ data' = data
    BY <1>3 DEF Writes, EntryWritten
  <2>2. data[c][w] \in EnteredFor(w)
    BY <1>3, SettingsAreEntered DEF Writes, Passes
  <2> QED
    BY <2>1, <2>2
<1>4. ASSUME NEW c \in Clients, NEW w \in Values, Misses(c, w) PROVE ValuesAreEntered'
  BY <1>4 DEF Misses, Passes, EntryRefused
<1>5. ASSUME NEW c \in Clients, NEW w \in Values, Reads(c, w) PROVE ValuesAreEntered'
  BY <1>5 DEF Reads, Passes, EntryRead
<1>6. ASSUME NEW c \in Clients, NEW w \in Values, MakesUp(c, w) PROVE ValuesAreEntered'
  BY <1>6 DEF MakesUp, Passes, FlagOff
<1>7. ASSUME NEW c \in Clients, Agrees(c) PROVE ValuesAreEntered'
  BY <1>7 DEF Agrees, Configured
<1>8. CASE UNCHANGED vars
  BY <1>8
<1>9. QED
  BY <1>1, <1>2, <1>3, <1>4, <1>5, <1>6, <1>7, <1>8, Kinds

\* No value is taken for another one's, however saves and reads interleave.
THEOREM ValuesInPlace == Spec => []ValuesAreEntered
<1>1. Init => ValuesAreEntered
  BY DEF Init, Nothing, ValuesAreEntered
<1>2. TypeOK /\ ConfigInv /\ ValuesAreEntered /\ [Next]_vars => ValuesAreEntered'
  BY EnteredStep DEF ConfigInv
<1> QED
  BY <1>1, <1>2, Invariant, PTL DEF Spec

-----------------------------------------------------------------------------
(* What is found *)

\* A step takes nothing out of the registry, and makes up no flag of an account.
LEMMA FoundStep ==
  ASSUME TypeOK, ConfigInv, [Next]_vars
  PROVE  /\ \A v \in Values : registry[v] # NoValue => registry'[v] # NoValue
         /\ \A d \in Clients, f \in Flags :
              /\ InRpc(d, "get") /\ reply'[d] = "pending"
              /\ registry["username"] # NoValue /\ data'[d][f] # data[d][f]
              => data'[d][f] = registry[f] \/ f \in failed'[d] \cup refused
<1> DEFINE Found ==
      /\ \A v \in Values : registry[v] # NoValue => registry'[v] # NoValue
      /\ \A d \in Clients, f \in Flags :
           /\ InRpc(d, "get") /\ reply'[d] = "pending"
           /\ registry["username"] # NoValue /\ data'[d][f] # data[d][f]
           => data'[d][f] = registry[f] \/ f \in failed'[d] \cup refused
<1> USE DEF TypeOK, vars, InRpc
<1>1. CASE Ends \/ UNCHANGED vars
  BY <1>1 DEF Ends, NoReturn
<1>2. ASSUME NEW c \in Clients, Begins(c) PROVE Found
  BY <1>2 DEF Begins, Begin
<1>3. ASSUME NEW c \in Clients, NEW w \in Values, Writes(c, w) \/ Misses(c, w) PROVE Found
  <2>1. \A v \in Values : data[c][v] # NoValue
    BY <1>3, SettingsAreEntries DEF Writes, Misses, Passes, ConfigInv, SetInv
  <2> QED
    BY <1>3, <2>1 DEF Writes, Misses, EntryWritten, EntryRefused
<1>4. ASSUME NEW c \in Clients, NEW w \in Values, Reads(c, w) PROVE Found
  BY <1>4 DEF Reads, EntryRead, Flags, Values
<1>5. ASSUME NEW c \in Clients, NEW w \in Values, MakesUp(c, w) PROVE Found
  <2>1. registry["username"] # NoValue => \A f \in Flags : Kept(f)
    BY DEF ConfigInv, FlagsBeforeAccount, Values, Flags
  <2> QED
    BY <1>5, <2>1 DEF MakesUp, FlagOff, Kept, Flags, Values
<1>6. ASSUME NEW c \in Clients, Agrees(c) PROVE Found
  BY <1>6 DEF Agrees, Configured
<1> QED
  BY <1>1, <1>2, <1>3, <1>4, <1>5, <1>6, Kinds

\* What has been saved is found, and its flags told as they are, by every read that comes
\* to a flag later.
THEOREM SavedIsThere == Spec => SavedIsFound
<1> DEFINE Found ==
      /\ \A v \in Values : registry[v] # NoValue => registry'[v] # NoValue
      /\ \A c \in Clients, f \in Flags :
           /\ InRpc(c, "get") /\ reply'[c] = "pending"
           /\ registry["username"] # NoValue /\ data'[c][f] # data[c][f]
           => data'[c][f] = registry[f] \/ f \in failed'[c] \cup refused
<1>1. (TypeOK /\ ConfigInv) /\ [Next]_vars => [Found]_vars
  BY FoundStep
<1> QED
  BY <1>1, Invariant, PTL DEF Spec, SavedIsFound

=============================================================================
