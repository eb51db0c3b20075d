----------------------------- MODULE ConfigStore -----------------------------
(***************************************************************************)
(* The configuration (nuacomsrv/Server.cpp: SetConfigInfo, GetConfigInfo)   *)
(* and the tray program's dialog that loads and saves it (config.cpp).      *)
(*                                                                          *)
(* The configuration is four registry values.  Each RPC runs on a thread of *)
(* its own and reads or writes the values one by one, with no lock: two     *)
(* dialogs, in two users' sessions, or a dialog and a connecting line       *)
(* interleave at every value, and the service may end between two.  The     *)
(* registry survives it.  When all is read or written, the account is tried *)
(* at the cloud, which may also be out of reach.                            *)
(*                                                                          *)
(* The registry may refuse a write, or the reading of a flag: the code tests *)
(* neither and goes on.                                                      *)
(***************************************************************************)
EXTENDS Naturals, Sequences

CONSTANTS
  Clients,   \* dialogs, and lines that connect: one RPC at a time each
  Settings,  \* what users may enter: a function of the four values
  Accounts,  \* the pairs of name and password the cloud accepts
  NoValue    \* a registry value that is not there

Values == {"IncomingCallsLocal", "HandleIncomingCalls", "username", "passwordEncrypted"}
Flags  == {"IncomingCallsLocal", "HandleIncomingCalls"}

Entries == UNION {{s[v] : v \in Values} : s \in Settings}

ASSUME SettingsAssumption ==
  /\ \A s \in Settings : s = [v \in Values |-> s[v]]
  /\ NoValue \notin Entries \cup {"off"}

\* Mutant: SetConfigInfo writes the account before the flags.
SetOrder_account == <<"username", "passwordEncrypted", "IncomingCallsLocal", "HandleIncomingCalls">>

\* Mutant: both flags are written under one name.
SetOrder_twice == <<"IncomingCallsLocal", "IncomingCallsLocal", "username", "passwordEncrypted">>

\* The values in the order SetConfigInfo writes them.
SetOrder == <<"IncomingCallsLocal", "HandleIncomingCalls", "username", "passwordEncrypted">>

\* The values in the order GetConfigInfo reads them.
GetOrder == <<"HandleIncomingCalls", "IncomingCallsLocal", "username", "passwordEncrypted">>

Nothing == [v \in Values |-> NoValue]

VARIABLES
  registry,
  call,     \* per client: its last RPC, "set" or "get", or "none"
  reply,    \* per client: how that ended, or "pending"
  step,     \* per client: the value the RPC is at, or the account after the last
  data,     \* per client: the settings passed in, or the out parameters so far
  message,  \* per client: the dialog's IDC_STATUSMESSAGE
  \* history, read by no action
  others,   \* per client: the values others have written since its RPC came to them
  failed,   \* per client: the values its RPC failed to write, or to read though there
  refused   \* values not in the registry because a write was refused

vars == <<registry, call, reply, step, data, message, others, failed, refused>>

Init ==
  /\ registry = Nothing
  /\ call = [c \in Clients |-> "none"]
  /\ reply = [c \in Clients |-> "none"]
  /\ step = [c \in Clients |-> 1]
  /\ data = [c \in Clients |-> Nothing]
  /\ message = [c \in Clients |-> "none"]
  /\ others = [c \in Clients |-> {}] /\ failed = [c \in Clients |-> {}] /\ refused = {}

-----------------------------------------------------------------------------
(* The RPCs *)

\* An RPC begins: SetConfigInfo opens or creates the key, GetConfigInfo opens it.
\* When SetConfigInfo cannot (RegCreateKeyEx), every write of it is refused.
Begin(c, rpc, in) ==
  /\ reply[c] # "pending"
  /\ call' = [call EXCEPT ![c] = rpc]
  /\ reply' = [reply EXCEPT ![c] = "pending"]
  /\ step' = [step EXCEPT ![c] = 1]
  /\ data' = [data EXCEPT ![c] = in]
  /\ message' = [message EXCEPT ![c] = "none"]
  /\ others' = [others EXCEPT ![c] = {}]
  /\ failed' = [failed EXCEPT ![c] = {}]
  /\ UNCHANGED <<registry, refused>>

InRpc(c, rpc) == reply[c] = "pending" /\ call[c] = rpc

\* RPCs end without returning: out parameters have no value then, nor does the client
\* learn what became of the others.
NoReturn(cs, how) ==
  /\ reply' = [c \in Clients |-> IF c \in cs THEN how ELSE reply[c]]
  /\ message' = [c \in Clients |-> IF c \in cs THEN "number" ELSE message[c]]
  /\ data' = [c \in Clients |-> IF c \in cs THEN Nothing ELSE data[c]]
  /\ others' = [c \in Clients |-> IF c \in cs THEN {} ELSE others[c]]
  /\ failed' = [c \in Clients |-> IF c \in cs THEN {} ELSE failed[c]]
  /\ UNCHANGED <<registry, call, step, refused>>

\* An exception of the RPC, which the dialog shows by its number.
Raise(c) == NoReturn({c}, "raised")

\* RegSetValueEx writes the value.
EntryWritten(c, v) ==
  /\ registry' = [registry EXCEPT ![v] = data[c][v]]
  /\ others' = [d \in Clients |-> CASE d = c -> others[d] \ {v}
                                   [] d # c /\ reply[d] \in {"pending", "configured"}
                                        -> others[d] \cup {v}
                                   [] OTHER -> others[d]]
  /\ refused' = refused \ {v}
  /\ UNCHANGED failed

\* RegSetValueEx fails.
EntryRefused(c, v) ==
  /\ failed' = [failed EXCEPT ![c] = @ \cup {v}]
  /\ refused' = IF registry[v] = NoValue THEN refused \cup {v} ELSE refused
  /\ UNCHANGED <<registry, others>>

\* Either way SetConfigInfo goes on to the next value: nobody tests the result.
WriteEntry(c, v) ==
  /\ EntryWritten(c, v) \/ EntryRefused(c, v)
  /\ step' = [step EXCEPT ![c] = @ + 1]
  /\ UNCHANGED <<call, reply, data, message>>

\* SetConfigInfo writes a value; before the password, EncryptData may raise.
WriteValue(c) ==
  /\ InRpc(c, "set") /\ step[c] <= 4
  /\ \/ WriteEntry(c, SetOrder[step[c]])
     \/ SetOrder[step[c]] = "passwordEncrypted" /\ Raise(c)

\* RegQueryValueEx reads the value.
EntryRead(c, v) ==
  /\ registry[v] # NoValue
  /\ data' = [data EXCEPT ![c][v] = registry[v]]
  /\ others' = [others EXCEPT ![c] = @ \ {v}]
  /\ UNCHANGED failed

\* A flag that is not there, or cannot be read, is off.
FlagOff(c, v) ==
  /\ v \in Flags
  /\ data' = [data EXCEPT ![c][v] = "off"]
  /\ failed' = IF registry[v] = NoValue THEN failed ELSE [failed EXCEPT ![c] = @ \cup {v}]
  /\ UNCHANGED others

\* Mutant: each flag is read into the other one's out parameter.
ReadEntry_swapped(c, v) ==
  LET from == CASE v = "HandleIncomingCalls" -> "IncomingCallsLocal"
                [] v = "IncomingCallsLocal" -> "HandleIncomingCalls"
                [] OTHER -> v
  IN /\ v \in Flags \/ registry[v] # NoValue
     /\ data' = [data EXCEPT ![c][v] = IF registry[from] = NoValue THEN "off" ELSE registry[from]]
     /\ step' = [step EXCEPT ![c] = @ + 1]
     /\ UNCHANGED <<registry, call, reply, message, others, failed, refused>>

\* GetConfigInfo goes on to the next value.
ReadEntry(c, v) ==
  /\ EntryRead(c, v) \/ FlagOff(c, v)
  /\ step' = [step EXCEPT ![c] = @ + 1]
  /\ UNCHANGED <<registry, call, reply, message, refused>>

\* GetConfigInfo reads a value; a name or password that is not there, or cannot
\* be read or decrypted, raises.
ReadValue(c) ==
  /\ InRpc(c, "get") /\ step[c] <= 4
  /\ \/ ReadEntry(c, GetOrder[step[c]])
     \/ GetOrder[step[c]] \notin Flags /\ Raise(c)

\* bConfigured is set.
Configured(c) ==
  /\ reply' = [reply EXCEPT ![c] = "configured"]
  /\ UNCHANGED <<registry, call, step, data, message, others, failed, refused>>

\* Both RPCs end with the account's extension from the cloud, or without one.
GetUserExtension(c) ==
  /\ reply[c] = "pending" /\ step[c] = 5
  /\ \/ <<data[c]["username"], data[c]["passwordEncrypted"]>> \in Accounts /\ Configured(c)
     \/ Raise(c)

-----------------------------------------------------------------------------
(* The dialog, and the service under it *)

InitConfigDialog(c) == Begin(c, "get", Nothing)

ConfigureProvider(c) == \E s \in Settings : Begin(c, "set", s)

\* The service ends, between two values perhaps, and is started again.
ServiceRestart ==
  LET pending == {c \in Clients : reply[c] = "pending"}
  IN pending # {} /\ NoReturn(pending, "lost")

Serve(c) == WriteValue(c) \/ ReadValue(c) \/ GetUserExtension(c)

Next ==
  \/ ServiceRestart
  \/ \E c \in Clients : InitConfigDialog(c) \/ ConfigureProvider(c) \/ Serve(c)

Spec == Init /\ [][Next]_vars

-----------------------------------------------------------------------------
(* Properties *)

TypeOK ==
  /\ registry \in [Values -> Entries \cup {NoValue}]
  /\ call \in [Clients -> {"none", "set", "get"}]
  /\ reply \in [Clients -> {"none", "pending", "configured", "raised", "lost"}]
  /\ step \in [Clients -> 1..5]
  /\ data \in [Clients -> [Values -> Entries \cup {"off", NoValue}]]
  /\ message \in [Clients -> {"none", "number"}]
  /\ others \in [Clients -> SUBSET Values]
  /\ failed \in [Clients -> SUBSET Values]
  /\ refused \subseteq Values

\* A value that a save has come to is there, unless its write was refused.
Kept(v) == registry[v] # NoValue \/ v \in refused

\* However saves interleave and wherever the service ends, SetConfigInfo leaves no name
\* or password in the registry without both flags, and no password without a name,
\* unless the registry itself refused the missing value.
FlagsBeforeAccount ==
  /\ registry["passwordEncrypted"] # NoValue => Kept("username")
  /\ \A v \in Values \ Flags, f \in Flags : registry[v] # NoValue => Kept(f)

\* bConfigured speaks for each value by itself: whatever other RPCs write meanwhile and
\* wherever they end, a value that a configured client was told, or has set, is the
\* registry's until somebody else writes that very value.  Excepted are values whose
\* write or reading failed, which SetConfigInfo and GetConfigInfo do not notice.
ConfiguredIsTheRegistry ==
  \A c \in Clients : reply[c] = "configured" =>
    \A v \in Values \ (others[c] \cup failed[c] \cup refused) : data[c][v] = registry[v]

\* However RPCs interleave, what the registry holds and a client is told of a value some
\* user entered for that very value, or it is a flag made up.
EnteredFor(v) == {s[v] : s \in Settings}

ValuesAreEntered ==
  \A v \in Values :
    /\ registry[v] \in EnteredFor(v) \cup {NoValue}
    /\ \A c \in Clients :
         \/ data[c][v] \in EnteredFor(v) \cup {NoValue}
         \/ v \in Flags /\ data[c][v] = "off"

\* What has once been saved is never missing again, and a flag that GetConfigInfo reads
\* when an account is there is the saved one, never made up, if it could be written and
\* read.  (A GetConfigInfo that came to the flag before the first account was saved may
\* return that account with a flag made up.)
SavedIsFound ==
  [][/\ \A v \in Values : registry[v] # NoValue => registry'[v] # NoValue
     /\ \A c \in Clients, f \in Flags :
          /\ InRpc(c, "get") /\ reply'[c] = "pending"
          /\ registry["username"] # NoValue /\ data'[c][f] # data[c][f]
          => data'[c][f] = registry[f] \/ f \in failed'[c] \cup refused]_vars

-----------------------------------------------------------------------------
\* These do not hold.

\* config.cpp:281: "Failed to set config. Either server is unavailable or
\* username/password is incorrect": then nothing was set.  The code has written all of
\* it by then.
FailedSetWritesNothing ==
  [][\A c \in Clients : InRpc(c, "set") /\ reply'[c] = "raised" =>
       {SetOrder[i] : i \in 1..(step[c] - 1)} \subseteq failed[c]]_vars

\* A save that is reported as configured was written.  SetConfigInfo tests no result of
\* RegCreateKeyEx and RegSetValueEx: bConfigured may be set with nothing written.
ConfiguredIsWritten ==
  \A c \in Clients : call[c] = "set" /\ reply[c] = "configured" => failed[c] = {}

\* config.cpp:282: a user whose account the cloud did not accept is told "Nuacom TAPI
\* authentication failed, please check username/password".  SetConfigInfo raises an
\* exception instead of returning bConfigured unset, and the dialog shows its number.
RejectionIsNamed ==
  \A c \in Clients :
    call[c] = "set" /\ reply[c] = "raised" /\ step[c] = 5 => message[c] # "number"
=============================================================================
