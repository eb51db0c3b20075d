----------------------------- MODULE MCCallInfo -----------------------------
(* Instances of CallInfo for TLC: see the configurations MCCallInfo*.cfg. *)
EXTENDS CallInfo

Text(bytes, chars) == [bytes |-> bytes, chars |-> chars, code |-> "utf8"]
Broken == [bytes |-> 2, chars |-> 0, code |-> "other"]

Message(c, number, local, name, callee, calleeName) ==
  [call |-> c, call_caller_number |-> number, call_caller_number_local |-> local,
   call_caller_name |-> name, call_callee_number |-> callee, call_callee_name |-> calleeName]

\* Two calls: every text there; no callee's name; an empty one, that is replaced; a
\* name with letters of two bytes; a caller's name that is no UTF-8, or is empty.
MCMessages ==
  {Message("c1", Text(4, 4), Text(3, 3), Text(3, 2), Text(2, 2), Text(3, 3)),
   Message("c1", Text(4, 4), Text(3, 3), Text(0, 0), Text(2, 2), Text(0, 0)),
   Message("c1", Text(4, 4), NoText, Broken, Text(2, 2), Text(0, 0)),
   Message("c2", Text(5, 5), Text(5, 5), Text(1, 1), NoText, NoText),
   Message("c2", NoText, NoText, NoText, Text(2, 2), Text(4, 2)),
   Message("c2", Text(0, 0), Text(0, 0), Text(4, 2), Text(6, 3), Text(0, 0))}
=============================================================================
