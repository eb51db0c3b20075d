----------------------------- MODULE MCConfigStore -----------------------------
(* Instances of ConfigStore for TLC: see the configurations MCConfigStore*.cfg. *)
EXTENDS ConfigStore, TLC

Setting(local, incoming, name, password) ==
  [IncomingCallsLocal |-> local, HandleIncomingCalls |-> incoming, username |-> name,
   passwordEncrypted |-> password]

\* Two accounts, with different flags.
TwoAccounts == {<<"ann", "p">>, <<"bob", "q">>}
MCSettings == {Setting("off", "on", "ann", "p"), Setting("on", "off", "bob", "q")}

Symmetry == Permutations(Clients)
=============================================================================
