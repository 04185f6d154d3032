------------------------------ MODULE MCStores ------------------------------
(***************************************************************************)
(* What the application keeps on disk, side by side for TLC: one behaviour *)
(* follows one part, named by `part', and leaves the others in their       *)
(* initial states.  The parts share no state.  The part "pattern" takes no *)
(* step: each of its initial states is one match to be looked at.          *)
(***************************************************************************)
EXTENDS KnownHosts, ConfigStore, KeyringIndex, SecretFile

CONSTANTS Parts,       \* the parts a run follows
          PatternLen,  \* length of the longest pattern, and one more than of the longest string
          IPv6Port     \* the port of the IPv6 address

ASSUME PatternAssumption == PatternLen \in Nat \ {0}

VARIABLES part, probe

allVars == <<part, probe, hostVars, cfgVars, ringVars, vaultVars>>

Texts(n, chars) == UNION {[1 .. m -> chars] : m \in 0 .. n}
Probes == Texts(PatternLen, {"a", "b", "*", "?"}) \X Texts(PatternLen - 1, {"a", "b"})

\* A name on the default port and an IPv6 address, as net.JoinHostPort writes them.
MCHostTexts == {<<"a", ":", "22">>, <<"[", ":", ":", "1", "]", ":", IPv6Port>>}
\* No file; and one with a hashed line, and a line of two patterns one of which has a star.
MCHostFiles == {
  {},
  {[hosts |-> {<<"|", "a">>}, key |-> "B"],
   [hosts |-> {<<"a">>, <<"[", "*", "1", "]", ":", "2222">>}, key |-> "A"]}}

Init ==
  /\ part \in Parts
  /\ HostInit /\ CfgInit /\ RingInit /\ VaultInit
  /\ part # "hosts" => hostFile = {} /\ emitter
  /\ probe \in IF part = "pattern" THEN Probes ELSE {<<<<>>, <<>>>>}

OnHosts(A) == part = "hosts" /\ A /\ UNCHANGED <<part, probe, cfgVars, ringVars, vaultVars>>
OnConfig(A) == part = "config" /\ A /\ UNCHANGED <<part, probe, hostVars, ringVars, vaultVars>>
OnRing(A) == part = "ring" /\ A /\ UNCHANGED <<part, probe, hostVars, cfgVars, vaultVars>>
OnVault(A) == part = "vault" /\ A /\ UNCHANGED <<part, probe, hostVars, cfgVars, ringVars>>

Next == OnHosts(HostNext) \/ OnConfig(CfgNext) \/ OnRing(RingNext) \/ OnVault(VaultNext)

Spec == Init /\ [][Next]_allVars

\* Goroutines run on: a callback whose timer runs, and a ReplyTrust whose timer runs.
Fairness ==
  /\ \A c \in HostCalls : WF_allVars(OnHosts(CallStep(c)))
  /\ \A r \in Answers : WF_allVars(OnHosts(AnswerStep(r)))

LiveSpec == Spec /\ Fairness

TypeOK == HostTypeOK /\ CfgTypeOK /\ RingTypeOK /\ VaultTypeOK

\* A pattern matches exactly the strings that can be cut into pieces along it, of all patterns
\* and strings up to a length, with stars in a row, at either end and before the empty string
\* (wildcardMatch).
MatchIsReference == WildcardMatch(probe[1], probe[2]) = MatchesByCut(probe[1], probe[2])
=============================================================================
