----------------------------- MODULE HostPattern -----------------------------
(***************************************************************************)
(* Host patterns and addresses of known_hosts: how a text is split into    *)
(* host and port, how a pattern is written back, and the wildcard match.   *)
(* A text is a sequence of characters; a port is one token.                *)
(***************************************************************************)
EXTENDS Naturals, Sequences, SequencesExt

DefaultPort == "22"

Has(text, char) == \E i \in DOMAIN text : text[i] = char
LastColon(text) == CHOOSE i \in DOMAIN text : text[i] = ":" /\ \A j \in i + 1 .. Len(text) : text[j] # ":"

\* net.SplitHostPort accepts "host:port" and "[host]:port" and nothing else.
Bracketed(text) == Len(text) > 0 /\ text[1] = "[" /\ LastColon(text) > 1 /\ text[LastColon(text) - 1] = "]"
HostPart(text) == SubSeq(text, 1, LastColon(text) - 1)
Splits(text) ==
  /\ Has(text, ":") /\ LastColon(text) < Len(text)
  /\ LET inner == IF Bracketed(text) THEN Tail(Front(HostPart(text))) ELSE HostPart(text)
     IN  /\ ~Has(inner, "[") /\ ~Has(inner, "]")
         /\ Bracketed(text) \/ ~Has(inner, ":")
SplitHostPort(text) ==
  [host |-> IF Bracketed(text) THEN Tail(Front(HostPart(text))) ELSE HostPart(text), port |-> Last(text)]

\* What does not split is a host on the default port: also "[::1]", brackets and all.
ParseAddr(text) == IF Splits(text) THEN SplitHostPort(text) ELSE [host |-> text, port |-> DefaultPort]

\* A text without a usable host is no pattern.
IsPattern(text) == text # <<>> /\ ~Has(text, ",") /\ ParseAddr(text).host # <<>>

FormatPattern(p) ==
  CASE p.port # DefaultPort -> <<"[">> \o p.host \o <<"]", ":", p.port>>
    [] p.port = DefaultPort /\ Has(p.host, ":") -> <<"[">> \o p.host \o <<"]">>
    [] OTHER -> p.host

\* Mutant of WildcardMatch: the end of the string is looked for before the star.
MatchNoEmpty(pat, str) ==
  LET f[i \in 1 .. Len(pat) + 1, j \in 1 .. Len(str) + 1] ==
        IF i > Len(pat) THEN j > Len(str)
        ELSE /\ j <= Len(str)
             /\ \/ pat[i] = "*" /\ (f[i + 1, j] \/ f[i, j + 1])
                \/ pat[i] \in {"?", str[j]} /\ f[i + 1, j + 1]
  IN  f[1, 1]

\* The place in a pattern after the run of stars at i.
AfterStars(pat, i) == CHOOSE k \in i + 1 .. Len(pat) + 1 :
  (k > Len(pat) \/ pat[k] # "*") /\ \A s \in i .. k - 1 : pat[s] = "*"

\* wildcardMatch from position i of the pattern and j of the string, f being the matches further
\* on: a run of stars is one star, tried against every rest of the string, the empty one included.
MatchFrom(f, pat, str, i, j) ==
  IF i > Len(pat) THEN j > Len(str)
  ELSE IF pat[i] = "*"
  THEN LET next == AfterStars(pat, i)
       IN  next > Len(pat) \/ \E n \in j .. Len(str) + 1 : f[<<next, n>>]
  ELSE j <= Len(str) /\ pat[i] \in {"?", str[j]} /\ f[<<i + 1, j + 1>>]

WildcardMatch(pat, str) ==
  LET f[p \in (1 .. Len(pat) + 1) \X (1 .. Len(str) + 1)] == MatchFrom(f, pat, str, p[1], p[2])
  IN  f[<<1, 1>>]

PatternMatches(p, a) == p.port = a.port /\ WildcardMatch(p.host, a.host)

(***************************************************************************)
(* What a match means: the string can be cut into one piece per character  *)
(* of the pattern, any piece for `*', one character for `?', the same      *)
(* character otherwise.                                                    *)
(***************************************************************************)
IsCut(cut, pat, str) ==
  /\ cut[0] = 0 /\ cut[Len(pat)] = Len(str)
  /\ \A i \in 1 .. Len(pat) :
       IF pat[i] = "*" THEN cut[i] >= cut[i - 1]
       ELSE cut[i] = cut[i - 1] + 1 /\ pat[i] \in {"?", str[cut[i]]}
MatchesByCut(pat, str) == \E cut \in [0 .. Len(pat) -> 0 .. Len(str)] : IsCut(cut, pat, str)
=============================================================================
