----------------------------- MODULE Allowlist ------------------------------
(***************************************************************************)
(* From the payload of an OPEN to the address that is dialled: the test    *)
(* client's encoding of a target, parseTarget (cmd/mxtr-server/main.go),   *)
(* and the target allowlist (cmd/mxtr-server/allowlist.go).                *)
(*                                                                         *)
(* Text is a sequence of characters: "a" and "A" stand for the letters,    *)
(* "1" and "2" for whole IPv4 literals, and <<"6", ":", "6">> for an IPv6  *)
(* literal; each kind has a second spelling.  A payload is its type, the   *)
(* length byte of a domain and the bytes that follow, the last two of      *)
(* which are the port.                                                     *)
(***************************************************************************)
EXTENDS Integers, Sequences, SequencesExt

IPv6 == <<"6", ":", "6">>
NoLength == -1

\* "1" as an IPv6 address that maps it, IPv6 with a group of zeros written out, and
\* the address that is IPv6 with a group pq behind it.
Mapped == <<":", ":", "1">>
WithZeros == <<"6", ":", "0", ":", "6">>
Longer == IPv6 \o <<":", "p", "q">>

-----------------------------------------------------------------------------
(* Packages strings and net *)

ToLower(s) == [i \in DOMAIN s |-> IF s[i] = "A" THEN "a" ELSE s[i]]
TrimPrefix(s, p) == IF IsPrefix(p, s) THEN SubSeq(s, Len(p) + 1, Len(s)) ELSE s
TrimSuffix(s, p) == IF IsSuffix(p, s) THEN SubSeq(s, 1, Len(s) - Len(p)) ELSE s
Has(s, ch) == \E i \in DOMAIN s : s[i] = ch
ContainsDotDot(s) == \E i \in 1 .. Len(s) - 1 : s[i] = "." /\ s[i + 1] = "."
IsIP(s) == s \in {<<"1">>, <<"2">>, Mapped, IPv6, WithZeros, Longer}

\* net.ParseIP, the address given by its usual spelling, which is IP.String.
ParseIP(s) == CASE s = Mapped -> <<"1">> [] s = WithZeros -> IPv6 [] OTHER -> s

\* strings.Trim(s, "[]")
Brackets == {"[", "]"}
TrimBrackets(s) ==
    LET other == {i \in DOMAIN s : s[i] \notin Brackets}
    IN  IF other = {} THEN <<>> ELSE SubSeq(s, Min(other), Max(other))

\* net.SplitHostPort: the host, or an error.
SplitHostPort(addr) ==
    LET i == SelectLastInSubSeq(addr, 1, Len(addr), LAMBDA ch : ch = ":")
        host == SubSeq(addr, 1, i - 1)
        bare == SubSeq(host, 2, Len(host) - 1)
    IN  IF host # <<>> /\ host[1] = "["
        THEN [ok |-> Last(host) = "]" /\ ~Has(bare, "[") /\ ~Has(bare, "]"), host |-> bare]
        ELSE [ok |-> ~Has(host, ":") /\ ~Has(host, "[") /\ ~Has(host, "]"), host |-> host]

-----------------------------------------------------------------------------
(* The target of an OPEN *)

\* session.open sends every host as a domain.
Encode(host, port) == [type |-> "domain", dlen |-> Len(host), body |-> host \o port]

\* The length each type must have, the type and length bytes left aside.
BodyLen(p) == CASE p.type = "ipv4" -> 4 + 2
                [] p.type = "ipv6" -> 16 + 2
                [] p.type = "domain" -> p.dlen + 2

\* Mutant: what follows the port is ignored.
WellFormedLoosely(p) ==
    /\ p.type \in {"ipv4", "ipv6", "domain"}
    /\ p.type = "domain" => p.dlen # NoLength
    /\ Len(p.body) >= BodyLen(p)

WellFormed(p) ==
    /\ p.type \in {"ipv4", "ipv6", "domain"}
    /\ p.type = "domain" => p.dlen # NoLength
    /\ Len(p.body) = BodyLen(p)

\* net.IP.String, of addresses whose bytes are all alike.
IPText(type, octets) == IF type = "ipv4" THEN <<octets[1]>> ELSE IPv6

\* The address of a well-formed payload.
parseTarget(p) ==
    LET n == Len(p.body) - 2
        host == SubSeq(p.body, 1, n)
        port == <<":">> \o SubSeq(p.body, n + 1, n + 2)
    IN  CASE p.type = "domain" -> host \o port
          [] p.type = "ipv4" -> IPText("ipv4", host) \o port
          [] p.type = "ipv6" -> <<"[">> \o IPText("ipv6", host) \o <<"]">> \o port

-----------------------------------------------------------------------------
(* parseAllowList *)

\* Letters, digits, hyphens and dots, and no label begins or ends in a hyphen.
isValidHostnameChars(s) ==
    /\ \A i \in DOMAIN s : s[i] \in {"a", "1", "2", "-", "."}
    /\ \A i \in DOMAIN s : s[i] = "-" =>
           /\ 1 < i /\ i < Len(s)
           /\ s[i - 1] # "." /\ s[i + 1] # "."

Trimmed(raw) == TrimSuffix(TrimPrefix(ToLower(raw), <<"*", ".">>), <<".">>)

\* More than one label, and no empty one between others (M2-04).
KeepsDomain(e) == Has(e, ".") /\ ~ContainsDotDot(e) /\ isValidHostnameChars(e)

\* The entries of the list, addresses in their usual spelling; one that is empty or
\* refused is left out.
parseAllowList(sp) ==
    {[value |-> ParseIP(Trimmed(raw)), isIP |-> IsIP(Trimmed(raw))] :
         raw \in {r \in sp : LET e == Trimmed(r)
                             IN  e # <<>> /\ (IsIP(e) \/ KeepsDomain(e))}}

-----------------------------------------------------------------------------
(* isTargetAllowed *)

\* Mutant: a suffix of characters, not of labels.
MatchesAnySuffix(h, e) ==
    IF e.isIP THEN IsIP(h) /\ ParseIP(h) = e.value ELSE ~IsIP(h) /\ IsSuffix(e.value, h)

Matches(h, e) ==
    IF e.isIP
    THEN IsIP(h) /\ ParseIP(h) = e.value
    ELSE ~IsIP(h) /\ (h = e.value \/ IsSuffix(<<".">> \o e.value, h))

Normalized(h) == TrimSuffix(ToLower(TrimBrackets(h)), <<".">>)

isTargetAllowed(allowedDomains, dialAddr) ==
    LET split == SplitHostPort(dialAddr)
        h == Normalized(IF split.ok THEN split.host ELSE dialAddr)
    IN  \/ allowedDomains = {}
        \/ /\ h # <<>> /\ ~ContainsDotDot(h)
           /\ \E e \in allowedDomains : Matches(h, e)

-----------------------------------------------------------------------------
\* handleOpen up to the dial, which takes an address that can be split only.
handleOpen(allowedDomains, p) ==
    CASE ~WellFormed(p) -> [verdict |-> "bad target", addr |-> <<>>]
      [] WellFormed(p) /\ ~isTargetAllowed(allowedDomains, parseTarget(p)) ->
             [verdict |-> "not allowed", addr |-> parseTarget(p)]
      [] WellFormed(p) /\ isTargetAllowed(allowedDomains, parseTarget(p)) ->
             [verdict |-> IF SplitHostPort(parseTarget(p)).ok THEN "dial" ELSE "dial failed",
              addr |-> parseTarget(p)]

-----------------------------------------------------------------------------
(* The reference: payloads by what they encode, domains as sequences of labels *)

\* The payload stands for the host, in one of the three ways.
Encodes(p, host, port) ==
    \/ p = Encode(host, port)
    \/ /\ p.type = "ipv4" /\ host \in {<<"1">>, <<"2">>}
       /\ p.body = [i \in 1 .. 4 |-> host[1]] \o port
    \/ /\ p.type = "ipv6" /\ host = IPv6
       /\ p.body = [i \in 1 .. 16 |-> "6"] \o port

\* The labels of a name, lower case; a name with a trailing dot ends in <<>>.
Labels(s) ==
    LET dots == {0, Len(s) + 1} \cup {i \in DOMAIN s : s[i] = "."}
        cut == SetToSortSeq(dots, LAMBDA i, j : i < j)
    IN  [k \in 1 .. Len(cut) - 1 |-> ToLower(SubSeq(s, cut[k] + 1, cut[k + 1] - 1))]

Rooted(ls) == IF Len(ls) > 1 /\ Last(ls) = <<>> THEN Front(ls) ELSE ls
Starless(ls) == IF Len(ls) > 1 /\ Head(ls) = <<"*">> THEN Tail(ls) ELSE ls

\* A host may be put in a pair of brackets.
Bare(h) == IF Len(h) > 1 /\ h[1] = "[" /\ Last(h) = "]" THEN SubSeq(h, 2, Len(h) - 1) ELSE h

Name(h) == Rooted(Labels(Bare(h)))
Domain(raw) == Rooted(Starless(Labels(raw)))

IsName(ls) ==
    \A k \in DOMAIN ls : /\ ls[k] # <<>>
                         /\ \A i \in DOMAIN ls[k] : ls[k][i] \in {"a", "1", "2", "-"}
                         /\ ls[k][1] # "-" /\ Last(ls[k]) # "-"

\* The spellings of one address.
SameAddress(a, b) ==
    \E spellings \in {{<<"1">>, Mapped}, {<<"2">>}, {IPv6, WithZeros}, {Longer}} :
        {a, b} \subseteq spellings

IsAddress(ls) == Len(ls) = 1 /\ SameAddress(ls[1], ls[1])

\* The entry raw lists the host h: the same address, or the same domain or one
\* above it, of at least two labels.
Lists(raw, h) ==
    IF IsAddress(Domain(raw))
    THEN IsAddress(Name(h)) /\ SameAddress(Name(h)[1], Domain(raw)[1])
    ELSE Len(Domain(raw)) > 1 /\ IsSuffix(Domain(raw), Name(h))
=============================================================================
