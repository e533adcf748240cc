---------------------------- MODULE ShareString -----------------------------
(***************************************************************************)
(* The share-string an operator hands to clients: buildShareString with    *)
(* base58Encode (cmd/mxtr-server/share_string.go), from what main() lets   *)
(* through, and the test client's parseShareString with base58Decode       *)
(* (cmd/mxtr-testclient-v2/main.go).                                       *)
(*                                                                         *)
(* A base58 text is the sequence of its digits.  It contains neither "@"   *)
(* nor ":" nor "?", so the string falls into its user part, its authority  *)
(* and its query; the authority is kept as characters, of which "4" is an  *)
(* IPv4 literal and "9" a port.                                            *)
(***************************************************************************)
EXTENDS Integers, Sequences, SequencesExt

CONSTANT
    KeyLen          \* bytes of a PSK a client takes, 32

ASSUME ShareAssumption == KeyLen \in Nat \ {0}

Bracketed == <<"[", "6", ":", "6", "]">>
Placeholder == <<"?">>          \* <YOUR-PUBLIC-IP>

-----------------------------------------------------------------------------
(* Numbers as sequences of digits, most significant first: math/big *)

ValueOf(digits, base) == FoldLeft(LAMBDA n, d : n * base + d, 0, digits)

DigitsOf(n, base) ==
    LET k == CHOOSE k \in 0 .. 8 : base ^ k > n /\ (k = 0 \/ base ^ (k - 1) <= n)
    IN  [i \in 1 .. k |-> (n \div base ^ (k - i)) % base]

LeadingZeros(s) == CHOOSE k \in 0 .. Len(s) :
    /\ \A i \in 1 .. k : s[i] = 0
    /\ k = Len(s) \/ s[k + 1] # 0

Zeros(k) == [i \in 1 .. k |-> 0]

\* Mutant: leading zero bytes are lost in the number.
EncodeValue(bytes) == DigitsOf(ValueOf(bytes, 256), 58)

base58Encode(bytes) == Zeros(LeadingZeros(bytes)) \o DigitsOf(ValueOf(bytes, 256), 58)

base58Decode(digits) == Zeros(LeadingZeros(digits)) \o DigitsOf(ValueOf(digits, 58), 256)

-----------------------------------------------------------------------------
\* host is the literal of -public-ip, addr the listen address, sni a name or "".
buildShareString(psk, host, addr, sni) ==
    [user |-> base58Encode(psk),
     authority |-> host \o <<":">> \o (IF addr[1] = ":" THEN Tail(addr) ELSE addr),
     sni |-> sni]

\* url.Parse, Hostname and Port: a host with a colon needs brackets.
SplitAuthority(a) ==
    LET i == SelectLastInSubSeq(a, 1, Len(a), LAMBDA ch : ch = ":")
        host == SubSeq(a, 1, i - 1)
        bracketed == host[1] = "[" /\ Last(host) = "]"
    IN  [ok |-> bracketed \/ ~\E k \in DOMAIN host : host[k] = ":",
         host |-> IF bracketed THEN SubSeq(host, 2, Len(host) - 1) ELSE host,
         port |-> SubSeq(a, i + 1, Len(a))]

isIPLiteral(h) == h \in {<<"4">>, <<"6", ":", "6">>}

Refused == [ok |-> FALSE]

parseShareString(s) ==
    LET psk == base58Decode(s.user)
        at == SplitAuthority(s.authority)
    IN  IF Len(psk) = KeyLen /\ at.ok /\ isIPLiteral(at.host) /\ at.port = <<"9">>
        THEN [ok |-> TRUE, psk |-> psk, host |-> at.host, port |-> at.port, sni |-> s.sni]
        ELSE Refused
=============================================================================
