------------------------------- MODULE Parsing ------------------------------
(***************************************************************************)
(* What the parsers of both programs make of their inputs, one call at a   *)
(* time: handleOpen on the target of an OPEN, under the list of -allow     *)
(* (module Allowlist), and a client's parseShareString on the string the   *)
(* server printed (module ShareString).                                    *)
(***************************************************************************)
EXTENDS Allowlist, ShareString

CONSTANTS
    Specs,          \* what -allow may be: sets of entries
    Targets,        \* payloads of an OPEN
    Psks,           \* PSKs, as sequences of bytes
    Ports           \* the two bytes of a port

VARIABLES
    call,           \* the call and its arguments, or NoCall
    result          \* what it returned

vars == <<call, result>>

NoCall == [fn |-> "none"]
NoResult == [verdict |-> "none"]

\* The hosts main() accepts for -public-ip, or puts in its place.
PublicHosts == {<<"4">>, <<"6", ":", "6">>, Bracketed, Placeholder}
ListenAddrs == {<<":", "9">>, <<"4", ":", "9">>, Bracketed \o <<":", "9">>}

Init == call = NoCall /\ result = NoResult

Open(sp, p) ==
    /\ call' = [fn |-> "open", spec |-> sp, payload |-> p]
    /\ result' = handleOpen(parseAllowList(sp), p)

Paste(psk, host, addr, sni) ==
    /\ call' = [fn |-> "share", psk |-> psk, host |-> host, addr |-> addr, sni |-> sni]
    /\ result' = parseShareString(buildShareString(psk, host, addr, sni))

Return == call # NoCall /\ call' = NoCall /\ result' = NoResult

Next ==
    \/ call = NoCall /\ \E sp \in Specs, p \in Targets : Open(sp, p)
    \/ call = NoCall /\ \E psk \in Psks, host \in PublicHosts, addr \in ListenAddrs,
                           sni \in {"", "cn"} : Paste(psk, host, addr, sni)
    \/ Return

Spec == Init /\ [][Next]_vars

-----------------------------------------------------------------------------
(* Properties *)

\* The host a payload stands for, if any.
Hosts(p) ==
    {h \in {SubSeq(p.body, 1, Len(p.body) - 2), <<"1">>, <<"2">>, IPv6} :
         \E port \in Ports : Encodes(p, h, port)}

\* parseTarget takes a payload just if it encodes a target, and whatever is
\* dialled is the host and the port it encodes: no length, type, trailing byte or
\* bracket makes the server dial another one.
DialsWhatWasAsked ==
    call.fn = "open" =>
        LET p == call.payload
            port == SubSeq(p.body, Len(p.body) - 1, Len(p.body))
        IN  /\ result.verdict = "bad target" <=> Hosts(p) = {}
            /\ result.verdict = "dial" =>
                   /\ SplitHostPort(result.addr).host \in {Bare(h) : h \in Hosts(p)}
                   /\ IsSuffix(<<":">> \o port, result.addr)

\* A host that can be dialled: a name or IPv4 address, in brackets or not, an IPv6
\* address in brackets, or an address by its type.
Dialable(p, h) ==
    \/ p.type # "domain"
    \/ IsName(Name(h))
    \/ IsIP(Bare(h)) /\ Bare(h) # h

\* With a list in force, a host is dialled only if an entry of the operator's
\* lists it, and a host that can be dialled and that a proper entry lists is
\* dialled in whatever spelling: nothing slips through a suffix, a trailing dot,
\* upper case, brackets or another spelling of an address, and nothing is lost by
\* them.
RelaysExactlyListed ==
    call.fn = "open" =>
        \A h \in Hosts(call.payload) :
            /\ result.verdict = "dial" /\ parseAllowList(call.spec) # {} =>
                   \E raw \in call.spec : Lists(raw, h)
            /\ result.verdict = "not allowed" =>
                   ~\E raw \in call.spec : /\ Lists(raw, h)
                                           /\ Dialable(call.payload, h)
                                           /\ IsName(Domain(raw)) \/ IsAddress(Domain(raw))

\* A string that the client takes gives it the server's own PSK, address and
\* name; and it takes the string of each server that listens on ":port", has a
\* PSK of full length, and is reached by IPv4 or by IPv6 in brackets.
SharesTheServer ==
    call.fn = "share" =>
        /\ result.ok =>
               /\ result.psk = call.psk /\ result.sni = call.sni
               /\ call.host \in {result.host, <<"[">> \o result.host \o <<"]">>}
               /\ call.addr = <<":">> \o result.port
        /\ /\ Len(call.psk) = KeyLen
           /\ call.host \in {<<"4">>, Bracketed}
           /\ call.addr = <<":", "9">>
           => result.ok
=============================================================================
