----------------------------- MODULE MCParsing ------------------------------
(* Short entries, hosts and keys, for TLC. *)
EXTENDS Parsing

\* Entries of up to four characters and hosts of up to five; "a.a" with its
\* neighbours "aa.a", "a.a.a", "A.a." and ".a.a" are among them.  Addresses come in
\* each spelling, and a few hosts with brackets that match or do not.
Literals == {<<"1">>, <<"2">>, Mapped, IPv6, WithZeros, Longer}
Entries == BoundedSeq({"a", "A", ".", "-", "*"}, 4) \cup Literals \cup {<<"2", ".">>}
Pairs == {[open |-> <<"[">>, close |-> <<"]">>], [open |-> <<"[">>, close |-> <<>>],
          [open |-> <<>>, close |-> <<"]">>], [open |-> <<"[", "[">>, close |-> <<"]", "]">>]}
Names == BoundedSeq({"a", "A", "."}, 5) \cup Literals \cup {<<"a", ".", "1">>, <<"[", "]">>}
         \cup {b.open \o h \o b.close : b \in Pairs,
                   h \in Literals \cup {<<"a", ".", "a">>, <<"A", ".", "a", ".">>}}

\* No -allow; one entry; two entries.
NoneOneOrTwo == {{}, {<<"1">>, <<"a", ".", "a">>}, {<<"a">>, <<"a", ".", "a">>}}
                \cup {{e} : e \in Entries}

Port == <<"p", "q">>
Octets(n, o) == [i \in 1 .. n |-> o]
Addresses == {[type |-> "ipv4", dlen |-> NoLength, body |-> Octets(4, o) \o Port] : o \in {"1", "2"}}
             \cup {[type |-> "ipv6", dlen |-> NoLength, body |-> Octets(16, "6") \o Port]}

\* Bytes that no program sends: too short, too long, of no type, or with a length
\* that is not the length.
Garbled ==
    {[t EXCEPT !.body = Front(@)] : t \in Addresses}
    \cup {[t EXCEPT !.body = Append(@, "q")] : t \in Addresses}
    \cup {[Encode(<<"a", ".", "a">>, Port) EXCEPT !.dlen = n] : n \in {NoLength, 0, 2, 4, 5}}
    \cup {[t EXCEPT !.type = "other"] : t \in Addresses}

Payloads == {Encode(h, Port) : h \in Names} \cup Addresses \cup Garbled
OnePort == {Port, <<"q", "q">>}

\* Two and three bytes, at the ends of their ranges and with leading zeros.
Ends == {0, 1, 57, 58, 255}
Keys == [1 .. 2 -> Ends] \cup [1 .. 3 -> Ends]
=============================================================================
