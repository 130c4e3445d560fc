------------------------------ MODULE Endpoint ------------------------------
(***************************************************************************)
(* snorkel's --server value (config.rs, Endpoint::parse): a host, with or  *)
(* without brackets, and a port, 1943 by default.  The text is cut into    *)
(* lexemes: a DNS name, an IPv4 literal, the numbers 0, 443 and 70000 (one *)
(* past 16 bits), colons, brackets and the percent sign before the scope   *)
(* of an IPv6 address; an IPv6 literal is spelled from numbers and colons, *)
(* and may end in an IPv4 one.                                             *)
(***************************************************************************)
EXTENDS Integers, Sequences, SequencesExt

CONSTANTS
  MaxLexemes,  \* bound: lexemes in a value
  MaxScoped    \* bound: lexemes of the host in a value with a scope

ASSUME MaxLexemesAssumption == MaxLexemes \in Nat /\ MaxScoped \in Nat

Numbers == {"0", "443", "70000"}
Words   == {"name", "ipv4"} \cup Numbers
Lexemes == Words \cup {":", "[", "]", "%"}

DEFAULT_PORT == "1943"

(* A host, a scope and a port: longer than the other values need to be.    *)
WithScope(host, scope, port) == <<"[">> \o host \o <<"%", scope, "]", ":", port>>

ScopedValues ==
  {WithScope(host, scope, port) :
     host \in SeqOf(Lexemes, MaxScoped), scope \in Lexemes, port \in Lexemes}

(* The values, trimmed; two words in a row would be one lexeme.            *)
Values ==
  {v \in SeqOf(Lexemes, MaxLexemes) \cup ScopedValues :
     \A k \in 1..(Len(v) - 1) : ~(v[k] \in Words /\ v[k + 1] \in Words)}

-----------------------------------------------------------------------------
(* The parsers of the standard library and rustls.                         *)
u16 == {"0", "443"}

(* Numbers with a colon between any two, the last an IPv4 literal or not.  *)
IsGroups(s) ==
  \/ s = <<>>
  \/ /\ Len(s) % 2 = 1
     /\ \A k \in 1..Len(s) :
          IF k % 2 = 0 THEN s[k] = ":"
          ELSE s[k] \in u16 \/ (k = Len(s) /\ s[k] = "ipv4")

EndsInIpv4(s) == s # <<>> /\ s[Len(s)] = "ipv4"

(* How many of an address's eight groups of 16 bits these are.             *)
Size(s) == (Len(s) + 1) \div 2 + (IF EndsInIpv4(s) THEN 1 ELSE 0)

Before(s, k) == SubSeq(s, 1, k - 1)
Behind(s, k) == SubSeq(s, k + 2, Len(s))

(* At k is the "::" that stands for the groups left out.                   *)
IsGap(s, k) ==
  /\ s[k] = ":" /\ s[k + 1] = ":"
  /\ IsGroups(Before(s, k)) /\ ~EndsInIpv4(Before(s, k)) /\ IsGroups(Behind(s, k))
  /\ Size(Before(s, k)) + Size(Behind(s, k)) < 8

IsIpv6(s) ==
  \/ IsGroups(s) /\ Size(s) = 8
  \/ \E k \in 1..(Len(s) - 1) : IsGap(s, k)

IsIpAddr(s) == s = <<"ipv4">> \/ IsIpv6(s)

(* A socket address's IPv6 literal may have a scope, a number of 32 bits.  *)
HasScope(s) == Len(s) > 6 /\ s[Len(s) - 4] = "%" /\ s[Len(s) - 3] \in Numbers

(* The address in a text for a socket address, out of its brackets;        *)
(* SocketAddr::ip leaves the scope out.                                    *)
ip(s) ==
  IF s[1] # "[" THEN SubSeq(s, 1, Len(s) - 2)
  ELSE IF HasScope(s) THEN SubSeq(s, 2, Len(s) - 5)
  ELSE SubSeq(s, 2, Len(s) - 3)

(* SocketAddr takes port 0.                                                *)
IsSocketAddr(s) ==
  /\ Len(s) > 2 /\ s[Len(s)] \in u16 /\ s[Len(s) - 1] = ":"
  /\ IF s[1] = "[" THEN s[Len(s) - 2] = "]" /\ IsIpv6(ip(s)) ELSE ip(s) = <<"ipv4">>

IsServerName(s) == s = <<"name">> \/ IsIpAddr(s)

(* What a host stands for when it is dialled: an IPv6 literal for its      *)
(* eight groups, as written or as IpAddr's to_string writes them; the two  *)
(* of an IPv4 literal are written "ipv4".                                  *)
address(s) ==
  IF ~IsIpv6(s) THEN s
  ELSE IF IsGroups(s)
  THEN [n \in 1..8 |-> s[Min({2 * n - 1, Len(s)})]]
  ELSE LET gap  == CHOOSE k \in 1..(Len(s) - 1) : IsGap(s, k)
           tail == Behind(s, gap)
       IN  [n \in 1..8 |->
              IF n <= Size(Before(s, gap)) THEN s[2 * n - 1]
              ELSE IF n <= 8 - Size(tail) THEN "0"
              ELSE tail[Min({2 * (n - (8 - Size(tail))) - 1, Len(tail)})]]

-----------------------------------------------------------------------------
Rejected == [ok |-> FALSE]
Parsed(host, port) == [ok |-> TRUE, host |-> address(host), port |-> port]

Positions(s, x) == {k \in 1..Len(s) : s[k] = x}

(* A number that fits 16 bits and is not 0.                                *)
parse_port(s) == Len(s) = 1 /\ s[1] \in u16 \ {"0"}

(* The host taken as a server name, once its port is known.                *)
named(host, port) == IF IsServerName(host) THEN Parsed(host, port) ELSE Rejected

(* Mutant: the bracketed branch takes anything after the bracket as no     *)
(* port at all.                                                            *)
bracketed_rest(s) ==
  IF Positions(s, "]") = {}
  THEN Rejected
  ELSE LET end  == Min(Positions(s, "]"))
           rest == SubSeq(s, end + 1, Len(s))
       IN named(SubSeq(s, 2, end - 1),
                IF rest # <<>> /\ rest[1] = ":" /\ parse_port(Tail(rest))
                THEN rest[2] ELSE DEFAULT_PORT)

(* The branch of a value that starts with "[".                             *)
bracketed(s) ==
  IF Positions(s, "]") = {}
  THEN Rejected
  ELSE LET end  == Min(Positions(s, "]"))
           host == SubSeq(s, 2, end - 1)
           rest == SubSeq(s, end + 1, Len(s))
       IN IF rest = <<>> THEN named(host, DEFAULT_PORT)
          ELSE IF rest[1] = ":" /\ parse_port(SubSeq(s, end + 2, Len(s)))
          THEN named(host, s[Len(s)])
          ELSE Rejected

(* The branch of a value with a colon: rsplit_once.                        *)
split(s) ==
  LET colon == Max(Positions(s, ":"))
      host  == SubSeq(s, 1, colon - 1)
      port  == SubSeq(s, colon + 1, Len(s))
  IN IF host # <<>> /\ parse_port(port) THEN named(host, port[1]) ELSE Rejected

parse(s) ==
  IF s = <<>> THEN Rejected
  ELSE IF IsSocketAddr(s) THEN Parsed(ip(s), s[Len(s)])
  ELSE IF IsIpAddr(s) THEN Parsed(s, DEFAULT_PORT)
  ELSE IF s[1] = "[" THEN bracketed(s)
  ELSE IF Positions(s, ":") # {} THEN split(s)
  ELSE named(s, DEFAULT_PORT)

-----------------------------------------------------------------------------
(* The spellings of an endpoint: HOST[:PORT], the host in brackets or not; *)
(* or [HOST%SCOPE]:PORT, the host an IPv6 address.                         *)
Spelled(v, host, port) ==
  \/ \E boxed \in {host, <<"[">> \o host \o <<"]">>} :
       v = boxed \o <<":", port>> \/ (v = boxed /\ port = DEFAULT_PORT)
  \/ IsIpv6(host) /\ \E scope \in Numbers : v = WithScope(host, scope, port)

Parts(v) == {SubSeq(v, i, j) : i, j \in 1..Len(v)}

(* What is parsed is what is spelled, a scope apart, and every spelling is *)
(* parsed; a value that is an IPv6 literal as it stands is the whole       *)
(* address.                                                                *)
ParsesSpellings ==
  \A v \in Values :
    LET r == parse(v)
    IN  /\ r.ok =>
             \E host \in Parts(v) :
               IsServerName(host) /\ Spelled(v, host, r.port) /\ r = Parsed(host, r.port)
        /\ \A host \in Parts(v), port \in {"443", DEFAULT_PORT} :
             /\ IsServerName(host) /\ Spelled(v, host, port)
             /\ IsIpv6(v) => host = v
             => r = Parsed(host, port)

=============================================================================
