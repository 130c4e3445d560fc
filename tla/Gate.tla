-------------------------------- MODULE Gate --------------------------------
(***************************************************************************)
(* The bearer token at topside's phone port: what Config::load accepts as  *)
(* --token, and what phone_connection's upgrade callback makes of an       *)
(* Authorization header.  A text is a sequence of symbols: "blank" and     *)
(* "tab" the two characters of white space a header may hold, "Bearer"     *)
(* that word in any case, the rest other characters.                       *)
(***************************************************************************)
EXTENDS Integers, Sequences, SequencesExt

CONSTANTS
  Letters,     \* characters of tokens: visible ASCII
  Foreign,     \* and those outside it, white space apart
  MaxToken,    \* bound: length of a token
  MaxHeader    \* bound: length of a header

Blank == "blank"
White == {Blank, "tab"}

ASSUME GateAssumption ==
  /\ (White \cup {"Bearer", "none"}) \cap (Letters \cup Foreign) = {}
  /\ Letters \cap Foreign = {}
  /\ MaxToken \in Nat /\ MaxHeader \in Nat

TokenChars == Letters \cup Foreign \cup White

(* Config::load refuses only the empty token.                              *)
Tokens == SeqOf(TokenChars, MaxToken) \ {<<>>}

Headers == SeqOf(TokenChars \cup {"Bearer"}, MaxHeader)

-----------------------------------------------------------------------------
(* HeaderValue::to_str takes visible ASCII and white space only; any other *)
(* header counts as empty, as a missing one does.                          *)
to_str(h) == IF \E k \in 1..Len(h) : h[k] \in Foreign THEN <<>> ELSE h

(* str::trim                                                               *)
trim(s) ==
  LET solid == {k \in 1..Len(s) : s[k] \notin White}
  IN  IF solid = {} THEN <<>> ELSE SubSeq(s, Min(solid), Max(solid))

(* What follows the scheme, or NoToken.                                    *)
NoToken == <<"none">>

(* Split at the first blank; the scheme must be Bearer.                    *)
bearer_bytes(h) ==
  LET text == trim(h)
      blanks == {k \in 1..Len(text) : text[k] = Blank}
      first == Min(blanks)
  IN  IF blanks = {} \/ SubSeq(text, 1, first - 1) # <<"Bearer">>
      THEN NoToken
      ELSE trim(SubSeq(text, first + 1, Len(text)))

(* Mutant of token_eq: the lengths are not compared.                       *)
token_eq_prefix(provided, expected) ==
  \A k \in 1..Min({Len(provided), Len(expected)}) : provided[k] = expected[k]

(* The same length, and no pair of bytes that differs.                     *)
token_eq(provided, expected) ==
  /\ Len(provided) = Len(expected)
  /\ \A k \in 1..Len(provided) : provided[k] = expected[k]

(* The callback of accept_hdr_async: a request without a token, or with    *)
(* another one, gets a 401.                                                *)
admits(token, header) ==
  LET provided == bearer_bytes(to_str(header))
  IN  provided # NoToken /\ token_eq(provided, token)

-----------------------------------------------------------------------------
(* White space at either end.                                              *)
Padded(t) == t[1] \in White \/ t[Len(t)] \in White

(* The scheme, a blank and the token, and white space everywhere else.     *)
Spelled(h, t) ==
  \E scheme, first \in 1..Len(h) :
    LET last == first + Len(t) - 1
    IN  /\ scheme + 1 < first /\ last <= Len(h)
        /\ h[scheme] = "Bearer" /\ h[scheme + 1] = Blank
        /\ SubSeq(h, first, last) = t
        /\ \A m \in 1..Len(h) :
             m \in {scheme, scheme + 1} \/ m \in first..last \/ h[m] \in White

(* Whoever sends the token is admitted, and nobody else.  A token with     *)
(* white space at an end, or with a character outside visible ASCII,       *)
(* admits nobody, not even who sends it.                                   *)
AdmitsItsToken ==
  \A t \in Tokens, h \in Headers :
    admits(t, h) <=> ~Padded(t) /\ to_str(t) = t /\ Spelled(h, t)

=============================================================================
