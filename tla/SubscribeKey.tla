---------------------------- MODULE SubscribeKey ----------------------------
(***************************************************************************)
(* The way of a subscribe key from the browser to the server: it is put    *)
(* into the WebSocket URL by photon-leptos/src/ws_url.rs and read back by  *)
(* photon-axum/src/axum_ws/ws_query.rs.  A string is the sequence of its   *)
(* bytes.  An absent key is the empty one: neither side tells them apart.  *)
(***************************************************************************)
EXTENDS Integers, SequencesExt

CONSTANT MaxKeyLen  \* MAX_KEY_LEN, 256 in the code

ASSUME SubscribeKeyAssumption == MaxKeyLen \in Nat

Bytes == 0 .. 255
NoKey == <<>>
Malformed == <<-1>>  \* the outcome None of the decoder

Percent == 37
Ampersand == 38
Plus == 43
EqualSign == 61
QuestionMark == 63
Space == 32
KeyQueryParam == <<107, 101, 121>>

(* s up to, and from after, the first c.                                   *)
FirstOf(s, c) == Min({i \in DOMAIN s : s[i] = c} \cup {Len(s) + 1})
Before(s, c) == SubSeq(s, 1, FirstOf(s, c) - 1)
After(s, c) == SubSeq(s, FirstOf(s, c) + 1, Len(s))
-----------------------------------------------------------------------------
(* The browser's side.                                                     *)

Unreserved(b) == b \in (65 .. 90) \cup (97 .. 122) \cup (48 .. 57) \cup {45, 46, 95, 126}
HexDigit(n) == IF n < 10 THEN 48 + n ELSE 55 + n
EscapedByte(b) == <<Percent, HexDigit(b \div 16), HexDigit(b % 16)>>

(* Faulty variant of Escape: a plus sign is taken for unreserved.          *)
EscapeButPlus(key) ==
  FlattenSeq([i \in DOMAIN key |->
    IF Unreserved(key[i]) \/ key[i] = Plus THEN <<key[i]>> ELSE EscapedByte(key[i])])

Escape(key) ==
  FlattenSeq([i \in DOMAIN key |->
    IF Unreserved(key[i]) THEN <<key[i]>> ELSE EscapedByte(key[i])])

WsUrlWithKey(path, key) ==
  IF key = NoKey THEN path
  ELSE path \o <<IF QuestionMark \in Range(path) THEN Ampersand ELSE QuestionMark>>
            \o KeyQueryParam \o <<EqualSign>> \o Escape(key)

Pairs(query) ==
  LET starts == {1} \cup {i + 1 : i \in {j \in DOMAIN query : query[j] = Ampersand}}
  IN [i \in starts |-> Before(SubSeq(query, i, Len(query)), Ampersand)]
Keyed(pairs) == {i \in DOMAIN pairs : Before(pairs[i], EqualSign) = KeyQueryParam}

(* Faulty variant of WsUrlLogFields: only the first parameter is looked at.*)
WsUrlLogFirst(url) ==
  [path |-> Before(url, QuestionMark),
   hasKey |-> 1 \in Keyed(Pairs(After(url, QuestionMark)))]

(* What is logged of a URL.                                                *)
WsUrlLogFields(url) ==
  [path |-> Before(url, QuestionMark),
   hasKey |-> Keyed(Pairs(After(url, QuestionMark))) # {}]
-----------------------------------------------------------------------------
(* The server's side.                                                      *)

FromHex ==
  [b \in (48 .. 57) \cup (97 .. 102) \cup (65 .. 70) |->
     CASE b <= 57 -> b - 48 [] b >= 97 -> b - 87 [] OTHER -> b - 55]

PercentDecode(v) ==
  LET Push(b, rest) == IF rest = Malformed THEN Malformed ELSE <<b>> \o rest
      Escaped(i) == i + 2 <= Len(v) /\ {v[i + 1], v[i + 2]} \subseteq DOMAIN FromHex
      from[i \in 1 .. Len(v) + 1] ==
        CASE i > Len(v) -> <<>>
          [] i <= Len(v) /\ v[i] = Plus -> Push(Space, from[i + 1])
          [] i <= Len(v) /\ v[i] = Percent ->
               IF Escaped(i)
               THEN Push(FromHex[v[i + 1]] * 16 + FromHex[v[i + 2]], from[i + 3])
               ELSE Malformed
          [] OTHER -> Push(v[i], from[i + 1])
  IN from[1]

(* String::from_utf8: each byte starts a well-formed character, with the   *)
(* tail bytes that its lead asks for, or is one of those of a character.   *)
IsTail(b) == b \in 128 .. 191
Width(lead) ==
  CASE lead \in 0 .. 127 -> 1 [] lead \in 194 .. 223 -> 2
    [] lead \in 224 .. 239 -> 3 [] lead \in 240 .. 244 -> 4 [] OTHER -> 0
SecondBytes(lead) ==  \* no overlong form, no surrogate, nothing past U+10FFFF
  CASE lead = 224 -> 160 .. 191 [] lead = 237 -> 128 .. 159
    [] lead = 240 -> 144 .. 191 [] lead = 244 -> 128 .. 143 [] OTHER -> 128 .. 191
CharacterAt(s, i) ==
  /\ Width(s[i]) \in 1 .. Len(s) - i + 1
  /\ \A j \in i + 1 .. i + Width(s[i]) - 1 : IsTail(s[j])
  /\ Width(s[i]) > 1 => s[i + 1] \in SecondBytes(s[i])
IsUtf8(s) ==
  \A i \in DOMAIN s :
    \/ CharacterAt(s, i)
    \/ IsTail(s[i]) /\ \E k \in 1 .. 3 : k < i /\ CharacterAt(s, i - k) /\ k < Width(s[i - k])

(* char::is_control: C0 and DEL, or C1, which is two bytes in UTF-8.       *)
C0At(s, i) == s[i] \in (0 .. 31) \cup {127}
C1At(s, i) == s[i] = 194 /\ s[i + 1] \in 128 .. 159
HasControl(s) == \E i \in DOMAIN s : C0At(s, i) \/ C1At(s, i)

Acceptable(key) ==
  /\ key # Malformed
  /\ IsUtf8(key)
  /\ Len(key) <= MaxKeyLen
  /\ ~HasControl(key)

(* Only the first parameter named key counts, whatever becomes of it.      *)
ClientKeyFromUri(url) ==
  LET pairs == Pairs(After(url, QuestionMark))
      key == PercentDecode(After(pairs[Min(Keyed(pairs))], EqualSign))
  IN IF Keyed(pairs) # {} /\ Acceptable(key) THEN key ELSE NoKey

(* U+FFFD in the place of each control character.                          *)
SanitizeKeyForOpsLog(key) ==
  LET Replacement == <<239, 191, 189>>
      Shown(i) ==
        CASE C0At(key, i) \/ C1At(key, i) -> Replacement
          [] i > 1 /\ C1At(key, i - 1) -> <<>>
          [] OTHER -> <<key[i]>>
  IN FlattenSeq([i \in DOMAIN key |-> Shown(i)])
=============================================================================
