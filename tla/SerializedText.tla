--------------------------- MODULE SerializedText ---------------------------
(***************************************************************************)
(* The text a PHP-serialized value is written in, and the layers of        *)
(* escaping an application puts around it before it reaches the proxy.     *)
(*                                                                         *)
(* A text is a sequence of tokens.  A token is a byte, or a group of bytes *)
(* no boundary can fall into: an escape, a character reference, a letter   *)
(* outside ASCII, a host name.  Width gives the bytes each one has on the  *)
(* wire, because a length prefix counts bytes and every spelling counts    *)
(* them differently.                                                       *)
(***************************************************************************)
EXTENDS Integers, Sequences, SequencesExt, FiniteSetsExt

Digits == {"0", "1", "2", "3", "4", "5", "6", "7", "8", "9"}

\* "uE4" and "u22" are what follows the backslash of \u00e4 and of \u0022;
\* "quot;" and "amp;" are what an escaped ampersand leaves of a reference.
Unreserved == Digits \cup {"s", "a", "i", "N", "O", "C", "E", "x", "uE4", "u22"}
Marks      == {":", ";", "\"", "{", "}", "=", "&", "\\", "/", "+", "<", ">", "[", "]"}
Hosts      == {"g", "h", "v"}     \* the canonical host over http and over https, and
                                  \* the variant before its port
Refs       == {"&quot;", "&amp;"}
Escapable  == Marks \cup Hosts \cup Refs \cup {"E4"}

\* A token under one and under two layers of percent encoding.
Pct1 == {"%" \o t : t \in Escapable}
Pct2 == {"%%" \o t : t \in Escapable}

Plain(t) ==
    CASE t = "E4"                 -> 2
      [] t \in {"uE4", "u22"}     -> 5
      [] t \in {"&quot;"}         -> 6
      [] t \in {"&amp;", "quot;"} -> 5
      [] t = "amp;"               -> 4
      [] t \in {"h", "v"}         -> 2
      [] OTHER                    -> 1

\* The bytes of a token that percent encoding spends two more bytes on.
Escaped(t) == CASE t \in Hosts -> 0 [] t \in Refs \cup {"E4"} -> 2 [] OTHER -> 1

Width ==
    [t \in Unreserved \cup Escapable \cup {" ", "quot;", "amp;"} |-> Plain(t)]
    @@ [t \in Pct1 |-> LET c == CHOOSE e \in Escapable : t = "%" \o e
                       IN Plain(c) + 2 * Escaped(c)]
    @@ [t \in Pct2 |-> LET c == CHOOSE e \in Escapable : t = "%%" \o e
                       IN Plain(c) + 4 * Escaped(c)]

ByteLen(b) == FoldSeq(LAMBDA t, n : Width[t] + n, 0, b)

-----------------------------------------------------------------------------
(* One layer of percent encoding, taken off a token. *)
Unpct == [t \in Pct1 |-> CHOOSE e \in Escapable : t = "%" \o e]
         @@ [t \in Pct2 |-> "%" \o (CHOOSE e \in Escapable : t = "%%" \o e)]
         @@ [t \in {"+"} |-> " "]

FormDecode(b) == [i \in DOMAIN b |-> IF b[i] \in DOMAIN Unpct THEN Unpct[b[i]] ELSE b[i]]

FormEncode(b) == [i \in DOMAIN b |-> IF b[i] \in Escapable \cup Pct1 THEN "%" \o b[i]
                                     ELSE IF b[i] = " " THEN "+" ELSE b[i]]

-----------------------------------------------------------------------------
(* The encoders applications put a value through, innermost first.  esc is  *)
(* WordPress's esc_attr, which leaves an existing reference as it is, esc2  *)
(* htmlspecialchars, which does not, json json_encode, and hex json_encode  *)
(* with JSON_HEX_QUOT.                                                      *)
EncodeToken(layer, t) ==
    CASE layer = "pct"                            -> FormEncode(<<t>>)
      [] layer \in {"esc", "esc2"} /\ t = "\""    -> <<"&quot;">>
      [] layer \in {"esc", "esc2"} /\ t = "&"     -> <<"&amp;">>
      [] layer = "esc2" /\ t = "&quot;"           -> <<"&amp;", "quot;">>
      [] layer = "esc2" /\ t = "&amp;"            -> <<"&amp;", "amp;">>
      [] layer = "hex" /\ t = "\""                -> <<"\\", "u22">>
      [] layer \in {"json", "hex"} /\ t = "E4"    -> <<"\\", "uE4">>
      [] layer \in {"json", "hex"} /\ t \in {"\"", "\\", "/"} -> <<"\\", t>>
      [] OTHER                                    -> <<t>>

EncodeLayer(layer, b) == FlattenSeq([i \in DOMAIN b |-> EncodeToken(layer, b[i])])

Encode(layers, b) == FoldLeft(LAMBDA acc, l : EncodeLayer(l, acc), b, layers)

Unreference == [t \in Refs |-> IF t = "&quot;" THEN "\"" ELSE "&"]
Unescape    == [t \in {"uE4", "u22"} |-> IF t = "uE4" THEN "E4" ELSE "\""]

\* Reading left to right, what a decoder of the layer emits.
DecodeLayer(layer, b) ==
    CASE layer = "pct" -> FormDecode(b)
      [] layer \in {"json", "hex"} ->
           FoldLeft(LAMBDA acc, t :
                        IF acc.esc THEN [out |-> Append(acc.out, IF t \in DOMAIN Unescape
                                                                 THEN Unescape[t] ELSE t),
                                         esc |-> FALSE]
                        ELSE IF t = "\\" THEN [acc EXCEPT !.esc = TRUE]
                        ELSE [acc EXCEPT !.out = Append(@, t)],
                    [out |-> <<>>, esc |-> FALSE], b).out
      [] OTHER ->
           FoldLeft(LAMBDA acc, t :
                        IF t \in {"quot;", "amp;"} /\ acc # <<>> /\ Last(acc) = "&"
                        THEN Append(Front(acc), "&" \o t)
                        ELSE Append(acc, IF t \in DOMAIN Unreference THEN Unreference[t] ELSE t),
                    <<>>, b)

Decode(layers, b) == FoldRight(LAMBDA l, acc : DecodeLayer(l, acc), layers, b)

-----------------------------------------------------------------------------
(* PHP's serialize.  A value is a record: its type, the text before and     *)
(* after what it holds, the value it holds, and by how much its length      *)
(* prefix is wrong (0 in everything PHP wrote).                             *)
NoValue == [t |-> "none"]

Str(pre, sub, post, off) == [t |-> "s", pre |-> pre, sub |-> sub, post |-> post, off |-> off]
Text(data)               == Str(data, NoValue, <<>>, 0)
Holder(t, sub)           == [t |-> t, sub |-> sub]

Itoa(n) == IF n < 10 THEN <<ToString(n)>>
           ELSE <<ToString(n \div 10), ToString(n % 10)>>

RECURSIVE Serialize(_)
Serialize(v) ==
    CASE v.t = "none" -> <<>>
      [] v.t = "s" ->
           LET d == v.pre \o Serialize(v.sub) \o v.post
           IN <<"s", ":">> \o Itoa(ByteLen(d) + v.off) \o <<":", "\"">> \o d \o <<"\"", ";">>
      [] v.t = "E" -> <<"E", ":", "1", ":", "\"", "x", "\"", ";">>
      [] v.t = "N" -> <<"N", ";">>
      [] v.t = "a" -> <<"a", ":", "1", ":", "{", "i", ":", "0", ";">>
                          \o Serialize(v.sub) \o <<"}">>
      [] v.t = "O" -> <<"O", ":", "1", ":", "\"", "x", "\"", ":", "1", ":", "{", "s", ":", "1",
                        ":", "\"", "x", "\"", ";">> \o Serialize(v.sub) \o <<"}">>
      [] v.t = "C" -> <<"C", ":", "1", ":", "\"", "x", "\"", ":">> \o Itoa(ByteLen(v.data))
                          \o <<":", "{">> \o v.data \o <<"}">>
=============================================================================
