-------------------------- MODULE VerifyingKeyText --------------------------
(***************************************************************************)
(* The text form of a verifying key                                        *)
(* (src/synthesizer/snark/src/verifying_key/parse.rs): Display writes      *)
(* bech32m("verifier", bytes); FromStr decodes bech32, checks the prefix,  *)
(* that the data is not empty and the variant, and reads the key from the  *)
(* bytes; Parser::parse recognizes "verifier" "1" and a run of bech32      *)
(* characters each followed by any underscores, strips the underscores and *)
(* hands the result to FromStr, returning the input after the run.         *)
(*                                                                         *)
(* A string is a sequence of tokens: the human-readable part, the          *)
(* separator "1", a data character (one byte of the key), an underscore,   *)
(* the checksum (the variant and the data it was computed over) or a       *)
(* character outside the bech32 charset.  A key is KeyLen data symbols.    *)
(***************************************************************************)
EXTENDS Integers, Sequences, SequencesExt

CONSTANTS
    Symbols,    \* the values of one data character
    KeyLen,     \* length of the byte encoding of a key
    Hrps,       \* human-readable parts a string may carry
    MaxEdits    \* bound on the edits of a string

ASSUME KeyLen >= 1 /\ "verifier" \in Hrps

VARIABLES
    text,       \* the string handed to the decoder
    origin,     \* the key text was displayed from, or NoKey
    cosmetic,   \* every edit so far only inserted underscores within the run
    edits,      \* how many edits text has suffered
    parsed,     \* what Parser::parse returned: [ok, vk, rest]
    decoded,    \* what FromStr returned: [ok, vk]
    pc          \* "text" | "done"

vars == <<text, origin, cosmetic, edits, parsed, decoded, pc>>

Tok(k, v, of) == [k |-> k, v |-> v, of |-> of]
Hrp(h)        == Tok("hrp", h, <<>>)
Sep           == Tok("sep", "1", <<>>)
Sym(d)        == Tok("d", d, <<>>)
Underscore    == Tok("us", "_", <<>>)
Checksum(variant, data) == Tok("ck", variant, data)
Space         == Tok("sp", " ", <<>>)

\* static VERIFYING_KEY
VERIFYING_KEY == "verifier"

Keys == [1..KeyLen -> Symbols]

NoKey == <<>>

\* bech32::encode(hrp, data, variant).
Encode(hrp, data, variant) ==
    <<Hrp(hrp), Sep>> \o [i \in 1..Len(data) |-> Sym(data[i])] \o <<Checksum(variant, data)>>

\* Display: the key's bytes as bech32m with the prefix "verifier".
Display(vk) == Encode(VERIFYING_KEY, vk, "bech32m")

(***************************************************************************)
(* bech32::decode: [ok, hrp, data, variant]; the checksum must be the one  *)
(* of the data, and every character between must be a data character.     *)
(***************************************************************************)
Bech32Decode(s) ==
    LET data == [i \in 1..(Len(s) - 3) |-> s[i + 2].v]
    IN IF /\ Len(s) >= 3
          /\ s[1].k = "hrp" /\ s[2] = Sep /\ Last(s).k = "ck"
          /\ \A i \in 3..(Len(s) - 1) : s[i].k = "d"
          /\ Last(s).of = data
       THEN [ok |-> TRUE, hrp |-> s[1].v, data |-> data, variant |-> Last(s).v]
       ELSE [ok |-> FALSE, hrp |-> "", data |-> <<>>, variant |-> ""]

\* VerifyingKey::read_le over the decoded bytes: the key is read from the
\* front of the slice; bytes after it are not looked at.
ReadLe(bytes) ==
    IF Len(bytes) >= KeyLen THEN [ok |-> TRUE, vk |-> SubSeq(bytes, 1, KeyLen)]
    ELSE [ok |-> FALSE, vk |-> NoKey]

FromStrErr == [ok |-> FALSE, vk |-> NoKey]

\* Mutant: the decoded payload is taken as the key.
FromStrWholePayload(key) ==
    LET d == Bech32Decode(key) IN
    IF ~d.ok \/ d.hrp # VERIFYING_KEY \/ d.data = <<>> \/ d.variant # "bech32m" THEN FromStrErr
    ELSE [ok |-> TRUE, vk |-> d.data]

\* The checks of FromStr in the code's order, then read_le of the bytes.
FromStr(key) ==
    LET d == Bech32Decode(key) IN
    IF ~d.ok \/ d.hrp # VERIFYING_KEY \/ d.data = <<>> \/ d.variant # "bech32m" THEN FromStrErr
    ELSE ReadLe(d.data)

(***************************************************************************)
(* Parser::parse.                                                          *)
(***************************************************************************)
\* one_of("qpzry9x8gf2tvdw0s3jn54khce6mua7l"): data and checksum characters.
IsChar(t) == t.k \in {"d", "ck"}

InRun(t) == IsChar(t) \/ t = Underscore

ParseErr == [ok |-> FALSE, vk |-> NoKey, rest |-> <<>>]

\* Mutant: the underscores are not removed before FromStr.
ParseKeepUnderscores(s) ==
    IF ~(Len(s) >= 3 /\ s[1] = Hrp(VERIFYING_KEY) /\ s[2] = Sep /\ IsChar(s[3])) THEN ParseErr
    ELSE LET j == CHOOSE j \in 3..Len(s) :
                      /\ \A i \in 3..j : InRun(s[i])
                      /\ j = Len(s) \/ ~InRun(s[j + 1])
             r == FromStr(SubSeq(s, 1, j))
         IN IF r.ok THEN [ok |-> TRUE, vk |-> r.vk, rest |-> SubSeq(s, j + 1, Len(s))]
            ELSE ParseErr

\* tag("verifier"), tag("1"), many1(terminated(one_of(..), many0('_'))),
\* then map_res with FromStr of the recognized text without underscores.
Parse(s) ==
    IF ~(Len(s) >= 3 /\ s[1] = Hrp(VERIFYING_KEY) /\ s[2] = Sep /\ IsChar(s[3])) THEN ParseErr
    ELSE LET j == CHOOSE j \in 3..Len(s) :
                      /\ \A i \in 3..j : InRun(s[i])
                      /\ j = Len(s) \/ ~InRun(s[j + 1])
             r == FromStr(SelectSeq(SubSeq(s, 1, j), LAMBDA t : t # Underscore))
         IN IF r.ok THEN [ok |-> TRUE, vk |-> r.vk, rest |-> SubSeq(s, j + 1, Len(s))]
            ELSE ParseErr

(***************************************************************************)
(* The strings handed to the decoder: every correctly checksummed string   *)
(* of up to KeyLen + 1 data characters (the displayed keys among them),    *)
(* then edited.                                                            *)
(***************************************************************************)
Texts == {Encode(h, data, var) : h \in Hrps, data \in BoundedSeq(Symbols, KeyLen + 1),
                                 var \in {"bech32", "bech32m"}}

DisplayedKey(s) == IF \E k \in Keys : Display(k) = s THEN CHOOSE k \in Keys : Display(k) = s
                   ELSE NoKey

Edit(s, isCosmetic) ==
    /\ pc = "text"
    /\ edits < MaxEdits
    /\ text' = s
    /\ edits' = edits + 1
    /\ cosmetic' = (cosmetic /\ isCosmetic)
    /\ UNCHANGED <<origin, parsed, decoded, pc>>

\* An underscore after position i: cosmetic when it follows a character of
\* the run.
InsertUnderscore(i) == Edit(InsertAt(text, i + 1, Underscore), InRun(text[i]) /\ i >= 3)

\* One data character changed.
SetSymbol(i, d) ==
    /\ text[i].k = "d" /\ text[i] # Sym(d)
    /\ Edit(ReplaceAt(text, i, Sym(d)), FALSE)

\* A character outside the charset appended.
AppendSpace == Edit(Append(text, Space), TRUE)

Decode ==
    /\ pc = "text"
    /\ parsed' = Parse(text)
    /\ decoded' = FromStr(text)
    /\ pc' = "done"
    /\ UNCHANGED <<text, origin, cosmetic, edits>>

Init ==
    /\ text \in Texts
    /\ origin = DisplayedKey(text)
    /\ cosmetic = TRUE
    /\ edits = 0
    /\ parsed = ParseErr
    /\ decoded = FromStrErr
    /\ pc = "text"

Next ==
    \/ \E i \in 1..Len(text) : InsertUnderscore(i)
    \/ \E i \in 1..Len(text), d \in Symbols : SetSymbol(i, d)
    \/ AppendSpace
    \/ Decode

Spec == Init /\ [][Next]_vars

(***************************************************************************)
(* Properties.                                                             *)
(***************************************************************************)
TypeOK ==
    /\ pc \in {"text", "done"}
    /\ edits \in 0..MaxEdits
    /\ parsed.ok => parsed.vk \in Keys
    /\ decoded.ok => decoded.vk \in Keys

\* Spec: decode(encode(vk)) = vk in the text form.  A displayed key is
\* decoded by FromStr, and parsed by Parser::parse even with underscores
\* inserted after its first data character and text after it.
TextRoundTrip ==
    pc = "done" /\ origin # NoKey /\ cosmetic =>
        /\ parsed.ok /\ parsed.vk = origin
        /\ edits = 0 => decoded = [ok |-> TRUE, vk |-> origin]

=============================================================================
