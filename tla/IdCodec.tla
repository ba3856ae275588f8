------------------------------ MODULE IdCodec ------------------------------
(***************************************************************************)
(* How the exporter and attack.py name objects in the target registry.    *)
(* An identifier is a string, here the sequence of its UTF-8 bytes.  A     *)
(* submodel is named "thing_id:feature_id"; every address is the           *)
(* base64url encoding of the name (encode_id), padded with "=".           *)
(***************************************************************************)
EXTENDS Integers, Sequences

Colon == 58     \* ":"
Pad == 61       \* "="

\* base64url alphabet: A-Z, a-z, 0-9, "-", "_" as ASCII codes.
UrlSafe(i) ==
    IF i < 26 THEN 65 + i
    ELSE IF i < 52 THEN 97 + i - 26
    ELSE IF i < 62 THEN 48 + i - 52
    ELSE IF i = 62 THEN 45 ELSE 95

\* encode_id: raw_id.encode('utf-8'), base64.urlsafe_b64encode, decode to
\* ASCII.  Every 3 bytes form a 24-bit word and 4 characters; a last group
\* of 1 or 2 bytes gives 2 or 3 characters and "=" padding.
encode_id(s) ==
    LET n == Len(s)
        B(i) == IF i <= n THEN s[i] ELSE 0
        Word(g) == B(3 * g + 1) * 65536 + B(3 * g + 2) * 256 + B(3 * g + 3)
        Sextet(g, k) == (Word(g) \div 2^(18 - 6 * k)) % 64
        Real(g) == IF n - 3 * g >= 3 THEN 4 ELSE n - 3 * g + 1
    IN  [j \in 1..4 * ((n + 2) \div 3) |->
            LET g == (j - 1) \div 4
                k == (j - 1) % 4
            IN  IF k < Real(g) THEN UrlSafe(Sextet(g, k)) ELSE Pad]

\* f"{thing_id}:{feature_id}", the id of a feature's submodel.
SubmodelId(t, f) == t \o <<Colon>> \o f

=============================================================================
