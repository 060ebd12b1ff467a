----------------------------- MODULE Redaction -----------------------------
(***************************************************************************)
(* redact_sensitive: what is taken out of an error message before it is    *)
(* shown.  The providers crate and the proxy hold the same code.           *)
(*                                                                         *)
(* A text is a sequence of atoms: punctuation, and words taken as one atom *)
(* ("label" stands for authorization, api-key, token, password and the     *)
(* like, "field" for the JSON-only keys content, input and output,         *)
(* "secret" for a piece of what must not be shown).                        *)
(***************************************************************************)
EXTENDS Integers, Sequences, SequencesExt

CONSTANT
    MaxPieces   \* bound: pieces added before, in and after the secret

VARIABLE message   \* what stands before the secret, how it is written, and what follows

redactionVars == <<message>>

Quote == "quote"
Backslash == "backslash"
Space == "space"
Colon == "colon"
Equals == "equals"
Comma == "comma"

-----------------------------------------------------------------------------
(* JSON values *)

\* Fault: an escaped quote closes the value.
NextQuote(text, from) ==
    LET found == {i \in from..Len(text) : text[i] = Quote}
    IN  IF found = {} THEN 0 ELSE CHOOSE i \in found : \A j \in found : i <= j

\* How many backslashes stand right before an index, back to the start
Escapes(text, from, i) ==
    Cardinality({j \in from..(i - 1) : \A k \in j..(i - 1) : text[k] = Backslash})

\* The first quote from an index on that is not escaped, or 0
ClosingJsonQuote(text, from) ==
    LET found == {i \in from..Len(text) : text[i] = Quote /\ Escapes(text, from, i) % 2 = 0}
    IN  IF found = {} THEN 0 ELSE CHOOSE i \in found : \A j \in found : i <= j

SensitiveLabelWithoutValue(token) ==
    \E n \in 0..Len(token) :
        /\ \A i \in (n + 1)..Len(token) : token[i] = Colon
        /\ SubSeq(token, 1, n) = <<"label">>
SensitiveJsonKey(token) ==
    SensitiveLabelWithoutValue(token) \/ token \in {<<"bearer">>, <<"field">>}

SkipSpace(text, from) ==
    CHOOSE i \in from..(Len(text) + 1) :
        /\ \A j \in from..(i - 1) : text[j] = Space
        /\ i <= Len(text) => text[i] # Space

AtomAt(text, i) == IF i \in DOMAIN text THEN text[i] ELSE "end"

\* Where the string value of a sensitive key starts and ends: at most one pair
SensitiveRange(text, keyStart) ==
    LET keyEnd == ClosingJsonQuote(text, keyStart + 1) IN
    IF keyEnd = 0 \/ ~SensitiveJsonKey(SubSeq(text, keyStart + 1, keyEnd - 1)) THEN {}
    ELSE LET colon == SkipSpace(text, keyEnd + 1)
             open == IF AtomAt(text, colon) = Colon THEN SkipSpace(text, colon + 1) ELSE 0
             end == IF AtomAt(text, open) = Quote THEN ClosingJsonQuote(text, open + 1) ELSE 0
         IN  IF end = 0 THEN {} ELSE {[start |-> open + 1, end |-> end]}

\* One turn of the loop: where it is, and what it has put out
RedactJsonAt(text, s) ==
    LET found == IF text[s.index] = Quote THEN SensitiveRange(text, s.index) ELSE {}
        range == CHOOSE r \in found : TRUE
    IN  IF s.index > Len(text) THEN s
        ELSE IF found = {} THEN [index |-> s.index + 1, shown |-> Append(s.shown, text[s.index])]
        ELSE [index |-> range.end + 1,
              shown |-> s.shown \o SubSeq(text, s.index, range.start - 1) \o <<"redacted", Quote>>]

\* Every turn goes on by an atom at least.
RedactJsonStringValues(text) ==
    LET turn[k \in 0..Len(text)] ==
            IF k = 0 THEN [index |-> 1, shown |-> <<>>] ELSE RedactJsonAt(text, turn[k - 1])
    IN  turn[Len(text)].shown

-----------------------------------------------------------------------------
(* Words *)

TrimMatches(token, atoms) ==
    LET kept == {i \in DOMAIN token : token[i] \notin atoms}
    IN  IF kept = {} THEN <<>>
        ELSE SubSeq(token, CHOOSE i \in kept : \A j \in kept : i <= j,
                           CHOOSE i \in kept : \A j \in kept : j <= i)
Normalized(token) == TrimMatches(token, {Quote, Comma})

\* The redaction keeps the punctuation a token ends with.
RedactedToken(token) ==
    LET kept == {i \in DOMAIN token : \A j \in i..Len(token) : token[j] \in {Quote, Comma}}
    IN  <<"redacted">> \o SubSeq(token, Len(token) - Cardinality(kept) + 1, Len(token))

Separator(token) ==
    LET found == {i \in DOMAIN token : token[i] \in {Colon, Equals}}
    IN  IF found = {} THEN 0 ELSE CHOOSE i \in found : \A j \in found : i <= j

SensitiveAssignment(token) ==
    Separator(token) # 0 /\ SensitiveJsonKey(SubSeq(token, 1, Separator(token) - 1))
RedactAssignmentToken(token) ==
    SubSeq(token, 1, Separator(token))
        \o RedactedToken(SubSeq(token, Separator(token) + 1, Len(token)))

\* One token: what is put out, and whether the next one is to be redacted
RedactStep(next, token) ==
    LET normalized == Normalized(token)
        out(shown, then) == [shown |-> shown, next |-> then]
        bearer == normalized = <<"bearer">>
        label == bearer \/ SensitiveLabelWithoutValue(normalized)
        assignment == ~label /\ SensitiveAssignment(normalized)
        key == ~label /\ ~assignment /\ normalized # <<>> /\ Head(normalized) = "sk-"
    IN  CASE next /\ bearer -> out(token, TRUE)
          [] next /\ ~bearer -> out(RedactedToken(token), FALSE)
          [] ~next /\ label -> out(token, TRUE)
          [] ~next /\ assignment -> out(RedactAssignmentToken(token), FALSE)
          [] ~next /\ key -> out(RedactedToken(token), FALSE)
          [] OTHER -> out(token, FALSE)

\* split_whitespace, the loop over its tokens, and join: what an atom more makes of the
\* token that is being read, of redact_next and of what is put out
EndToken(s) ==
    LET step == RedactStep(s.next, s.token)
    IN  IF s.token = <<>> THEN s
        ELSE [token |-> <<>>, next |-> step.next,
              shown |-> s.shown \o (IF s.shown = <<>> THEN <<>> ELSE <<Space>>) \o step.shown]
ReadAtom(s, atom) ==
    IF atom = Space THEN EndToken(s)
    ELSE [token |-> Append(s.token, atom), next |-> s.next, shown |-> s.shown]

RedactSensitive(text) ==
    LET redacted == RedactJsonStringValues(text)
        read[n \in 0..Len(redacted)] ==
            IF n = 0 THEN [token |-> <<>>, next |-> FALSE, shown |-> <<>>] ELSE ReadAtom(read[n - 1], redacted[n])
    IN  EndToken(read[Len(redacted)]).shown

\* The proxy's copy
RedactProxyErrorMessage(text) == RedactSensitive(text)

-----------------------------------------------------------------------------
(* Messages, in the ways the program meets secrets *)

EscapedAtom(atom) == IF atom \in {Quote, Backslash} THEN <<Backslash, atom>> ELSE <<atom>>
Escaped(value) ==
    LET written[n \in 0..Len(value)] ==
            IF n = 0 THEN <<>> ELSE written[n - 1] \o EscapedAtom(value[n])
    IN  written[Len(value)]

\* How a value is written: a JSON string of any atoms, or a word after a label
Writings == {"json", "json spaced", "label", "assignment", "header", "bearer", "key"}
Json(way) == way \in {"json", "json spaced"}
Written(way, value) ==
    CASE way = "json" -> <<Quote, "field", Quote, Colon, Quote>> \o Escaped(value) \o <<Quote>>
      [] way = "json spaced" ->
            <<Quote, "label", Quote, Space, Colon, Space, Quote>> \o Escaped(value) \o <<Quote>>
      [] way = "label" -> <<Space, "label", Colon, Space>> \o value \o <<Space>>
      [] way = "assignment" -> <<Space, "label", Equals>> \o value \o <<Space>>
      [] way = "header" -> <<Space, "label", Colon, Space, "bearer", Space>> \o value \o <<Space>>
      [] way = "bearer" -> <<Space, "bearer", Space>> \o value \o <<Comma>>
      [] way = "key" -> <<Space, "sk-">> \o value \o <<Space>>

RedactionInit ==
    \E way \in Writings :
        message = [way |-> way, prefix |-> <<>>, value |-> <<"secret">>, suffix |-> <<>>, pieces |-> 0]

Extended(part, pieces) ==
    /\ message.pieces < MaxPieces
    /\ \E piece \in pieces : message' = [message EXCEPT ![part] = @ \o piece, !.pieces = @ + 1]

\* Around a secret stands anything, keys and labels of other values included.
AroundAtoms == {"word", "label", "field", "bearer", "sk-", Quote, Backslash, Space, Colon, Equals, Comma}
ValueAtoms(way) == IF Json(way) THEN {"secret", Quote, Backslash, Space, Colon} ELSE {"secret", Colon}
Singles(atoms) == {<<atom>> : atom \in atoms}
Phrases == {<<Quote, "label", Quote>>, <<Quote, "label", Quote, Colon, Quote>>}

RedactionNext ==
    \/ Extended("prefix", Singles(AroundAtoms) \cup Phrases)
    \/ Extended("value", Singles(ValueAtoms(message.way)))
    \/ Extended("suffix", Singles(AroundAtoms))

RedactionSpec == RedactionInit /\ [][RedactionNext]_redactionVars

-----------------------------------------------------------------------------
(* Properties *)

LabelWord(token) == Normalized(token) = <<"bearer">> \/ SensitiveLabelWithoutValue(Normalized(token))

\* The first n atoms of a text end with a word that makes redact_next.
LabelBefore(text, n) ==
    \E i, j \in 0..n :
        /\ i < j /\ LabelWord(SubSeq(text, i + 1, j))
        /\ \A k \in (i + 1)..j : text[k] # Space
        /\ i > 0 => text[i] = Space
        /\ \A k \in (j + 1)..n : text[k] = Space

\* At an index a sensitive key starts; behind its colon stands the index where its value is.
KeyOf(text, key, open) ==
    \E keyEnd, colon \in key..open :
        /\ key < keyEnd /\ keyEnd < colon /\ colon < open
        /\ text[key] = Quote /\ text[keyEnd] = Quote /\ text[colon] = Colon
        /\ SensitiveJsonKey(SubSeq(text, key + 1, keyEnd - 1))
        /\ \A k \in (keyEnd + 1)..(open - 1) : k # colon => text[k] = Space

\* In the first n atoms of a text the value of a sensitive key is not closed, or not begun.
ValueOpen(text, n) ==
    \E key \in 1..n, open \in 1..(n + 1) :
        /\ KeyOf(text, key, open)
        /\ open <= n => text[open] = Quote /\ ClosingJsonQuote(text, open + 1) \notin 1..n

\* No piece of a secret is shown when it is the string value of a sensitive JSON key
\* (with spaces, quotes and backslashes in it), an assignment to a label, or the word
\* after a label, a bearer or "sk-", with quotes, backslashes, labels and keys of other
\* values before and after it.  redact_sensitive goes over raw text, so two kinds of text
\* before the secret defeat it and are left out: a label right before a label is answered
\* by redacting the second one, and a sensitive key whose value is still open takes the
\* secret's key for its value.
SecretsNeverShown ==
    LET text == message.prefix \o Written(message.way, message.value) \o message.suffix
        before == Len(message.prefix)
    IN  \/ message.way = "label" /\ LabelBefore(text, before)
        \/ Json(message.way) /\ ValueOpen(text, before)
        \/ "secret" \notin Range(RedactProxyErrorMessage(text))
=============================================================================
