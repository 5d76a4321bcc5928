------------------------------- MODULE Scrub --------------------------------
(***************************************************************************)
(* internal/pipeline/scrub.go: what is left of an error message before it  *)
(* is logged, carried through the queue, and stored as failure reason.     *)
(*                                                                         *)
(* A message is a sequence of bytes: letters, a blank, a newline, and one  *)
(* two-byte rune.  The text that replaces a secret counts as one byte.     *)
(***************************************************************************)
EXTENDS Integers, SequencesExt

CONSTANTS
    Letters,                 \* one-byte runes
    MinSecret,               \* the shortest secret that is looked for (8)
    MaxErrorMessageBytes,    \* 400 in the code
    MaxItems,                \* bound: runes in a message that is checked
    MaxSecrets               \* bound: secrets configured at once

Redacted == "[redacted]"
Ellipsis == <<".", ".", ".">>
Blanks == {" ", "\n"}
Rune == <<"lead", "rest">>

\* Letters are what secrets are made of: a dot may be one, but no blank.
ASSUME ScrubAssumption ==
    /\ Letters \cap ({Redacted, "lead", "rest"} \cup Blanks) = {}
    /\ MinSecret \in Nat \ {0}
    /\ MaxErrorMessageBytes \in Nat /\ MaxErrorMessageBytes >= Len(Ellipsis)
    /\ MaxItems \in Nat /\ MaxSecrets \in Nat

RuneStart(byte) == byte # "rest"

\* The secret stands in msg at byte i.
StandsAt(secret, msg, i) ==
    /\ i + Len(secret) - 1 <= Len(msg)
    /\ SubSeq(msg, i, i + Len(secret) - 1) = secret

\* strings.ReplaceAll, from left to right.
ReplaceSecret(msg, secret) ==
    LET from[i \in 1 .. Len(msg) + 1] ==
            CASE i > Len(msg) -> <<>>
              [] StandsAt(secret, msg, i) ->
                    <<Redacted>> \o from[i + Len(secret)]
              [] OTHER -> <<msg[i]>> \o from[i + 1]
    IN from[1]

\* strings.Join(strings.Fields(msg), " ")
AddByte(line, byte) ==
    CASE byte \notin Blanks -> Append(line, byte)
      [] byte \in Blanks /\ line # <<>> /\ Last(line) # " " -> Append(line, " ")
      [] OTHER -> line

OneLine(msg) ==
    LET line == FoldLeft(AddByte, <<>>, msg) IN
    IF line # <<>> /\ Last(line) = " " THEN Front(line) ELSE line

\* MUTANT of Truncate: the cut may fall inside a rune.
TruncateAnywhere(msg, limit) ==
    IF Len(msg) <= limit THEN msg
    ELSE SubSeq(msg, 1, limit - Len(Ellipsis)) \o Ellipsis

\* The last place for the cut that is not inside a rune.
Truncate(msg, limit) ==
    LET end == limit - Len(Ellipsis)
        places == {n \in 0 .. end : n = 0 \/ RuneStart(msg[n + 1])}
    IN IF Len(msg) <= limit THEN msg
       ELSE SubSeq(msg, 1, CHOOSE n \in places : \A k \in places : k <= n)
                \o Ellipsis

\* Where in the configuration the secrets are that are long enough to be one.
Long(secrets) == {i \in DOMAIN secrets : Len(secrets[i]) >= MinSecret}

Arrange(secrets, order) == [n \in DOMAIN order |-> secrets[order[n]]]

Orders(secrets) == Bijection(1 .. Cardinality(Long(secrets)), Long(secrets))

\* MUTANT of NewScrubber: the secrets are in any order.
NewScrubberUnsorted(secrets) ==
    {Arrange(secrets, order) : order \in Orders(secrets)}

LongestFirst(scrubber) ==
    \A m, n \in DOMAIN scrubber : m < n => Len(scrubber[m]) >= Len(scrubber[n])

\* The sort is not stable: secrets of one length may change places.
NewScrubber(secrets) ==
    {scrubber \in {Arrange(secrets, order) : order \in Orders(secrets)} :
        LongestFirst(scrubber)}

CleanMessage(scrubber, msg) ==
    Truncate(OneLine(FoldLeft(ReplaceSecret, msg, scrubber)), MaxErrorMessageBytes)

----------------------------------------------------------------------------
(* Properties.                                                             *)

Runes == {<<b>> : b \in Letters \cup Blanks} \cup {Rune}

AddRune(msg, rune) == msg \o rune

Messages ==
    {FoldLeft(AddRune, <<>>, m) : m \in UNION {[1 .. n -> Runes] : n \in 0 .. MaxItems}}

\* A secret that ended with a dot could end in the ellipsis.
Secrets ==
    {s \in UNION {[1 .. n -> Letters] : n \in MinSecret - 1 .. MinSecret + 1} :
        s # <<>> => Last(s) # "."}

Configured == UNION {[1 .. n -> Secrets] : n \in 0 .. MaxSecrets}

Mentions(msg, secret) == \E i \in DOMAIN msg : StandsAt(secret, msg, i)

ValidUTF8(msg) ==
    \A i \in 1 .. Len(msg) :
        /\ msg[i] = "lead" => i < Len(msg) /\ msg[i + 1] = "rest"
        /\ msg[i] = "rest" => i > 1 /\ msg[i - 1] = "lead"

\* "safe to log, to carry through the queue, and to serve to a client"
\* (scrub.go): no configured secret, one line, bounded, still text; and the
\* message is scrubbed once by instrument and again by the hooks, which
\* changes nothing.
ScrubbedIsSafe ==
    \A secrets \in Configured : \A scrubber \in NewScrubber(secrets) :
        \A msg \in Messages :
            LET clean == CleanMessage(scrubber, msg) IN
            /\ \A i \in DOMAIN scrubber : ~ Mentions(clean, scrubber[i])
            /\ \A i \in DOMAIN clean : clean[i] # "\n"
            /\ Len(clean) <= MaxErrorMessageBytes
            /\ ValidUTF8(clean)
            /\ CleanMessage(scrubber, clean) = clean

\* "a secret that contains another ... is replaced as a whole rather than
\* leaving a fragment" (scrub.go), in whichever order they are configured.
SecretsReplacedWhole ==
    \A secrets \in Configured : \A scrubber \in NewScrubber(secrets) :
        \A i \in DOMAIN scrubber :
            CleanMessage(scrubber, scrubber[i]) = <<Redacted>>
=============================================================================
