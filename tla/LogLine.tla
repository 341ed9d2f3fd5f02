------------------------------ MODULE LogLine ------------------------------
(***************************************************************************)
(* logLineBuf.trim of src/logger.go, which LogMessage.Flush applies to     *)
(* every line before writing it and before copying it to a carbon copy:   *)
(* a loop from the end of the buffer over its bytes that stops at the      *)
(* first byte not in the list of blanks, then buf.Truncate(i).             *)
(*                                                                         *)
(* A line is its bytes, drawn from a small alphabet that stands for the    *)
(* classes that matter: an ASCII blank, an ASCII letter, lead bytes of two *)
(* byte UTF-8 sequences (0xC2, 0xD0) and continuation bytes (0x80, 0x85,   *)
(* 0xA0). The text of a log line is UTF-8: format strings, and names and   *)
(* values that the program logs, such as USB string descriptors.           *)
(***************************************************************************)
EXTENDS Naturals, Sequences

CONSTANTS
    Alphabet,   \* the bytes a line is made of
    MaxLen      \* the longest line

ASSUME Alphabet \subseteq 0..255 /\ MaxLen \in Nat

\* The byte values of the case list of trim: '\t', '\n', '\v', '\f', '\r',
\* ' ', 0x85 and 0xA0.
TrimBytes == {9, 10, 11, 12, 13, 32, 133, 160}

\* Every line of up to MaxLen bytes.
Inputs == UNION {[1..n -> Alphabet] : n \in 0..MaxLen}

VARIABLES
    line,   \* the bytes Add formatted into the buffer
    buf,    \* the buffer, truncated when the loop ends
    i,      \* the loop index: bytes[i-1] in Go is line[i] here
    done    \* trim has returned

vars == <<line, buf, i, done>>

\* One iteration: the byte before i is one of the cases, so the loop goes on.
Scan ==
    /\ ~done
    /\ i > 0
    /\ line[i] \in TrimBytes
    /\ i' = i - 1
    /\ UNCHANGED <<line, buf, done>>

\* The loop ends at the start of the line or at the default case (break
\* loop); buf.Truncate(i) keeps the first i bytes.
Truncate ==
    /\ ~done
    /\ ~(i > 0 /\ line[i] \in TrimBytes)
    /\ buf' = SubSeq(buf, 1, i)
    /\ done' = TRUE
    /\ UNCHANGED <<line, i>>

Init ==
    /\ line \in Inputs
    /\ buf = line
    /\ i = Len(line)
    /\ done = FALSE

Next == Scan \/ Truncate

Spec == Init /\ [][Next]_vars

-----------------------------------------------------------------------------
(* The reference: what removing trailing white space means for UTF-8 text, *)
(* bytes.TrimRightFunc(b, unicode.IsSpace). The cases of trim are exactly  *)
(* the Latin-1 white space of unicode.IsSpace, whose last two are the code *)
(* points U+0085 and U+00A0, encoded as 0xC2 0x85 and 0xC2 0xA0.           *)

IsCont(b) == b \in 128..191
IsLead(b) == b \in 194..223

RECURSIVE ValidUtf8(_)
\* The line is well-formed UTF-8 made of one- and two-byte sequences.
ValidUtf8(s) ==
    \/ s = <<>>
    \/ s[1] < 128 /\ ValidUtf8(Tail(s))
    \/ /\ Len(s) >= 2 /\ IsLead(s[1]) /\ IsCont(s[2])
       /\ ValidUtf8(SubSeq(s, 3, Len(s)))

RECURSIVE TrimRef(_)
\* Trailing runes that are white space removed, one whole rune at a time.
TrimRef(s) ==
    LET n == Len(s) IN
    IF n >= 1 /\ s[n] \in {9, 10, 11, 12, 13, 32}
    THEN TrimRef(SubSeq(s, 1, n - 1))
    ELSE IF n >= 2 /\ s[n - 1] = 194 /\ s[n] \in {133, 160}
    THEN TrimRef(SubSeq(s, 1, n - 2))
    ELSE s

-----------------------------------------------------------------------------
(* Properties.                                                             *)

\* The comment of trim ("removes trailing spaces") and its case list, which
\* names the white space code points U+0085 and U+00A0: for a line of
\* UTF-8 text, the line Flush writes is the text without its trailing
\* white space, and in particular still UTF-8, whatever its last
\* character is.
TrimKeepsText ==
    done /\ ValidUtf8(line) => buf = TrimRef(line)
=============================================================================
