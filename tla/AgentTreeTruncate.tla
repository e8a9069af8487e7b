---------------------------- MODULE AgentTreeTruncate ----------------------------
(***************************************************************************)
(* truncate_output of codex-rs/cli/src/agent_tree_worker.rs, applied by    *)
(* every drain to an ExecCommandEnd's formatted_output.  A &str is a       *)
(* sequence of characters, each of 1 to 4 UTF-8 bytes; a character is      *)
(* abstracted to its width, and its bytes to <<"t", char, position>> so    *)
(* that a lead byte (position 1) is told apart from a continuation byte.  *)
(* The state is the text being truncated, so that every text up to        *)
(* MaxChars characters is visited.                                         *)
(***************************************************************************)
EXTENDS Naturals, Sequences

LOCAL Seqs == INSTANCE SequencesExt

CONSTANTS
    MaxBytes,   \* the max_bytes argument (16_384 at the call site)
    Widths,     \* UTF-8 widths of the characters a text may contain
    MaxChars    \* bound: characters in a text

ASSUME Widths \subseteq 1..4 /\ MaxBytes \in Nat

VARIABLE text

Texts == Seqs!SeqOf(Widths, MaxChars)

\* The bytes of a string whose characters have widths s, tagged by tag.
BytesOf(tag, s) ==
    Seqs!FlattenSeq([i \in DOMAIN s |-> [j \in 1..s[i] |-> <<tag, i, j>>]])

Bytes(t) == BytesOf("t", t)

\* "\n…(truncated)…\n": '\n', '…' (3 bytes), eleven ASCII, '…', '\n'.
MarkerWidths == <<1, 3>> \o [i \in 1..11 |-> 1] \o <<3, 1>>
MarkerBytes == BytesOf("m", MarkerWidths)

\* str::is_char_boundary: the end, or an index whose byte is not a
\* continuation byte.
IsCharBoundary(t, n) ==
    \/ n = 0
    \/ n = Len(Bytes(t))
    \/ n < Len(Bytes(t)) /\ Bytes(t)[n + 1][3] = 1

\* text.len() <= max_bytes returns the text; otherwise text[..max_bytes],
\* which panics unless max_bytes is a char boundary, then the marker.
TruncateOutput(t, max) ==
    IF Len(Bytes(t)) <= max
    THEN [panic |-> FALSE, out |-> Bytes(t)]
    ELSE IF ~IsCharBoundary(t, max)
         THEN [panic |-> TRUE, out |-> <<>>]
         ELSE [panic |-> FALSE,
               out |-> SubSeq(Bytes(t), 1, max) \o MarkerBytes]

TruncInit == text \in Texts

NextText == text' \in Texts

TruncSpec == TruncInit /\ [][NextText]_text

Result == TruncateOutput(text, MaxBytes)

\* truncate_output returns for every text: a command whose output is cut
\* inside a multi-byte character does not panic the drain.
TruncateTotal == ~Result.panic
=============================================================================
