------------------------------ MODULE Chunking -------------------------------
(***************************************************************************)
(* The filing chunker: a text is its number of tokens, a piece the         *)
(* interval of tokens it holds.  No window of a real text is blank, so the *)
(* pieces dropped for being empty are left out.                            *)
(***************************************************************************)
EXTENDS Integers, Sequences, SequencesExt, FiniteSets

CONSTANTS
    MaxText,     \* bound: texts checked have at most so many tokens
    MaxWindow    \* bound: windows and overlaps checked

ASSUME ChunkingAssumption == MaxText \in Nat /\ MaxWindow \in Nat

VARIABLE given   \* the text last given to the chunker, its window and its overlap

NoText == [tokens |-> 0, max_tokens |-> 1, overlap_tokens |-> 0]

ChunkInit == given = NoText

GiveText ==
    \E n \in 0 .. MaxText, w \in 1 .. MaxWindow, o \in 0 .. MaxWindow :
        given' = [tokens |-> n, max_tokens |-> w, overlap_tokens |-> o]

\* Mutant: a window that ends with the text is not yet the last.
reaches_end_late(i, n, max_tokens) == i + max_tokens > n

reaches_end(i, n, max_tokens) == i + max_tokens >= n

\* _token_window: windows of max_tokens, each starting step after the one before,
\* until one reaches the end.
token_window(n, max_tokens, overlap_tokens) ==
    LET step == IF max_tokens > overlap_tokens THEN max_tokens - overlap_tokens ELSE 1
        windows[i \in 0 .. n + step] ==
            IF i >= n THEN <<>>
            ELSE <<i .. (IF i + max_tokens < n THEN i + max_tokens ELSE n) - 1>>
                 \o (IF reaches_end(i, n, max_tokens) THEN <<>> ELSE windows[i + step])
    IN  IF n = 0 THEN <<>>
        ELSE IF n <= max_tokens THEN <<0 .. n - 1>>
        ELSE windows[0]

\* chunk_filing: the sections one by one when there are any (even empty ones),
\* otherwise the full text.
chunk_filing(sections, full_text, max_tokens, overlap_tokens) ==
    IF sections # <<>>
    THEN FlattenSeq([s \in DOMAIN sections |->
            LET pieces == token_window(sections[s], max_tokens, overlap_tokens)
            IN  [k \in DOMAIN pieces |-> <<s, pieces[k]>>]])
    ELSE LET pieces == token_window(full_text, max_tokens, overlap_tokens)
         IN  [k \in DOMAIN pieces |-> <<0, pieces[k]>>]

\* Whatever the length, the window and the overlap (an overlap as large as the window
\* included), the pieces of a text hold every token, none is longer than the window
\* or lies within its predecessor, and neighbours share exactly the overlap
\* (chunking.py:84-112).
ChunksCoverText ==
    LET pieces == token_window(given.tokens, given.max_tokens, given.overlap_tokens) IN
    /\ UNION {pieces[k] : k \in DOMAIN pieces} = 0 .. given.tokens - 1
    /\ \A k \in DOMAIN pieces :
          /\ Cardinality(pieces[k]) \in 1 .. given.max_tokens
          /\ k > 1 => /\ ~ (pieces[k] \subseteq pieces[k - 1])
                      /\ given.overlap_tokens < given.max_tokens =>
                            Cardinality(pieces[k] \cap pieces[k - 1]) = given.overlap_tokens

=============================================================================
