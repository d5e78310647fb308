------------------------------ MODULE Chunker -------------------------------
(***************************************************************************)
(* How a long text is cut into the chunks that are embedded and indexed     *)
(* (core/vault/chunker.ts, Vault.splitChunks).                              *)
(*                                                                          *)
(* A text is a sequence of characters.  The cuts tell five kinds apart, and *)
(* one or two characters stand for each: "a" and "b" for letters, "B" for a *)
(* capital (or a quote), "." for the end of a sentence, " ", and "n" for a  *)
(* line feed.                                                               *)
(***************************************************************************)
EXTENDS Collections

CONSTANT CharLimit     \* CHUNK_CHAR_LIMIT: characters in a chunk

ASSUME CharLimitAssumption == CharLimit \in Nat \ {0}

Letters  == {"a", "b", "B"}
Capitals == {"B"}
Space    == " "
Blanks   == {Space, "n"}
Characters == Letters \cup {"."} \cup Blanks

Places(t) == 1..Len(t)

Trim(t) ==
    LET solid == {i \in Places(t) : t[i] \notin Blanks} IN
      IF solid = {} THEN <<>> ELSE SubSeq(t, Min(solid), Max(solid))

(* Maximal stretches of t whose characters lie in kinds, as <<from, to>>.   *)
Runs(t, kinds) ==
    {g \in Places(t) \X Places(t) :
        /\ g[1] <= g[2] /\ \A h \in g[1]..g[2] : t[h] \in kinds
        /\ g[1] = 1 \/ t[g[1] - 1] \notin kinds
        /\ g[2] = Len(t) \/ t[g[2] + 1] \notin kinds}

(* String.split, without the empty parts: what is left between the gaps.    *)
Parts(t, gaps) ==
    LET gone   == UNION {g[1]..g[2] : g \in gaps}
        starts == {i \in Places(t) : i \notin gone /\ (i = 1 \/ i - 1 \in gone)}
        End(i) == CHOOSE j \in i..Len(t) :
                     i..j \cap gone = {} /\ (j = Len(t) \/ j + 1 \in gone)
        Part(i) == SubSeq(t, i, End(i))
        order   == SortedBy(starts, <)
    IN  [h \in DOMAIN order |-> Part(order[h])]

(* Blank lines part paragraphs; white space between a full stop and a       *)
(* capital parts sentences.                                                 *)
Paragraphs(t) == Parts(t, {g \in Runs(t, {"n"}) : g[2] > g[1]})

Sentences(t) ==
    Parts(t, {g \in Runs(t, Blanks) : /\ g[1] > 1 /\ t[g[1] - 1] = "."
                                      /\ g[2] < Len(t) /\ t[g[2] + 1] \in Capitals})

Solid(texts) == Kept(texts, {h \in DOMAIN texts : Trim(texts[h]) # <<>>})

AllSentences(t) ==
    LET paragraphs == Solid(Paragraphs(t)) IN
      FlattenSeq([h \in DOMAIN paragraphs |-> Sentences(Trim(paragraphs[h]))])

(* Where a stretch longer than a chunk is cut: after how many characters.   *)
Cut(rest) ==
    LET spaces == {i \in 2..CharLimit + 1 : rest[i] = Space} IN
      IF spaces = {} THEN CharLimit ELSE Max(spaces) - 1

splitAtWordBoundary(t) ==
    LET from[p \in 1..Len(t) + 1] ==
          LET rest == SubSeq(t, p, Len(t))
              more == {i \in p + Cut(rest)..Len(t) : t[i] \notin Blanks}
          IN  IF rest = <<>> THEN <<>>
              ELSE IF Len(rest) <= CharLimit THEN <<rest>>
              ELSE <<Trim(SubSeq(rest, 1, Cut(rest)))>>
                     \o (IF more = {} THEN <<>> ELSE from[Min(more)])
    IN  from[1]

NonEmpty(t) == IF t = <<>> THEN <<>> ELSE <<t>>

(* Fault: a long sentence overtakes the chunk that is being filled.         *)
TakeSentence_NoFlush(acc, sentence) ==
    LET candidate == IF acc.current = <<>> THEN sentence ELSE acc.current \o <<Space>> \o sentence IN
      IF Len(sentence) > CharLimit
        THEN [acc EXCEPT !.chunks = @ \o splitAtWordBoundary(sentence)]
      ELSE IF Len(candidate) > CharLimit
        THEN [chunks |-> Append(acc.chunks, Trim(acc.current)), current |-> sentence]
        ELSE [acc EXCEPT !.current = candidate]

(* Fill chunks with whole sentences; one that is too long is cut by itself. *)
TakeSentence(acc, sentence) ==
    LET candidate == IF acc.current = <<>> THEN sentence ELSE acc.current \o <<Space>> \o sentence IN
      IF Len(sentence) > CharLimit
        THEN [chunks  |-> acc.chunks \o NonEmpty(Trim(acc.current)) \o splitAtWordBoundary(sentence),
              current |-> <<>>]
      ELSE IF Len(candidate) > CharLimit
        THEN [chunks |-> Append(acc.chunks, Trim(acc.current)), current |-> sentence]
        ELSE [acc EXCEPT !.current = candidate]

chunkText(t) ==
    LET end == FoldLeft(TakeSentence, [chunks |-> <<>>, current |-> <<>>], AllSentences(t)) IN
      Solid(end.chunks \o NonEmpty(Trim(end.current)))

needsChunking(t) == Len(t) > CharLimit

splitChunks(t) == Solid(IF needsChunking(t) THEN chunkText(t) ELSE <<t>>)

(* Words, as spaces tell them apart.                                        *)
WordsOf(t) == Parts(t, Runs(t, Blanks))

Joined(chunks, char) ==
    FoldLeft(LAMBDA t, c : IF t = <<>> THEN c ELSE t \o <<char>> \o c, <<>>, chunks)

(* A memento's text as the vault gives it back: its chunks, with spaces.    *)
fullText(chunks) == Joined(chunks, Space)

(***************************************************************************)
(* Properties.                                                              *)
(***************************************************************************)
(* Chunks of a text: none is empty or too long for the embedder, and the    *)
(* text given back has the words of the one that was written, in order.     *)
(* Only a word longer than a chunk is cut, or one behind a line feed in a   *)
(* sentence too long for a chunk.                                           *)
Fits(t) ==
    LET chunks  == splitChunks(t)
        written == WordsOf(t)
        given   == WordsOf(fullText(chunks))
    IN  /\ \A h \in DOMAIN chunks : chunks[h] # <<>> /\ Len(chunks[h]) <= CharLimit
        /\ FlattenSeq(given) = FlattenSeq(written)
        /\ given = written \/ \E h \in DOMAIN written : Len(written[h]) > CharLimit
                           \/ "n" \in Range(t)
=============================================================================
