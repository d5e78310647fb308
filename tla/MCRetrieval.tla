---------------------------- MODULE MCRetrieval -----------------------------
(* Mementos of one, two and four chunks of at most five characters;         *)
(* snippets and results few enough that every limit is met: the four chunks *)
(* are all that a recall of two mementos fetches.                           *)
EXTENDS Retrieval

Short == <<"a", "b", "a", " ", "b">>
Long  == <<"a", "b", ".", " ", "B", "a", " ", "a", "a">>
Caps  == <<"a", "B", "a", ".", " ", "B", "b", ".", " ", "B", "B", ".", " ", "B", "b">>

MCInputs == {<<Short, TRUE>>, <<Long, FALSE>>, <<Caps, TRUE>>}

(* All that is made of a few pieces.                                        *)
Pieces ==
    {<<"a", "a">>, <<"B", "b", "a">>, <<"a", "b", "a", "b", "a", "b">>,
     <<".">>, <<" ">>, <<"n">>, <<"n", "n">>}

MCBegan ==
    UNION {{FlattenSeq(s) : s \in [1..n -> Pieces]} : n \in 1..4}

(* Two trigrams each: those of the first are in different texts, the second *)
(* spans two chunks.                                                        *)
MCLiterals == {<<"a", "B", "a", " ">>, <<".", "n", "B", "a">>}

(* One query close to all, and closest to the memento of four chunks; one   *)
(* far from all but one, which shares a word with another.                  *)
Near == <<"b", "a">>
Far  == <<"a", "a">>

MCQueries == {Near, Far}

MCDistance ==
    [q \in MCQueries |-> [t \in Chunks |->
       IF q = Near THEN CASE t = Short -> 4
                          [] t \in Range(Written[Long]) -> Len(t) \div 2 + 1
                          [] OTHER -> 1
       ELSE IF t = Short THEN 7 ELSE 9]]
=============================================================================
