------------------------------ MODULE Ingest ------------------------------
(***************************************************************************)
(* How a file or a page becomes chunks a conversation can retrieve: the     *)
(* loader of web_loader.py, the extraction, chunking and embedding of       *)
(* rag.py, and the rows that documents.py and collections.py write.         *)
(*                                                                          *)
(* A text is a sequence of characters, each TRUE (visible) or FALSE         *)
(* (blank); a chunk is the interval of positions it keeps.  The vector of   *)
(* a chunk is the interval it was computed from.                            *)
(***************************************************************************)
EXTENDS Integers, Sequences, FiniteSets, Lists

CONSTANTS
    Texts,          \* what an extractor may find
    Sizes,          \* chunk_size of the settings the process was started with
    Overlaps,       \* chunk_overlap
    Urls,           \* addresses a loader may be led through
    MaxRedirects,   \* _MAX_REDIRECTS
    MaxDocuments,   \* bound on the documents stored
    None

Interval(a, b) == [from |-> a, to |-> b]

VARIABLES
    pc,
    source,         \* "file" or "url"
    seen,           \* the addresses this load went through
    hops,
    text,           \* what was extracted
    size,
    overlap,
    pieces,         \* the chunks
    stored          \* the documents: [text, size, chunks |-> <<[piece, vector]>>]

vars == <<pc, source, seen, hops, text, size, overlap, pieces, stored>>

-----------------------------------------------------------------------------
(* Chunks. *)

\* str.strip() on the characters from a to b: the interval between the first and the
\* last visible one, None when all are blank.
Strip(t, a, b) ==
    LET visible == {i \in a..b : t[i]}
    IN  IF visible = {} THEN None
        ELSE Interval(CHOOSE i \in visible : \A j \in visible : i <= j,
                      CHOOSE i \in visible : \A j \in visible : j <= i)

\* Mutant: the loop ends with the last whole window.
ChunksOfWholeWindows(t, n, o) ==
    LET lap == IF o >= n THEN n \div 4 ELSE o
        step == IF n - lap > 1 THEN n - lap ELSE 1
        starts == {i \in 1..Len(t) : (i - 1) % step = 0 /\ i + n - 1 <= Len(t)}
        cut == [i \in 1..Len(t) |-> IF i \in starts THEN Strip(t, i, i + n - 1) ELSE None]
    IN  Picked(cut, {i \in DOMAIN cut : cut[i] # None})

\* chunk_text: windows of the size, one step apart, stripped, blank ones left out.
Chunks(t, n, o) ==
    LET lap == IF o >= n THEN n \div 4 ELSE o
        step == IF n - lap > 1 THEN n - lap ELSE 1
        starts == {i \in 1..Len(t) : (i - 1) % step = 0}
        cut == [i \in 1..Len(t) |->
                  IF i \in starts
                  THEN Strip(t, i, IF i + n - 1 < Len(t) THEN i + n - 1 ELSE Len(t))
                  ELSE None]
    IN  Picked(cut, {i \in DOMAIN cut : cut[i] # None})

\* Mutant: the vectors are taken in the order they came.
ArrangedAsSent(data) == [i \in DOMAIN data |-> data[i].vector]

\* embed_texts: the vectors by the index the upstream gave each, 0 when it gave none;
\* the sort is stable.
Arranged(data) ==
    LET order == Sorted(DOMAIN data, [i \in DOMAIN data |-> data[i].index])
    IN  [k \in DOMAIN order |-> data[order[k]].vector]

\* An answer of the embeddings endpoint to the chunks ps: a vector for each, in any
\* order with their indices, in the same order without, or too few of them.
Answers(ps) ==
    LET n == Len(ps)
        At(i, k) == [index |-> k, vector |-> ps[i]]
    IN  {[k \in 1..n |-> At(p[k], p[k] - 1)] : p \in {q \in [1..n -> 1..n] :
                                                       Cardinality({q[i] : i \in 1..n}) = n}}
        \cup {[k \in 1..n |-> At(k, 0)]}
        \cup {[k \in 1..(n - 1) |-> At(k, 0)]}

-----------------------------------------------------------------------------
Init ==
    /\ pc = "idle" /\ source = "file" /\ seen = {} /\ hops = 0 /\ text = <<>>
    /\ size = 1 /\ overlap = 0 /\ pieces = <<>> /\ stored = <<>>

\* The request ends without a row: 400, 413, 415, 422, 502 or 504.
Refused ==
    /\ pc' = "idle"
    /\ source' = "file" /\ seen' = {} /\ hops' = 0 /\ text' = <<>>
    /\ size' = 1 /\ overlap' = 0 /\ pieces' = <<>>
    /\ UNCHANGED stored

\* upload_document, upload_collection_document; add_document_url and its twin.  The
\* settings are read from the environment of the process, which may have been
\* restarted with others since the last document.
Begin ==
    /\ pc = "idle" /\ Len(stored) < MaxDocuments
    /\ size' \in Sizes /\ overlap' \in Overlaps
    /\ \/ /\ source' = "file" /\ seen' = {}
          /\ pc' = "extract"
       \/ \E u \in Urls : source' = "url" /\ seen' = {u} /\ pc' = "fetch"
    /\ hops' = 0
    /\ UNCHANGED <<text, pieces, stored>>

\* One hop of _fetch: a redirect to an address not seen yet is followed, at most
\* MaxRedirects of them; an answer is read; everything else refuses the page.
Fetch ==
    /\ pc = "fetch"
    /\ \/ Refused       \* blocked, unreachable, too large, an HTTP error, out of time
       \/ \E u \in Urls :
            IF u \in seen \/ hops = MaxRedirects THEN Refused
            ELSE /\ seen' = seen \cup {u}
                 /\ hops' = hops + 1
                 /\ UNCHANGED <<pc, source, text, size, overlap, pieces, stored>>
       \/ /\ pc' = "extract"
          /\ UNCHANGED <<source, seen, hops, text, size, overlap, pieces, stored>>

\* extract_document_text for a file, _html_to_text or extract_text for a page: an
\* external service that fails or finds nothing leaves it to the built-in extractor.
Extract ==
    /\ pc = "extract"
    /\ \/ Refused       \* 415, 413; 422 for a page without readable text
       \/ \E t \in Texts :
            /\ source = "url" => \E i \in DOMAIN t : t[i]
            /\ IF Chunks(t, size, overlap) = <<>> THEN Refused      \* 400, no text
               ELSE /\ text' = t
                    /\ pieces' = Chunks(t, size, overlap)
                    /\ pc' = "embed"
                    /\ UNCHANGED <<source, seen, hops, size, overlap, stored>>

\* embed_texts and the count check of prepare_text, then the rows: the document with
\* its text and chunk i with vector i.
Store ==
    /\ pc = "embed"
    /\ \/ Refused       \* 502
       \/ \E data \in Answers(pieces) :
            IF Len(data) # Len(pieces) THEN Refused
            ELSE /\ stored' = Append(stored,
                       [text |-> text, size |-> size,
                        chunks |-> [i \in DOMAIN pieces |->
                                      [piece |-> pieces[i], vector |-> Arranged(data)[i]]]])
                 /\ pc' = "idle" /\ source' = "file" /\ seen' = {} /\ hops' = 0
                 /\ text' = <<>> /\ size' = 1 /\ overlap' = 0 /\ pieces' = <<>>

Next == Begin \/ Fetch \/ Extract \/ Store

Spec == Init /\ [][Next]_vars

-----------------------------------------------------------------------------
(* Properties. *)

TypeOK ==
    /\ pc \in {"idle", "fetch", "extract", "embed"} /\ source \in {"file", "url"}
    /\ seen \subseteq Urls /\ hops \in 0..MaxRedirects
    /\ text \in Texts \cup {<<>>} /\ size \in Sizes \cup {1} /\ overlap \in Overlaps \cup {0}
    /\ Len(stored) <= MaxDocuments

\* Every visible character of a stored text lies in one of its chunks, whatever size
\* and overlap were set; no chunk is blank or longer than the size; they stand in the
\* order of the text; and each has the vector of its own text, in whatever order the
\* upstream answered: what is attached can be retrieved (chunk_text, embed_texts, the
\* zip of the upload handlers).
ChunksFaithful ==
    \A k \in DOMAIN stored :
      LET t == stored[k].text
          cs == stored[k].chunks
      IN  /\ \A i \in DOMAIN t : t[i] => \E c \in DOMAIN cs :
                                             i \in cs[c].piece.from .. cs[c].piece.to
          /\ \A c \in DOMAIN cs :
               /\ t[cs[c].piece.from] /\ t[cs[c].piece.to]
               /\ cs[c].piece.to - cs[c].piece.from < stored[k].size
               /\ c > 1 => cs[c - 1].piece.from <= cs[c].piece.from
               /\ cs[c].vector = cs[c].piece
=============================================================================
