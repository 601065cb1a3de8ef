---------------------------- MODULE Retrieval ----------------------------
(***************************************************************************)
(* What a turn is grounded on: the excerpts retrieve_context of rag.py      *)
(* picks from the attached documents, the web results of web_search.py, the *)
(* numbers both are cited by (_gather_context of conversations.py), and the *)
(* history that is replayed beside them (_budget_history).  Documents may   *)
(* be deleted between two awaits, and every service may fail.               *)
(*                                                                          *)
(* A row is <<document, chunk>>; what a section shows is such a row,        *)
(* <<document, 0>> for a whole document, or <<Web, k>>.  Every body holds   *)
(* bracketed footnote numbers of its own, and so may a label: the file name *)
(* of a document, the title and address of a result.                        *)
(***************************************************************************)
EXTENDS Integers, Sequences, FiniteSets, SequencesExt, Lists

CONSTANTS
    Docs,           \* documents attached to the conversation
    Attachments,    \* the ways they may be: Docs -> [own, full, len, there]
    Settings,       \* [topK, candidates, rerank, hybrid, full, web, messages, tokens]
    Scores,         \* 0 stands for any score that is not positive
    MaxResults,     \* web_search_top_k
    Histories,      \* sequences of the estimated tokens of the messages
    Bracketed,      \* the documents, or Web, whose label holds the number 1
    None

Web == 0         \* stands where a document does
NoContext == <<>>

VARIABLES
    settings,
    docs,           \* [own, full (full_text is stored), len, there]
    pc,
    rows,           \* what the two SELECTs returned
    dense,          \* row number -> cosine score; 0 for a row of another dimension
    sparse,         \* row number -> BM25 score
    top,            \* row numbers in order: _hybrid_rank, then _rerank
    rated,          \* the reranker's usable answers: <<[index, score]>>
    sections,       \* the numbered parts of the context: [n, shows, marks]
    sources,        \* what number n stands for in the client
    memory,         \* the user has persistent memories
    history,
    extra,          \* the message a send adds to its history
    sent            \* what is sent upstream

vars == <<settings, docs, pc, rows, dense, sparse, top, rated, sections, sources, memory,
          history, extra, sent>>

Prefix(s, n) == SubSeq(s, 1, IF n < Len(s) THEN n ELSE Len(s))

Local == /\ rows = <<>> /\ dense = <<>> /\ sparse = <<>> /\ top = <<>> /\ rated = <<>>
         /\ sections = NoContext /\ sources = <<>> /\ memory = FALSE
         /\ history = <<>> /\ extra = <<>> /\ sent = None

Init ==
    /\ settings \in Settings /\ docs \in Attachments
    /\ ~settings.full => \A d \in Docs : docs[d].full      \* only whole documents differ by it
    /\ pc = "own"
    /\ Local

-----------------------------------------------------------------------------
(* Numbered sections. *)

\* The bracketed numbers of a body.
Footnotes == {1, 2}

\* Those of a label, which goes in as it is.
Label(item) == IF item[1] \in Bracketed THEN {1} ELSE {}

\* Mutant: the footnotes of an excerpt keep their brackets.
DefangNothing(numbers) == numbers

\* neutralize_markers: [n] in the body of an excerpt becomes (n).
Defang(numbers) == {}

\* One section per item, numbered from first, with the bracketed numbers it holds.
Sections(items, first) ==
    [k \in DOMAIN items |->
        [n |-> first + k - 1, shows |-> items[k],
         marks |-> {first + k - 1} \cup Label(items[k]) \cup Defang(Footnotes)]]

\* The excerpts found are numbered from 1, each with its source.
Found(items) ==
    /\ sections' = Sections(items, 1) /\ sources' = items
    /\ pc' = "web"
    /\ rows' = <<>> /\ dense' = <<>> /\ sparse' = <<>>

-----------------------------------------------------------------------------
(* The documents. *)

Reading == {"own", "ownTexts", "shared", "sharedTexts"}

\* Another tab deletes a document, or detaches its collection.  What was read stays
\* read, so that only a deletion amid the reads can be noticed.
Delete ==
    /\ pc \in Reading
    /\ \E d \in Docs : docs[d].there /\ docs' = [docs EXCEPT ![d].there = FALSE]
    /\ UNCHANGED <<settings, pc, rows, dense, sparse, top, rated, sections, sources,
                   memory, history, extra, sent>>

Attached(own) == {d \in Docs : docs[d].there /\ docs[d].own = own}

Read(items, next) ==
    /\ rows' = rows \o items
    /\ pc' = next
    /\ UNCHANGED <<settings, docs, dense, sparse, top, rated, sections, sources, memory,
                   history, extra, sent>>

\* _full_document_context: the documents themselves.
WholeRows(own) ==
    LET ds == Ordered(Attached(own), Less(Attached(own)))
    IN  [k \in DOMAIN ds |-> <<ds[k], 0>>]

FullOwn == pc = "own" /\ settings.full /\ Read(WholeRows(TRUE), "ownTexts")
FullShared == pc = "shared" /\ settings.full /\ Read(WholeRows(FALSE), "sharedTexts")

\* _legacy_doc_text: a document stored before its text was kept is read from its chunks
\* by a query of its own, and left out when they are gone.
FullTexts ==
    /\ pc \in {"ownTexts", "sharedTexts"}
    /\ rows' = Picked(rows, {k \in DOMAIN rows : \/ docs[rows[k][1]].full
                                                \/ docs[rows[k][1]].there})
    /\ pc' = IF pc = "ownTexts" THEN "shared" ELSE "cut"
    /\ UNCHANGED <<settings, docs, dense, sparse, top, rated, sections, sources, memory,
                   history, extra, sent>>

\* The characters of the rows before row k.
Before(k) == FoldFunctionOnSet(+, 0, [j \in DOMAIN rows |-> docs[rows[j][1]].len],
                               1..(k - 1))

\* The budget, max_context_tokens or a default, ends the list; the last document is cut.
FullCut ==
    /\ pc = "cut"
    /\ LET budget == IF settings.tokens = 0 THEN 30000 ELSE settings.tokens
       IN  Found([k \in 1..Cardinality({k \in DOMAIN rows : Before(k) < budget})
                    |-> rows[k]])
    /\ UNCHANGED <<settings, docs, top, rated, memory, history, extra, sent>>

-----------------------------------------------------------------------------
(* Excerpts: retrieve_context. *)

ChunkRows(own) ==
    LET chunks == UNION {{d} \X (1..docs[d].len) : d \in Attached(own)}
    IN  Ordered(chunks, {p \in chunks \X chunks :
                           \/ p[1][1] < p[2][1]
                           \/ p[1][1] = p[2][1] /\ p[1][2] < p[2][2]})

\* retrieve_context has nothing to look for.
BlankQuery == pc = "own" /\ ~settings.full /\ Read(<<>>, "web")

ReadOwn == pc = "own" /\ ~settings.full /\ Read(ChunkRows(TRUE), "shared")
ReadShared ==
    /\ pc = "shared" /\ ~settings.full
    /\ LET items == ChunkRows(FALSE)
       IN  Read(items, IF rows \o items = <<>> THEN "web" ELSE "embed")

\* embed_texts of the query: 502 ends the turn, otherwise every row has its scores.
Embed ==
    /\ pc = "embed"
    /\ \/ /\ pc' = "failed"
          /\ rows' = <<>>
          /\ UNCHANGED <<dense, sparse>>
       \/ /\ dense' \in [DOMAIN rows -> Scores]
          /\ sparse' \in [DOMAIN rows -> IF settings.hybrid THEN Scores ELSE {0}]
          /\ pc' = "rank"
          /\ UNCHANGED rows
    /\ UNCHANGED <<settings, docs, top, rated, sections, sources, memory, history, extra, sent>>

\* The rows with a positive score.
Positive(score) == {k \in DOMAIN rows : score[k] > 0}

\* Mutant: the sort is not reversed.
ListedAscending(score) == Sorted(Positive(score), score)

\* The rows with a positive score, best first.
Listed(score) == Sorted(Positive(score), [k \in Positive(score) |-> -score[k]])

Place(list, k) == IF k \in ToSet(list) THEN CHOOSE p \in DOMAIN list : list[p] = k ELSE 0

\* 1 / (_RRF_K + rank) of both lists, as a fraction.
Fused(list1, list2, k) ==
    LET Part(p) == IF p = 0 THEN <<0, 1>> ELSE <<1, 60 + p>>
        a == Part(Place(list1, k))
        b == Part(Place(list2, k))
    IN  <<a[1] * b[2] + b[1] * a[2], a[2] * b[2]>>

\* _hybrid_rank: the sum decides, then the order in which the lists name the rows.
Hybrid(n) ==
    LET list1 == Listed(dense)
        list2 == Listed(sparse)
        both == list1 \o list2
        F(k) == Fused(list1, list2, k)
        First(k) == CHOOSE p \in DOMAIN both : both[p] = k /\ \A q \in 1..(p - 1) : both[q] # k
        Above(i, j) == LET x == F(i)[1] * F(j)[2]
                           y == F(j)[1] * F(i)[2]
                       IN  x > y \/ (x = y /\ First(i) < First(j))
        in == ToSet(both)
    IN  IF settings.hybrid
        THEN Prefix(Ordered(in, {p \in in \X in : Above(p[1], p[2])}), n)
        ELSE Prefix(list1, n)

Excerpts(order) == [k \in DOMAIN order |-> rows[order[k]]]

CandidateK == IF settings.rerank /\ settings.candidates > settings.topK
              THEN settings.candidates ELSE settings.topK

\* A reranker is asked about a wider list of at least two; otherwise topK are taken.
Rank ==
    /\ pc = "rank"
    /\ LET order == Hybrid(CandidateK)
       IN  IF settings.rerank /\ Len(order) > 1
           THEN /\ top' = order
                /\ pc' = "rerank"
                /\ dense' = <<>> /\ sparse' = <<>>
                /\ UNCHANGED <<rows, sections, sources>>
           ELSE /\ top' = Prefix(order, settings.topK)
                /\ Found(Excerpts(top'))
    /\ UNCHANGED <<settings, docs, rated, memory, history, extra, sent>>

\* Items of the reranker's answer that name a candidate.
Usable(answer) == Picked(answer, {k \in DOMAIN answer : answer[k].index \in DOMAIN top})

ByScore(items) ==
    LET order == Sorted(DOMAIN items, [k \in DOMAIN items |-> -items[k].score])
    IN  [k \in DOMAIN order |-> top[items[order[k]].index]]

\* Mutant: an index answered twice is taken twice.
ChosenTwice(items) ==
    IF items = <<>> THEN Prefix(top, settings.topK) ELSE Prefix(ByScore(items), settings.topK)

\* _rerank: by the score given, each index once; nothing usable leaves the hybrid order.
Chosen(items) ==
    IF items = <<>> THEN Prefix(top, settings.topK)
    ELSE LET named == ByScore(items)
             once == {k \in DOMAIN named : \A j \in 1..(k - 1) : named[j] # named[k]}
         IN  Prefix(Picked(named, once), settings.topK)

\* Answers of up to two items; index 0 and the one past the list name no candidate.  A
\* failure or an answer off the contract is the empty one.
Items == [index : 0..(Len(top) + 1), score : {0, 1}]
Rerank ==
    /\ pc = "rerank"
    /\ \E answer \in {<<>>} \cup {<<i>> : i \in Items} \cup {<<i, j>> : i, j \in Items} :
         /\ rated' = Usable(answer)
         /\ top' = Chosen(rated')
         /\ Found(Excerpts(top'))
    /\ UNCHANGED <<settings, docs, memory, history, extra, sent>>

-----------------------------------------------------------------------------
(* The rest of the context, and the history. *)

\* Mutant: the web results are numbered from 1 again.
SearchFromOne ==
    /\ pc = "web"
    /\ \E n \in IF settings.web THEN 0..MaxResults ELSE {0} :
         LET items == [k \in 1..n |-> <<Web, k>>]
         IN  /\ sections' = sections \o Sections(items, 1)
             /\ sources' = sources \o items
    /\ top' = <<>> /\ rated' = <<>>
    /\ pc' = "compose"
    /\ UNCHANGED <<settings, docs, rows, dense, sparse, memory, history, extra, sent>>

\* search and format_context: no result when anything fails; the numbers go on after
\* those of the excerpts.
Search ==
    /\ pc = "web"
    /\ \E n \in IF settings.web THEN 0..MaxResults ELSE {0} :
         LET items == [k \in 1..n |-> <<Web, k>>]
         IN  /\ sections' = sections \o Sections(items, Len(sources) + 1)
             /\ sources' = sources \o items
    /\ top' = <<>> /\ rated' = <<>>
    /\ pc' = "compose"
    /\ UNCHANGED <<settings, docs, rows, dense, sparse, memory, history, extra, sent>>

From(s, k) == SubSeq(s, k, Len(s))
Limited(h) == IF settings.messages > 0 /\ Len(h) > settings.messages
              THEN From(h, Len(h) - settings.messages + 1) ELSE h

\* running: the tokens of the newest k messages.
Newest(s) ==
    LET sum[k \in 0..Len(s)] == IF k = 0 THEN 0 ELSE sum[k - 1] + s[Len(s) - k + 1]
    IN  sum

\* The loop over the messages, the newest first, ends before the first that is over.
KeptBefore(s, over) ==
    IF over = {} THEN s
    ELSE From(s, Len(s) + 2 - (CHOOSE k \in over : \A j \in over : k <= j))

\* Mutant: the newest message must fit like the others.
BudgetStrict(h) ==
    LET s == Limited(h)
    IN  IF settings.tokens = 0 THEN s
        ELSE KeptBefore(s, {k \in 1..Len(s) : Newest(s)[k] > settings.tokens})

\* _budget_history: by count, then from the newest back until one does not fit; the
\* newest is kept whatever its size.
Budget(h) ==
    LET s == Limited(h)
    IN  IF settings.tokens = 0 THEN s
        ELSE KeptBefore(s, {k \in 2..Len(s) : Newest(s)[k] > settings.tokens})

\* Mutant: the new message counts like the history.
ComposeWithin ==
    /\ pc = "compose"
    /\ memory' \in BOOLEAN
    /\ history' \in Histories
    /\ extra' \in {h \in Histories : Len(h) <= 1}
    /\ sent' = [context |-> memory' \/ sections # NoContext,
                messages |-> Budget(history' \o extra')]
    /\ pc' = "sent"
    /\ sections' = NoContext /\ sources' = <<>>
    /\ UNCHANGED <<settings, docs, rows, dense, sparse, top, rated>>

\* load_memory_context and _build_upstream_messages: the context, the history within
\* its budget, and the new message of a send; the first and the last are never trimmed.
\* The parts the context was made of are followed no further.
Compose ==
    /\ pc = "compose"
    /\ memory' \in BOOLEAN
    /\ history' \in Histories
    /\ extra' \in {h \in Histories : Len(h) <= 1}
    /\ sent' = [context |-> memory' \/ sections # NoContext,
                messages |-> Budget(history') \o extra']
    /\ pc' = "sent"
    /\ sections' = NoContext /\ sources' = <<>>
    /\ UNCHANGED <<settings, docs, rows, dense, sparse, top, rated>>

Next ==
    \/ Delete \/ FullOwn \/ FullShared \/ FullTexts \/ FullCut
    \/ BlankQuery \/ ReadOwn \/ ReadShared \/ Embed \/ Rank \/ Rerank \/ Search \/ Compose

Spec == Init /\ [][Next]_vars

-----------------------------------------------------------------------------
(* Properties. *)

TypeOK ==
    /\ settings \in Settings
    /\ pc \in Reading \cup {"cut", "embed", "rank", "rerank", "web", "compose", "sent", "failed"}
    /\ \A k \in DOMAIN rows : rows[k][1] \in Docs
    /\ {dense, sparse} \subseteq [DOMAIN rows -> Scores] \cup {<<>>}
    /\ ToSet(top) \subseteq DOMAIN rows \/ pc = "web"
    /\ history \in Histories \cup {<<>>}

\* A section's number stands for what the section shows, in the client as in the
\* context: excerpts, whole documents and web results share one numbering, whatever
\* failed, was deleted or did not fit.  No body adds a bracketed number; a label may, and
\* so may a memory, which is no section (retrieve_context, _full_document_context,
\* format_context, _gather_context).
CitationsResolve ==
    /\ Len(sections) = Len(sources)
    /\ \A k \in DOMAIN sections :
         LET s == sections[k]
         IN  /\ s.n \in DOMAIN sources /\ sources[s.n] = s.shows
             /\ s.marks \subseteq {s.n} \cup Label(s.shows)

\* Ahead in a ranking: a better score, or neither is listed.
Ahead(score, j, i) == score[j] > score[i] \/ (score[j] = 0 /\ score[i] = 0)

\* The ranking takes distinct rows that score at all, as many as there are up to the
\* limit, and never one row while it leaves out another that beats it in both rankings.
\* The reranker only reorders: distinct candidates, none it rated better left out, and
\* the hybrid order when it says nothing (_hybrid_rank, _rerank).
ExcerptsAreBest ==
    [][/\ pc = "rank" =>
            LET in == ToSet(top')
                listed == {k \in DOMAIN rows : dense[k] > 0 \/ sparse[k] > 0}
            IN  /\ Cardinality(in) = Len(top') /\ in \subseteq listed
                /\ \/ in = listed
                   \/ Len(top') = IF pc' = "rerank" THEN CandidateK ELSE settings.topK
                /\ \A i \in in, j \in listed \ in :
                     ~(Ahead(dense, j, i) /\ Ahead(sparse, j, i))
       /\ pc = "rerank" =>
            LET in == ToSet(top')
                Rated(r) == {rated'[k].score : k \in {x \in DOMAIN rated' : top[rated'[x].index] = r}}
            IN  /\ Cardinality(in) = Len(top') /\ Len(top') <= settings.topK
                /\ rated' = <<>> => top' = Prefix(top, settings.topK)
                /\ rated' # <<>> =>
                     \A r \in ToSet(top) \ in : \A s \in Rated(r) :
                       /\ Len(top') = settings.topK
                       /\ \A i \in in : \E x \in Rated(i) : x >= s
      ]_vars

\* What is replayed is the longest run of the newest messages within both limits, the
\* newest itself whatever its size.  The limits bound nothing else: the context counts
\* for neither and goes whenever there is a section or a memory, and so does the new
\* message of a send, after the history (_budget_history, _build_upstream_messages).
BudgetKeepsNewest ==
    [][pc' = "sent" /\ pc # "sent" =>
         LET Fits(s) == /\ settings.messages = 0 \/ Len(s) <= settings.messages
                        /\ settings.tokens = 0 \/ Newest(s)[Len(s)] <= settings.tokens \/ Len(s) = 1
             fitting == {k \in DOMAIN history' : Fits(From(history', k))}
         IN  /\ sent'.context <=> memory' \/ sources # <<>>
             /\ IF history' = <<>> THEN sent'.messages = extra'
                ELSE \E k \in fitting : /\ sent'.messages = From(history', k) \o extra'
                                        /\ \A j \in fitting : k <= j
      ]_vars
=============================================================================
