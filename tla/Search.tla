------------------------------- MODULE Search -------------------------------
(***************************************************************************)
(* Index.Search, behind kb_search and kb_list: which documents of the      *)
(* index a query finds and in which order.  The index is a Go map, walked  *)
(* in any order; the insertion sort has to make one ranking of them all.   *)
(*                                                                         *)
(* A text is the set of query words it contains.  A concept keeps its      *)
(* texts, tags and status; its type is its document's (KbTools).           *)
(***************************************************************************)
EXTENDS KbTools

Ext == INSTANCE SequencesExt

CONSTANTS
    Term,      \* lowercased query words
    Tag,
    TextOf,    \* concept -> its title, description and body, tags, status
    Queries    \* queries made: words in order, types ({} or one), tags

Text == [title : SUBSET Term, description : SUBSET Term, body : SUBSET Term,
         tags : SUBSET Tag, deprecated : BOOLEAN]

Query == [words : Seq(Term), types : SUBSET Name, tags : SUBSET Tag]

ASSUME SearchAssumption ==
    /\ TextOf \in [Id -> Text]
    /\ \A query \in Queries : query \in Query

-----------------------------------------------------------------------------
Weight(text, word) ==
    (IF word \in text.title THEN 3 ELSE 0)
        + (IF word \in text.description THEN 2 ELSE 0)
        + (IF word \in text.body THEN 1 ELSE 0)

\* A query without words finds everything, a word given twice counts twice.
Score(text, words) ==
    LET Sum[n \in 0..Len(words)] ==
          IF n = 0 THEN 0 ELSE Sum[n - 1] + Weight(text, words[n])
    IN  IF words = << >> THEN 1 ELSE Sum[Len(words)]

MatchesType(document, filter) == \A name \in filter : EqualFold(document.type, name)

MatchesAnyTag(text, tags) == tags # {} => text.tags \intersect tags # {}

Result(p, text, words) ==
    [path |-> p, score |-> Score(text, words), deprecated |-> text.deprecated]

\* What a query finds among the documents of an index.
Results(documents, query) ==
    {Result(p, TextOf[documents[p].file.id], query.words) :
        p \in {q \in Path :
            /\ documents[q] # None
            /\ MatchesType(documents[q], query.types)
            /\ MatchesAnyTag(TextOf[documents[q].file.id], query.tags)
            /\ Score(TextOf[documents[q].file.id], query.words) > 0}}

\* Mutant: equal scores are left in the order they were found.
ScoreOnly(a, b) ==
    IF a.deprecated # b.deprecated THEN b.deprecated ELSE a.score > b.score

LessResult(a, b) ==
    IF a.deprecated # b.deprecated THEN b.deprecated
    ELSE a.score > b.score \/ (a.score = b.score /\ a.path < b.path)

\* One round of sortResults: r moves left as long as it is less.
Sink(sorted, r) ==
    LET passed == {k \in DOMAIN sorted :
                      \A j \in k..Len(sorted) : LessResult(r, sorted[j])}
    IN  Ext!InsertAt(sorted, Len(sorted) - Cardinality(passed) + 1, r)

SortResults(found) ==
    LET Sorted[n \in 0..Len(found)] ==
          IF n = 0 THEN << >> ELSE Sink(Sorted[n - 1], found[n])
    IN  Sorted[Len(found)]

\* The answers to a query, one for each order the map may be walked in.
Search(query) ==
    {SortResults(found) : found \in Ext!SetToSeqs(Results(index, query))}

-----------------------------------------------------------------------------
\* Between requests kb_search and kb_list find every concept of the bundle
\* the query is about, once and as its file is now, and in one order only:
\* deprecated concepts last, then by score, then by path, however many the
\* sort has to move and in whichever order the map yielded them.
SearchRanksTheBundle ==
    (\A s \in Session : todo[s] = << >>) =>
        \A query \in Queries : \A answer \in Search(query) :
            /\ Ext!ToSet(answer) = Results(Indexed, query)
            /\ \A j, k \in DOMAIN answer : j < k =>
                  LET a == answer[j]
                      b == answer[k]
                  IN  CASE ~a.deprecated /\ b.deprecated -> TRUE
                        [] a.deprecated /\ ~b.deprecated -> FALSE
                        [] OTHER -> a.score >= b.score /\ (a.score = b.score => a.path < b.path)
=============================================================================
