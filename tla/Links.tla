-------------------------------- MODULE Links --------------------------------
(***************************************************************************)
(* internal/bundle/links.go and its uses by writes and moves: which        *)
(* markdown links a text has outside code, what they resolve to, and how   *)
(* normalisation and moves rewrite them.                                   *)
(*                                                                         *)
(* A text is a sequence of tokens: line breaks, backtick runs, the marks   *)
(* that open and close fenced blocks, a line's indentation, plain text,    *)
(* markdown links and bare paths.  A link is one token, so a code span     *)
(* holds it whole or not at all.  A path is the sequence of its segments.  *)
(***************************************************************************)
EXTENDS Naturals, SequencesExt, FiniteSetsExt

CONSTANTS
    Concepts,    \* paths at which a concept exists
    Former,      \* former path -> the concept that has it as an alias
    Moves,       \* the batch: source path -> target path
    Tokens,      \* field -> the tokens the author uses there
    MaxFront,    \* bound on the tokens of the frontmatter,
    MaxTokens    \* and of the whole file

ASSUME MovesAssumption ==
    /\ DOMAIN Moves \subseteq Concepts
    /\ \A p \in DOMAIN Moves : Moves[p] \notin Concepts
\* Concepts are files the walk finds or moves to a ValidatePath: no segment
\* is empty or a dot, and none goes up.
ASSUME PathsAssumption ==
    \A p \in Concepts \union {Moves[q] : q \in DOMAIN Moves} :
        p \in Seq(STRING) /\ p # << >> /\ \A i \in DOMAIN p : p[i] \notin {"", ".", ".."}
ASSUME FormerAssumption ==
    \A p \in DOMAIN Former : p \notin Concepts /\ Former[p] \in Concepts

VARIABLES
    source,   \* the concept's path
    lead,     \* the blanks its body was sent with, trimmed when it is read
    fields    \* what reading the file gives: field -> text

vars == <<source, lead, fields>>

-----------------------------------------------------------------------------
(* Tokens.                                                                 *)

Mark(kind) == [kind |-> kind]

Newline == Mark("newline")
Tick == Mark("tick")        \* one backtick
Ticks == Mark("ticks")      \* three backticks
Tildes == Mark("tildes")    \* three tildes
Indent == Mark("indent")    \* four spaces
Plain == Mark("plain")      \* text without any of these

\* Targets, absolute, relative or with a scheme, and their #anchor.
Target(form, segments, anchor) == [form |-> form, segments |-> segments, anchor |-> anchor]

Link(target) == [kind |-> "link", target |-> target]

\* A path written out, with or without a leading slash: dir/slug.md.
Bare(segments) == [kind |-> "bare", segments |-> segments]

\* The fields an author fills, in the order the file has them.
FrontFields == {"title", "description", "resource", "tags"}
Fields == FrontFields \union {"body"}

\* Those links are read from, and those mentions are searched in.
MarkdownFields == {"title", "description", "body"}
MentionFields == MarkdownFields \union {"resource"}

\* A text of the frontmatter is one line: yaml lays out longer ones otherwise.
ASSUME TokensAssumption == \A f \in FrontFields : Newline \notin Tokens[f]

-----------------------------------------------------------------------------
(* Paths.                                                                  *)

NoPath == << >>
Escape == <<"..">>

\* path.Clean and path.Join, one segment at a time: above the root there is
\* nothing for an absolute target, and what is outside for a relative one.
Enter(form, p, segment) ==
    CASE p = Escape -> Escape
      [] p # Escape /\ segment \in {"", "."} -> p
      [] p # Escape /\ segment = ".." ->
            IF p # << >> THEN Front(p) ELSE IF form = "absolute" THEN << >> ELSE Escape
      [] OTHER -> Append(p, segment)

Resolve(from, target) ==
    LET At[n \in 0..Len(target.segments)] ==
          IF n = 0 THEN IF target.form = "absolute" THEN << >> ELSE Front(from)
          ELSE Enter(target.form, At[n - 1], target.segments[n])
        p == At[Len(target.segments)]
    IN  IF p = Escape THEN NoPath ELSE p

\* Mutant: the leading slash is forgotten.
SlashForgotten(p, anchor) == Target("relative", p, anchor)

CanonicalTarget(p, anchor) == Target("absolute", p, anchor)

IsConceptLink(token) ==
    token.kind = "link" /\ token.target.form \in {"absolute", "relative"}

-----------------------------------------------------------------------------
(* Code.                                                                   *)

BacktickWidth(token) ==
    CASE token = Tick -> 1 [] token = Ticks -> 3 [] OTHER -> 0

LineStart(text, i) == i = 1 \/ text[i - 1] = Newline

Ticked(text, P) == {i \in P : BacktickWidth(text[i]) > 0}

\* The last of the ticked positions T that follow i without a gap.
RunEnd(text, T, i) == Min({j \in i..(Len(text) + 1) : j \notin T}) - 1

RunWidth(text, i, j) ==
    Cardinality(i..j) + 2 * Cardinality({k \in i..j : text[k] = Ticks})

\* The maximal backtick runs among the positions P of a text.
Runs(text, P) ==
    LET T == Ticked(text, P)
    IN  {[first |-> i, last |-> RunEnd(text, T, i),
          width |-> RunWidth(text, i, RunEnd(text, T, i))] :
            i \in {j \in T : j - 1 \notin T}}

\* The mark the line beginning at i has to open or close a fenced block.
FenceMark(text, runs, i) ==
    CASE text[i] = Tildes -> "tildes"
      [] text[i] # Tildes /\ \E run \in runs : run.first = i /\ run.width >= 3 -> "ticks"
      [] OTHER -> "none"

\* The marks of a text's lines, each where its line begins.
Marks(text) ==
    LET runs == Runs(text, 1..Len(text))
    IN  [i \in 1..Len(text) |->
            IF LineStart(text, i) THEN FenceMark(text, runs, i) ELSE "inside"]

\* What a line with this mark leaves open, and whether it is code.  A block is
\* closed by a line with the mark that opened it, or by nothing.
NextBlock(block, mark) ==
    IF mark = "inside" THEN block
    ELSE [open |-> IF block.open = "none" THEN mark
                   ELSE IF mark = block.open THEN "none" ELSE block.open,
          fenced |-> block.open # "none" \/ mark # "none"]

\* Positions 1..n in the fenced blocks that lines with these marks make.
Blocks(n, marks) ==
    LET At[i \in 0..n] ==
          IF i = 0 THEN [open |-> "none", fenced |-> FALSE]
          ELSE NextBlock(At[i - 1], marks[i])
    IN  {i \in 1..n : At[i].fenced}

Fenced(text) == Blocks(Len(text), Marks(text))

\* Where a span may end that begins at i: with the runs R of i's width behind it.
Ends(R, i) ==
    {c.last : c \in {d \in R : d.first > i /\ \E r \in R : r.first = i /\ r.width = d.width}}

\* The end of the last span that has begun at i, if until is that at i - 1.
NextEnd(until, R, i) ==
    IF until >= i \/ Ends(R, i) = {} THEN until ELSE Min(Ends(R, i))

\* Positions 1..n in the spans among the runs R of a text, from a run to the
\* next of the same width.  A run that none follows opens nothing.
Spans(n, R) ==
    LET Until[i \in 0..n] == IF i = 0 THEN 0 ELSE NextEnd(Until[i - 1], R, i)
    IN  {i \in 1..n : Until[i] >= i}

Spanned(text) == Spans(Len(text), Runs(text, 1..Len(text) \ Fenced(text)))

Code(text) == Fenced(text) \union Spanned(text)

FindLinks(text) == {i \in 1..Len(text) \ Code(text) : IsConceptLink(text[i])}

-----------------------------------------------------------------------------
(* Mentions.                                                               *)

\* Path p stands in the text at i, not as the tail of a longer path and not
\* run together with another one.
Names(text, i, p) ==
    \/ /\ text[i] = Bare(p)
       /\ \A j \in {i - 1, i + 1} \intersect DOMAIN text : text[j].kind # "bare"
    \/ IsConceptLink(text[i]) /\ text[i].target.segments = p

\* Mutant: the links in code are taken for links.
LinksSkipped(text, p) ==
    {i \in 1..Len(text) : Names(text, i, p) /\ ~IsConceptLink(text[i])}

FindMentions(text, p) == {i \in 1..Len(text) \ FindLinks(text) : Names(text, i, p)}

-----------------------------------------------------------------------------
(* Rewriting.  to[p] is the path a link that resolves to p shall have.     *)

\* Mutant: links in code are rewritten, too.
RewriteAll(text, from, to) ==
    [i \in 1..Len(text) |->
        LET p == Resolve(from, text[i].target)
        IN  IF IsConceptLink(text[i]) /\ p \in DOMAIN to
            THEN Link(CanonicalTarget(to[p], text[i].target.anchor))
            ELSE text[i]]

RewriteLinks(text, from, to) ==
    LET found == FindLinks(text)
    IN  [i \in 1..Len(text) |->
            LET p == Resolve(from, text[i].target)
            IN  IF i \in found /\ p \in DOMAIN to
                THEN Link(CanonicalTarget(to[p], text[i].target.anchor))
                ELSE text[i]]

\* A write: links to the concept itself and to existing ones, and former paths.
Normalize(text, from) ==
    LET valid == Concepts \union {from}
    IN  RewriteLinks(text, from,
          [p \in valid \union DOMAIN Former |-> IF p \in valid THEN p ELSE Former[p]])

\* Mutant: only links to moved concepts are made canonical.
PinMovedOnly(text, from) == RewriteLinks(text, from, Moves)

\* A field of a moved concept: every link to an existing concept is pinned.
PinLinks(text, from) ==
    RewriteLinks(text, from,
        [p \in Concepts |-> IF p \in DOMAIN Moves THEN Moves[p] ELSE p])

\* The file before each field: the fields above it, each behind its key; then
\* the closing line, an empty one and the blanks the body was sent with.
Before ==
    LET description == <<Plain>> \o fields.title \o <<Newline, Plain>>
        resource == description \o fields.description \o <<Newline, Plain>>
        tags == resource \o fields.resource \o <<Newline, Plain>>
        front == tags \o fields.tags \o <<Newline, Plain, Newline, Newline>>
    IN  [title |-> <<Plain>>, description |-> description, resource |-> resource,
         tags |-> tags, body |-> front \o lead]

\* The file as it is written: the body untrimmed.
Raw == Before.body \o fields.body

\* A field of a text laid out like Raw, read.
FieldOf(raw, f) == SubSeq(raw, Len(Before[f]) + 1, Len(Before[f]) + Len(fields[f]))

\* Another concept's file: rewritten as one text, frontmatter and body.
Relinked == RewriteLinks(Raw, source, Moves)

\* A field as a write gets it, and what reading it gives after the write.
Sent(f) == IF f = "body" THEN lead \o fields.body ELSE fields[f]

Written(f) ==
    LET text == Normalize(Sent(f), source)
    IN  SubSeq(text, Len(text) - Len(fields[f]) + 1, Len(text))

-----------------------------------------------------------------------------
(* Every text an author can write.                                         *)

FrontSize == Len(fields.title) + Len(fields.description)
             + Len(fields.resource) + Len(fields.tags)

Blank == {Newline, Indent}

Init ==
    /\ source \in Concepts
    /\ lead = << >>
    /\ fields = [f \in Fields |-> << >>]

Write(f, token) == fields' = [fields EXCEPT ![f] = Append(@, token)]

WriteFront ==
    /\ FrontSize < MaxFront /\ FrontSize + Len(Sent("body")) < MaxTokens
    /\ \E f \in FrontFields : \E token \in Tokens[f] : Write(f, token)
    /\ UNCHANGED <<source, lead>>

WriteBody ==
    /\ FrontSize + Len(Sent("body")) < MaxTokens
    /\ \E token \in Tokens["body"] :
          IF fields.body = << >> /\ token \in Blank
          THEN lead' = Append(lead, token) /\ UNCHANGED fields
          ELSE Write("body", token) /\ UNCHANGED lead
    /\ UNCHANGED source

Next == WriteFront \/ WriteBody

Spec == Init /\ [][Next]_vars

-----------------------------------------------------------------------------
(* Correctness.                                                            *)

\* What the link at i of a text is about, once the batch has been applied.
Follow(p) == IF p \in DOMAIN Moves THEN Moves[p] ELSE p

\* The links of text lead from `from` where those of `after` lead from `to`,
\* the batch applied, as far as they led to a concept, and nothing else of
\* the text is changed.
Follows(text, from, after, to) ==
    LET found == FindLinks(text)
    IN  \A i \in 1..Len(text) :
            IF i \in found /\ Resolve(from, text[i].target) \in Concepts
            THEN /\ IsConceptLink(after[i])
                 /\ Resolve(to, after[i].target) = Follow(Resolve(from, text[i].target))
                 /\ after[i].target.anchor = text[i].target.anchor
            ELSE after[i] = text[i]

\* The body begins with a fenced block but was sent with an indentation that
\* makes it none.  What is code to a write, then, and what to a read of the
\* trimmed body are not the same: of an indented fence, a fence and a link, each
\* on its line, the write takes the second fence for one that opens a block and
\* leaves the link, the read for the one that closes the block.
FenceUncovered ==
    /\ lead # << >> /\ Last(lead) = Indent
    /\ fields.body # << >> /\ Marks(fields.body)[1] # "none"

\* A move rewrites the links of every other concept to the moved ones, in the
\* title, the description and the body, and touches nothing else of any field,
\* code least of all: the file is rewritten as one text, read as several.
RelinkedLinksFollow ==
    LET file == Relinked
    IN  source \notin DOMAIN Moves /\ ~FenceUncovered =>
            \A f \in MarkdownFields :
                Follows(fields[f], source, FieldOf(file, f), source)

\* The links of a moved concept lead from its new path where they led from
\* the old one, relative ones to another directory too.
MovedLinksFollow ==
    source \in DOMAIN Moves =>
        \A f \in MarkdownFields :
            Follows(fields[f], source, PinLinks(fields[f], source), Moves[source])

\* Where `after` still names an old path the move reports it, unless it is in
\* a link that never led there; what it reports it has not touched.
Reported(text, from, after, p) ==
    LET found == FindLinks(text)
        mentions == FindMentions(after, p)
    IN  /\ \A i \in 1..Len(after) : Names(after, i, p) =>
              \/ i \in mentions
              \/ i \in found /\ Resolve(from, text[i].target) # p
        /\ \A i \in mentions : after[i] = text[i] /\ i \notin found

\* The fields as a move leaves them.
Moved ==
    LET file == Relinked
    IN  [f \in Fields |->
            CASE source \notin DOMAIN Moves -> FieldOf(file, f)
              [] source \in DOMAIN Moves /\ f \in MarkdownFields -> PinLinks(fields[f], source)
              [] OTHER -> fields[f]]

\* Every place where a field says the old path of a moved concept is rewritten
\* by the move or reported by it ("Old paths still named outside markdown
\* links"), in code too, never both and never neither.  A resource is an
\* address; a markdown link in one is left alone.
OldPathsReported ==
    LET after == Moved
    IN  ~FenceUncovered =>
            \A p \in DOMAIN Moves : \A f \in MentionFields :
                (f = "resource" => FindLinks(fields[f]) = {})
                    => Reported(fields[f], source, after[f], p)

\* The path of the concept a link of a write leads to, through a former path.
LeadsTo(p) == IF p \in DOMAIN Former /\ p # source THEN Former[p] ELSE p

\* A write leaves links that lead to the same concept wherever the text is,
\* through a former path to the concept that has it; only broken links are
\* as the author wrote them, and writing what was read again changes nothing.
NormalizedForGood ==
    ~FenceUncovered =>
        \A f \in MarkdownFields :
            LET text == Written(f)
            IN  /\ \A i \in FindLinks(fields[f]) :
                      LET p == LeadsTo(Resolve(source, fields[f][i].target))
                      IN  IF p \in Concepts
                          THEN \A from \in Concepts : Resolve(from, text[i].target) = p
                          ELSE text[i] = fields[f][i]
                /\ Normalize(text, source) = text
=============================================================================
