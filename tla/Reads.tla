-------------------------------- MODULE Reads --------------------------------
(***************************************************************************)
(* What the read-only tools get from the bundle: kb_history and kb_diff,   *)
(* which follow aliases, and the link reports of kb_links.  Each is one    *)
(* read under Bundle.mu and changes nothing, so the bundle's steps are all *)
(* there is; the properties say what clients see across those steps.       *)
(***************************************************************************)
EXTENDS Bundle

-----------------------------------------------------------------------------
(* kb_history and kb_diff.                                                 *)

History(p) == Versions(Resolve(p))

\* kb_diff compares a version that kb_history lists with the current file.
Diff(p, v) == [version |-> snaps[Resolve(p)][v], current |-> files[Resolve(p)]]

-----------------------------------------------------------------------------
(* kb_links.                                                               *)

Concepts == {p \in Path : Parsed(p)}

\* A target outside the bundle is listed as written.
Outbound(p) == {[path |-> r, broken |-> ~ValidTarget(p, r)] : r \in LeadsOf(p)}

Inbound(p) == {q \in Concepts \ {p} : p \in LeadsOf(q)}

\* The report on the concept a path leads to, through an alias or not.
LinkInfo(p) ==
    LET current == Resolve(p)
    IN  [path |-> current, outbound |-> Outbound(current), inbound |-> Inbound(current)]

\* The broken links of the audit of the whole bundle, as written.
AuditLinks ==
    UNION {{[source |-> p, target |-> t] : t \in BrokenLinks(p, files[p].links)} :
              p \in Concepts}

-----------------------------------------------------------------------------
\* kb_read of p finds concept i, there or through an alias.
LeadsTo(p, i) == Parsed(Resolve(p)) /\ files[Resolve(p)].id = i

\* A path keeps leading to a concept's history for as long as the concept can
\* be read and no other file takes the path: through every further move (of
\* one concept at a time) and update, failing ones included, what kb_history
\* listed there is still listed and kb_diff shows the same version.
FormerPathsKeepHistory ==
    [][\A p \in Path, i \in Id :
          /\ LeadsTo(p, i) /\ HomeOf(i)' # {}
          /\ Exists(p) \/ ~Exists(p)'
          => \A v \in History(p) :
                v \in History(p)' /\ Diff(p, v)'.version = Diff(p, v).version]_vars

\* Links and reads agree: a link in canonical form that the audit reports as
\* broken is to a path at which kb_read finds nothing either.  Links to a
\* former path are turned to the current one by the move that makes it a former
\* path and by every write after it, so none is left for a read to follow and
\* the audit to miss.  (A relative link can come to lead to a former path when
\* the concept it is in moves, and so can what a cut uncovers.)
BrokenLinksLeadNowhere ==
    \A l \in AuditLinks : l.target \in Path \ Covered => ~Parsed(Resolve(l.target))

\* The concepts a broken link of which leads to r's new path once the batch m
\* is applied: to its target, or from the directory they are moved to.
Awaiting(m, r) ==
    {q \in Concepts \ {r} :
        \E t \in BrokenLinks(q, files[q].links) : Lead(To(m, q), t) = To(m, r)}

\* kb_links before a kb_move shows what the move rewrites: of the concepts that
\* stay, those listed as linking to a moved one have links rewritten and no
\* others.  Afterwards every concept, moved or not, has the inbound links it
\* had, of the same concepts under their new paths, and those of broken links
\* that the move gives something to lead to.
InboundForetellsMove ==
    [][\A m \in Batches :
          (\E expected \in [Sources(m) -> {0}] : MoveBatch(m, expected)) =>
             /\ \A q \in Concepts \ Sources(m) :
                   (files'[q].links # files[q].links)
                      <=> \E p \in Sources(m) : q \in LinkInfo(p).inbound
             /\ \A r \in Concepts :
                   LinkInfo(To(m, r))'.inbound =
                      {To(m, q) : q \in LinkInfo(r).inbound \union Awaiting(m, r)}]_vars
=============================================================================
