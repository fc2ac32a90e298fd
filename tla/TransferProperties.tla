------------------------- MODULE TransferProperties -------------------------
(***************************************************************************)
(* What export and import promise.                                         *)
(***************************************************************************)
EXTENDS Verification

\* Databases hold objects, edges between them and known branches; documents
\* say who recorded each of their migrations.
TypeOK ==
  /\ \A d \in Databases :
       /\ db[d].objects \subseteq Objects /\ db[d].edges \subseteq Objects \X Objects
       /\ db[d].indexed \subseteq Roots
       /\ \A b \in Branches : LET s == db[d].branches[b] IN
            s # None => s.root \in Roots /\ \A i \in DOMAIN s.history : s.history[i].output \in Roots
       /\ edits[d] \in 0 .. MaxEdits[d]
  /\ \A doc \in sent : /\ Len(doc.agents) = Len(doc.history) /\ doc.root \in Roots
                       /\ \A i \in DOMAIN doc.agents : \E d \in Databases : doc.agents[i] = Agents[d]

-----------------------------------------------------------------------------
\* `codedb verify` finds nothing wrong (verify.rs), and the chain below a
\* recorded history is recorded, whatever was merged, exported and imported.
ChainsRecorded(d) == \A h \in DOMAIN d.rows : Len(h) > 1 => Prefix(h, Len(h) - 1) \in DOMAIN d.rows

VerifyClean == \A d \in Databases : Verifies(db[d]) /\ ChainsRecorded(db[d])

-----------------------------------------------------------------------------
\* A document whose history starts where a database starts.
FromGenesis(doc) == IF doc.history = <<>> THEN doc.root = EmptyRoot ELSE doc.history[1].input = EmptyRoot

\* What may keep a database from taking it: a bundle's migrations recorded
\* by someone else, for a history a main that has one.
Takes(d, doc) ==
  IF doc.kind = "bundle" THEN \A i \in DOMAIN doc.history : ~Conflicts(d, doc, i)
  ELSE doc.branch = Main /\ d.branches[Main].history = <<>>

\* Every document can be imported, at any later time, into a new database and
\* into any that nothing keeps from it, whatever was merged or undone on the
\* way to it (docs/PLAN_V1.md: "bundle import reconstructs object closure").
DocumentsImport ==
  \A doc \in {e \in sent : FromGenesis(e)} :
    \A d \in {NewDatabase} \cup {db[x] : x \in Databases} : Takes(d, doc) => Imported(d, doc) # {}

\* Exporting from a new database what was imported into it gives the document
\* back, with the same history, agents and objects.
Again(d, doc) == IF doc.kind = "bundle" THEN BundleDocuments(d, doc.root) ELSE {HistoryDocument(d, Main)}
RoundTrip ==
  \A doc \in {e \in sent : FromGenesis(e)} : \A d \in Imported(NewDatabase, doc) : Again(d, doc) = {doc}

\* A bundle leaves in a new database what its history would: the objects it
\* brings are those that replaying makes, and no merge is left without its
\* source.
AsHistory(doc) == [doc EXCEPT !.kind = "history", !.objects = {}]
ImportsAgree ==
  \A doc \in {e \in sent : e.kind = "bundle"} :
    \A d \in Imported(NewDatabase, doc) : Imported(NewDatabase, AsHistory(doc)) = {d}
=============================================================================
