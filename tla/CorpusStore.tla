----------------------------- MODULE CorpusStore -----------------------------
(***************************************************************************)
(* The corpus tables (adapters/database.py): publish_corpus statement by     *)
(* statement, as `policytime ingest` runs it, concurrent with other ingests, *)
(* with the rollback of a release and with searches.  Statements read what   *)
(* is committed; a transaction's own inserts show at its commit.             *)
(***************************************************************************)
EXTENDS Retrieval

CONSTANTS
    Versions,   \* fingerprints of corpora
    File(_),    \* the files a version is the fingerprint of: documents, headings, clauses
    Encoders,   \* identities of embedding models
    Ingests,    \* runs of `policytime ingest`
    Readers,    \* threads that search
    Contexts    \* what is searched for: contexts, None for the vector baseline

\* How an ingest ends.
Results == {"published", "invalid", "failed", "mismatch", "duplicate", "integrity"}
ASSUME NoneAssumption == None \notin Versions \cup Encoders \cup Results
\* Ids are compared; a number stands for an id's place in the order of strings.
ASSUME FilesAssumption ==
    \A v \in Versions : IsFiniteSet(DOMAIN File(v).clauses) /\ Ids(File(v).clauses) \subseteq Nat

VARIABLES
    corpora,    \* table: the embedding identity of each stored version, or None
    clauseRows, \* table: the clauses of each version
    linkRows,   \* table: the relationships of each version
    active,     \* table: the active version, None before the first ingest
    tx,         \* the ingests
    reader      \* the searches

tables == <<corpora, clauseRows, linkRows, active>>
vars == <<tables, tx, reader>>

\* load_corpus: every clause has a heading with its text, and no heading is left.
Loadable(f) ==
    /\ Len(f.documents) > 0
    /\ Unique(f.headings)
    /\ ToSet(f.headings) = Ids(f.clauses)
\* The models' own checks, and validate_corpus.
Valid(f) ==
    /\ \A i \in DOMAIN f.clauses : Ordered(f.clauses[i])
    /\ Unique(f.documents) /\ UniqueIds(f.clauses) /\ LinksOK(f.clauses)
    /\ ~Cyclic(f.clauses)

Rows(v, encoder) == {RowOf(c, encoder) : c \in ToSet(File(v).clauses)}
Links(v) ==
    UNION {{[source |-> c.id, target |-> c.links[k].target, kind |-> c.links[k].kind] :
                k \in DOMAIN c.links} : c \in ToSet(File(v).clauses)}
\* Two relationships with one primary key (version, source, target).
TwinLinks(v) ==
    \E c \in ToSet(File(v).clauses) : \E j, k \in DOMAIN c.links :
        j # k /\ c.links[j].target = c.links[k].target

NoIngest == [step |-> "idle", version |-> None, encoder |-> None, inserted |-> {}, result |-> None]
NoSearch == [step |-> "idle", version |-> None, encoder |-> None, context |-> None,
             dense |-> <<>>, lexical |-> <<>>, hits |-> <<>>]

Init ==
    /\ corpora = [v \in Versions |-> None]
    /\ clauseRows = [v \in Versions |-> {}]
    /\ linkRows = [v \in Versions |-> {}]
    /\ active = None
    /\ tx = [i \in Ingests |-> NoIngest]
    /\ reader = [r \in Readers |-> NoSearch]

-----------------------------------------------------------------------------
(* publish_corpus                                                           *)

Go(i, step) == tx' = [tx EXCEPT ![i].step = step] /\ UNCHANGED <<tables, reader>>
Insert(i, table, step) ==
    /\ tx' = [tx EXCEPT ![i].step = step, ![i].inserted = @ \cup {table}]
    /\ UNCHANGED <<tables, reader>>
\* The transaction ends without a commit: nothing it inserted remains.
Fail(i, why) ==
    /\ tx' = [tx EXCEPT ![i].step = "done", ![i].inserted = {}, ![i].result = why]
    /\ UNCHANGED <<tables, reader>>

InTransaction == {"lookup", "corpus", "clauses", "links", "point", "commit"}
\* Mutant: the lock belongs to the session, and a failed ingest leaves it behind.
HoldsLockInSession(i) == tx[i].step \in InTransaction \/ tx[i].result = "failed"
\* pg_advisory_xact_lock is held until the transaction ends.
HoldsLock(i) == tx[i].step \in InTransaction
HoldsActive(i) == tx[i].step = "commit"

\* The files are loaded and checked, then checked again and embedded.
Begin(i, v, encoder) ==
    LET start(step, result) ==
            tx' = [tx EXCEPT ![i] = [NoIngest EXCEPT
                !.step = step, !.version = v, !.encoder = encoder, !.result = result]]
    IN
    /\ tx[i].step = "idle"
    /\ \/ ~(Loadable(File(v)) /\ Valid(File(v))) /\ start("done", "invalid")
       \/ Loadable(File(v)) /\ Valid(File(v)) /\ (start("lock", None) \/ start("done", "failed"))
    /\ UNCHANGED <<tables, reader>>

\* Mutant: no advisory lock.
LockNothing(i) == tx[i].step = "lock" /\ Go(i, "lookup")
Lock(i) ==
    /\ tx[i].step = "lock"
    /\ \A j \in Ingests \ {i} : ~HoldsLock(j)
    /\ Go(i, "lookup")

LookUp(i) ==
    LET identity == corpora[tx[i].version] IN
    /\ tx[i].step = "lookup"
    /\ \/ identity = None /\ Go(i, "corpus")
       \/ identity = tx[i].encoder /\ Go(i, "point")
       \/ identity \notin {None, tx[i].encoder} /\ Fail(i, "mismatch")

\* Mutant: the row of the corpus is committed on its own.
InsertCorpusAtOnce(i) ==
    /\ tx[i].step = "corpus"
    /\ corpora' = [corpora EXCEPT ![tx[i].version] = tx[i].encoder]
    /\ tx' = [tx EXCEPT ![i].step = "clauses", ![i].inserted = @ \cup {"corpus"}]
    /\ UNCHANGED <<clauseRows, linkRows, active, reader>>
\* An insert waits for another transaction's uncommitted row with its key.
InsertCorpus(i) ==
    /\ tx[i].step = "corpus"
    /\ \A j \in Ingests \ {i} : "corpus" \in tx[j].inserted => tx[j].version # tx[i].version
    /\ \/ corpora[tx[i].version] = None /\ Insert(i, "corpus", "clauses")
       \/ corpora[tx[i].version] # None /\ Fail(i, "duplicate")

InsertClauses(i) == tx[i].step = "clauses" /\ Insert(i, "clauses", "links")

InsertLinks(i) ==
    /\ tx[i].step = "links"
    /\ \/ ~TwinLinks(tx[i].version) /\ Insert(i, "links", "point")
       \/ TwinLinks(tx[i].version) /\ Fail(i, "integrity")

\* INSERT ... ON CONFLICT DO UPDATE of the one row of active_corpus.
Point(i) ==
    /\ tx[i].step = "point"
    /\ \A j \in Ingests \ {i} : ~HoldsActive(j)
    /\ Go(i, "commit")

\* The commit may succeed without its acknowledgement.
Commit(i) ==
    LET v == tx[i].version
        With(table, name, value) ==
            IF name \in tx[i].inserted THEN [table EXCEPT ![v] = value] ELSE table
    IN
    /\ tx[i].step = "commit"
    /\ corpora' = With(corpora, "corpus", tx[i].encoder)
    /\ clauseRows' = With(clauseRows, "clauses", Rows(v, tx[i].encoder))
    /\ linkRows' = With(linkRows, "links", Links(v))
    /\ active' = v
    /\ \E result \in {"published", "failed"} :
           tx' = [tx EXCEPT ![i].step = "done", ![i].inserted = {}, ![i].result = result]
    /\ UNCHANGED reader

\* A lost connection, a statement timeout (also while it waits for the lock), a
\* stopped process.
Abort(i) == tx[i].step \in InTransaction \cup {"lock"} /\ Fail(i, "failed")

\* restore_corpus of a release: an UPDATE under the foreign key to corpora.
Restore(v) ==
    /\ active \notin {None, v} /\ corpora[v] # None
    /\ \A i \in Ingests : ~HoldsActive(i)
    /\ active' = v
    /\ UNCHANGED <<corpora, clauseRows, linkRows, tx, reader>>

-----------------------------------------------------------------------------
(* snapshot and search                                                      *)

ReadFails(r) == reader' = [reader EXCEPT ![r] = NoSearch]

Snapshot(r, encoder, context) ==
    /\ reader[r].step = "idle" /\ active # None
    /\ reader' = [reader EXCEPT ![r].step = "identity", ![r].version = active,
                                ![r].encoder = encoder, ![r].context = context]
    /\ UNCHANGED <<tables, tx>>

\* The query encoder must be the one that embedded the corpus.
CheckIdentity(r) ==
    /\ reader[r].step = "identity"
    /\ \/ /\ corpora[reader[r].version] = reader[r].encoder
          /\ reader' = [reader EXCEPT ![r].step = "dense"]
       \/ corpora[reader[r].version] # reader[r].encoder /\ ReadFails(r)
    /\ UNCHANGED <<tables, tx>>

Matching(rows, context) == {row.id : row \in {w \in rows : Matches(w, context)}}
Found(r) == Matching(clauseRows[reader[r].version], reader[r].context)

\* The vector baseline has no context and takes the dense ranking as it is.
SearchDense(r) ==
    /\ reader[r].step = "dense"
    /\ \E dense \in Rankings(Found(r)) :
        reader' = IF reader[r].context = None
                  THEN [reader EXCEPT ![r].step = "done", ![r].dense = dense, ![r].hits = dense]
                  ELSE [reader EXCEPT ![r].step = "lexical", ![r].dense = dense]
    /\ UNCHANGED <<tables, tx>>

SearchLexical(r) ==
    /\ reader[r].step = "lexical"
    /\ \E lexical \in Rankings(Found(r)) :
        reader' = [reader EXCEPT ![r].step = "done", ![r].lexical = lexical,
                                 ![r].hits = Fuse(reader[r].dense, lexical)]
    /\ UNCHANGED <<tables, tx>>

Return(r) == reader[r].step = "done" /\ ReadFails(r) /\ UNCHANGED <<tables, tx>>

IngestStep(i) ==
    \/ Lock(i) \/ LookUp(i) \/ InsertCorpus(i) \/ InsertClauses(i) \/ InsertLinks(i)
    \/ Point(i) \/ Commit(i)

Next ==
    \/ \E i \in Ingests :
        \/ \E v \in Versions, encoder \in Encoders : Begin(i, v, encoder)
        \/ IngestStep(i) \/ Abort(i)
    \/ \E v \in Versions : Restore(v)
    \/ \E r \in Readers :
        \/ \E encoder \in Encoders, context \in Contexts : Snapshot(r, encoder, context)
        \/ CheckIdentity(r) \/ SearchDense(r) \/ SearchLexical(r) \/ Return(r)

Spec == Init /\ [][Next]_vars

\* A statement that can run eventually does; nothing forces one to be aborted.
FairSpec == Spec /\ \A i \in Ingests : WF_vars(IngestStep(i))

-----------------------------------------------------------------------------
(* What the store promises.                                                 *)

\* A version is stored whole or not at all, with the clauses and relationships of
\* its files, all embedded by the encoder it names, and only if it is valid; the
\* active version is a stored one.  A failed ingest leaves nothing behind.
StoredWhole ==
    /\ \A v \in Versions :
        IF corpora[v] = None THEN clauseRows[v] = {} /\ linkRows[v] = {}
        ELSE /\ Loadable(File(v)) /\ Valid(File(v))
             /\ clauseRows[v] = Rows(v, corpora[v])
             /\ linkRows[v] = Links(v)
    /\ active # None => corpora[active] # None

\* An ingest is refused for its own reasons and never because another one published
\* the same corpus meanwhile: invalid files, a version that is stored with another
\* encoder, or two relationships between the same clauses, which validation accepts
\* and the table does not.
RefusedForCause ==
    \A i \in Ingests : LET t == tx[i] IN
        /\ t.result # "duplicate"
        /\ t.result = "invalid" => ~Loadable(File(t.version)) \/ ~Valid(File(t.version))
        /\ t.result = "mismatch" => corpora[t.version] \notin {None, t.encoder}
        /\ t.result = "integrity" => TwinLinks(t.version)
        /\ t.result = "published" => corpora[t.version] = t.encoder

\* Whatever is published during a search, its hits are clauses of the snapshot's
\* version that apply in the context, embedded by the searcher's encoder; as many
\* as the rankings found, up to the limit; and a clause that both rankings found is
\* never behind, or cut off in favour of, one that only one of them found.
SearchFollowsPolicy ==
    \A r \in Readers : reader[r].step = "done" =>
        LET s == reader[r]
            found == ToSet(s.dense) \cup ToSet(s.lexical)
            both == ToSet(s.dense) \cap ToSet(s.lexical)
        IN
        /\ corpora[s.version] = s.encoder
        /\ ToSet(s.hits) \subseteq Ids(File(s.version).clauses)
        /\ s.context # None => \A id \in ToSet(s.hits) :
               AppliesTo(ClauseOf(File(s.version).clauses, id), s.context)
        /\ Cardinality(ToSet(s.hits)) = Len(s.hits)
        /\ Len(s.hits) = IF Cardinality(found) =< Limit THEN Cardinality(found) ELSE Limit
        /\ \A i, j \in DOMAIN s.hits : i < j /\ s.hits[j] \in both => s.hits[i] \in both
        /\ both \subseteq ToSet(s.hits) \/ ToSet(s.hits) \subseteq both

\* Every ingest ends, although all wait for one lock: it is released on every way
\* out of a transaction.
IngestsEnd == \A i \in Ingests : tx[i].step = "lock" ~> tx[i].step = "done"
=============================================================================
