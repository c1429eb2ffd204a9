-------------------------- MODULE CorpusStoreProofs --------------------------
(***************************************************************************)
(* Proofs about CorpusStore: for any number of ingests, corpora, encoders    *)
(* and searches.                                                             *)
(***************************************************************************)
EXTENDS CorpusStore, Sums, TLAPS

Groups == {"corpus", "clauses", "links"}
Ingest == [step : InTransaction \cup {"idle", "lock", "done"},
           version : Versions \cup {None}, encoder : Encoders \cup {None},
           inserted : SUBSET Groups, result : Results \cup {None}]

Typed ==
    /\ corpora \in [Versions -> Encoders \cup {None}]
    /\ active \in Versions \cup {None}
    /\ tx \in [Ingests -> Ingest]

\* The tables of the clauses and relationships follow from the table of the corpora.
TablesAgree ==
    /\ clauseRows = [v \in Versions |-> IF corpora[v] = None THEN {} ELSE Rows(v, corpora[v])]
    /\ linkRows = [v \in Versions |-> IF corpora[v] = None THEN {} ELSE Links(v)]
    /\ \A v \in Versions : corpora[v] # None => Loadable(File(v)) /\ Valid(File(v))
    /\ active # None => corpora[active] # None

\* The advisory lock: one transaction at a time.
OneTransaction == \A i, j \in Ingests : HoldsLock(i) /\ HoldsLock(j) => i = j

\* What a transaction has found and inserted so far.  As it holds the lock, what it
\* found is still so.
Progress(t, stored) ==
    /\ t.step \in InTransaction \cup {"lock"} =>
           /\ t.version \in Versions /\ t.encoder \in Encoders
           /\ Loadable(File(t.version)) /\ Valid(File(t.version))
    /\ t.step \in {"idle", "lock", "lookup", "corpus", "done"} => t.inserted = {}
    /\ t.step = "clauses" => t.inserted = {"corpus"}
    /\ t.step = "links" => t.inserted = {"corpus", "clauses"}
    /\ t.step \in {"corpus", "clauses", "links"} => stored[t.version] = None
    /\ t.step \in {"point", "commit"} =>
           \/ t.inserted = {} /\ stored[t.version] = t.encoder
           \/ t.inserted = Groups /\ stored[t.version] = None

Cause(t, stored) ==
    /\ t.result # "duplicate"
    /\ t.result = "invalid" => ~Loadable(File(t.version)) \/ ~Valid(File(t.version))
    /\ t.result = "mismatch" => stored[t.version] \notin {None, t.encoder}
    /\ t.result = "integrity" => TwinLinks(t.version)
    /\ t.result = "published" => stored[t.version] = t.encoder
    /\ t.result \in {"mismatch", "published"} => t.version \in Versions /\ t.encoder \in Encoders

IngestsOK == \A i \in Ingests : Progress(tx[i], corpora) /\ Cause(tx[i], corpora)

IInv == Typed /\ TablesAgree /\ OneTransaction /\ IngestsOK

\* It holds initially.
LEMMA InitIInv == Init => IInv
<1> SUFFICES ASSUME Init PROVE IInv
  OBVIOUS
<1>1. NoIngest \in Ingest
  BY DEF NoIngest, Ingest
<1>2. Typed
  BY <1>1 DEF Init, Typed
<1>3. TablesAgree
  BY DEF Init, TablesAgree
<1>4. OneTransaction
  BY DEF Init, OneTransaction, HoldsLock, NoIngest, InTransaction
<1>5. IngestsOK
  <2>1. ASSUME NEW i \in Ingests
        PROVE  tx[i].step = "idle" /\ tx[i].inserted = {} /\ tx[i].result = None
    BY DEF Init, NoIngest
  <2> QED
    BY <2>1, NoneAssumption DEF IngestsOK, Progress, Cause, InTransaction, Results
<1> QED
  BY <1>2, <1>3, <1>4, <1>5 DEF IInv

-----------------------------------------------------------------------------
(* Steps that leave the tables alone.                                       *)

\* An ingest becomes one that is right, and enters no transaction that another is in.
Becomes(i, r) ==
    /\ r \in Ingest /\ tx' = [tx EXCEPT ![i] = r]
    /\ UNCHANGED tables
    /\ Progress(r, corpora) /\ Cause(r, corpora)
    /\ r.step \in InTransaction => HoldsLock(i) \/ \A j \in Ingests \ {i} : ~HoldsLock(j)

\* A step of one ingest that leaves the tables alone.
LEMMA BecomesSound ==
    ASSUME IInv, NEW i \in Ingests, NEW r, Becomes(i, r) PROVE IInv'
<1>1. UNCHANGED <<corpora, clauseRows, linkRows, active>>
  BY DEF Becomes, tables
<1>2. \A j \in Ingests : tx'[j] = IF j = i THEN r ELSE tx[j]
  BY DEF Becomes, IInv, Typed
<1>3. Typed'
  BY <1>1 DEF Becomes, IInv, Typed
<1>4. TablesAgree'
  BY <1>1 DEF IInv, TablesAgree
<1>5. OneTransaction'
  BY <1>2 DEF Becomes, IInv, OneTransaction, HoldsLock
<1>6. IngestsOK'
  <2> SUFFICES ASSUME NEW j \in Ingests PROVE Progress(tx'[j], corpora) /\ Cause(tx'[j], corpora)
    BY <1>1 DEF IngestsOK
  <2>1. CASE j = i
    BY <1>2, <2>1 DEF Becomes
  <2>2. CASE j # i
    BY <1>2, <2>2 DEF IInv, IngestsOK
  <2> QED
    BY <2>1, <2>2
<1> QED
  BY <1>3, <1>4, <1>5, <1>6 DEF IInv

\* A run of `policytime ingest` starts, or is refused by what its files are.
LEMMA BeginSound ==
    ASSUME IInv, NEW i \in Ingests, NEW v \in Versions, NEW encoder \in Encoders,
           Begin(i, v, encoder)
    PROVE  IInv'
<1>1. UNCHANGED tables
  BY DEF Begin
<1>2. ASSUME NEW step \in {"lock", "done"}, NEW result \in {None, "invalid", "failed"},
             tx' = [tx EXCEPT ![i] = [NoIngest EXCEPT
                 !.step = step, !.version = v, !.encoder = encoder, !.result = result]],
             step = "lock" => Loadable(File(v)) /\ Valid(File(v)),
             result = "invalid" => ~Loadable(File(v)) \/ ~Valid(File(v))
      PROVE IInv'
  <2> DEFINE r == [NoIngest EXCEPT
                 !.step = step, !.version = v, !.encoder = encoder, !.result = result]
  <2>1. /\ r \in Ingest /\ r.step = step /\ r.version = v /\ r.encoder = encoder
        /\ r.inserted = {} /\ r.result = result
    BY DEF NoIngest, Ingest, Results
  <2>2. tx' = [tx EXCEPT ![i] = r]
    BY <1>2
  <2> HIDE DEF r
  <2>3. Progress(r, corpora)
    BY <1>2, <2>1 DEF Progress, InTransaction
  <2>4. Cause(r, corpora)
    BY <1>2, <2>1, NoneAssumption DEF Cause, Results
  <2>5. Becomes(i, r)
    BY <1>1, <1>2, <2>1, <2>2, <2>3, <2>4 DEF Becomes, InTransaction
  <2> QED
    BY <2>5, BecomesSound
<1>3. None # "invalid" /\ "lock" # "done"
  BY NoneAssumption DEF Results
<1> QED
  BY <1>2, <1>3 DEF Begin

\* A transaction goes on to its next statement.
LEMMA GoSound ==
    ASSUME IInv, NEW i \in Ingests, NEW step \in InTransaction, NEW inserted \in SUBSET Groups,
           tx' = [tx EXCEPT ![i] = [tx[i] EXCEPT !.step = step, !.inserted = inserted]],
           UNCHANGED tables, tx[i].step \in InTransaction \cup {"lock"},
           Progress([tx[i] EXCEPT !.step = step, !.inserted = inserted], corpora),
           HoldsLock(i) \/ \A j \in Ingests \ {i} : ~HoldsLock(j)
    PROVE  IInv'
<1> DEFINE r == [tx[i] EXCEPT !.step = step, !.inserted = inserted]
<1>1. tx[i] \in Ingest /\ Cause(tx[i], corpora)
  BY DEF IInv, Typed, IngestsOK
<1>2. r \in Ingest
  BY <1>1 DEF Ingest
<1>3. r.version = tx[i].version /\ r.encoder = tx[i].encoder /\ r.result = tx[i].result
  BY <1>1 DEF Ingest
<1>4. Cause(r, corpora)
  BY <1>1, <1>3 DEF Cause
<1>5. Becomes(i, r)
  BY <1>2, <1>4 DEF Becomes
<1> QED
  BY <1>5, BecomesSound

\* A transaction that ends without its commit leaves nothing, for a good reason.
LEMMA FailSound ==
    ASSUME IInv, NEW i \in Ingests, NEW why \in Results \ {"duplicate", "invalid", "published"},
           Fail(i, why), tx[i].step \in InTransaction \cup {"lock"},
           why = "mismatch" => corpora[tx[i].version] \notin {None, tx[i].encoder},
           why = "integrity" => TwinLinks(tx[i].version)
    PROVE  IInv'
<1> DEFINE r == [tx[i] EXCEPT !.step = "done", !.inserted = {}, !.result = why]
<1>1. tx[i] \in Ingest /\ Progress(tx[i], corpora)
  BY DEF IInv, Typed, IngestsOK
<1>2. tx' = [tx EXCEPT ![i] = r] /\ UNCHANGED tables
  BY DEF Fail, IInv, Typed
<1>3. r \in Ingest
  BY <1>1 DEF Ingest, Results
<1>4. r.step = "done" /\ r.inserted = {} /\ r.result = why
      /\ r.version = tx[i].version /\ r.encoder = tx[i].encoder
  BY <1>1 DEF Ingest
<1> HIDE DEF r
<1>5. Progress(r, corpora) /\ Cause(r, corpora)
  BY <1>1, <1>4 DEF Progress, Cause, InTransaction
<1>6. Becomes(i, r)
  BY <1>2, <1>3, <1>4, <1>5 DEF Becomes, InTransaction
<1> QED
  BY <1>6, BecomesSound

-----------------------------------------------------------------------------
(* The statements.                                                          *)

\* One ingest at a time takes the lock.
LEMMA LockSound == ASSUME IInv, NEW i \in Ingests, Lock(i) PROVE IInv'
<1> DEFINE r == [tx[i] EXCEPT !.step = "lookup", !.inserted = tx[i].inserted]
<1>1. tx[i] \in Ingest /\ Progress(tx[i], corpora) /\ tx[i].step = "lock"
  BY DEF IInv, Typed, IngestsOK, Lock
<1>2. tx' = [tx EXCEPT ![i] = r] /\ UNCHANGED tables
  BY <1>1 DEF Lock, Go, IInv, Typed, Ingest
<1>3. r.step = "lookup" /\ r.inserted = tx[i].inserted
      /\ r.version = tx[i].version /\ r.encoder = tx[i].encoder
  BY <1>1 DEF Ingest
<1>4. Progress(r, corpora)
  BY <1>1, <1>3 DEF Progress, InTransaction
<1>5. tx[i].inserted \in SUBSET Groups /\ \A j \in Ingests \ {i} : ~HoldsLock(j)
  BY <1>1 DEF Ingest, Lock
<1> QED
  BY <1>1, <1>2, <1>4, <1>5, GoSound DEF InTransaction

\* What an ingest does not find stays absent while it holds the lock.
LEMMA LookUpSound == ASSUME IInv, NEW i \in Ingests, LookUp(i) PROVE IInv'
<1> DEFINE r(step) == [tx[i] EXCEPT !.step = step, !.inserted = tx[i].inserted]
<1>1. tx[i] \in Ingest /\ Progress(tx[i], corpora) /\ tx[i].step = "lookup" /\ HoldsLock(i)
  BY DEF IInv, Typed, IngestsOK, LookUp, HoldsLock, InTransaction
<1>2. tx[i].inserted = {} /\ tx[i].version \in Versions /\ tx[i].encoder \in Encoders
  BY <1>1 DEF Progress, InTransaction
<1>3. ASSUME NEW step \in {"corpus", "point"}, Go(i, step),
             step = "corpus" => corpora[tx[i].version] = None,
             step = "point" => corpora[tx[i].version] = tx[i].encoder
      PROVE IInv'
  <2>1. tx' = [tx EXCEPT ![i] = r(step)] /\ UNCHANGED tables
    BY <1>1, <1>3 DEF Go, IInv, Typed, Ingest
  <2>2. r(step).step = step /\ r(step).inserted = {}
        /\ r(step).version = tx[i].version /\ r(step).encoder = tx[i].encoder
    BY <1>1, <1>2 DEF Ingest
  <2>3. Progress(r(step), corpora)
    BY <1>1, <1>2, <1>3, <2>2 DEF Progress, InTransaction
  <2>4. tx[i].inserted \in SUBSET Groups
    BY <1>2
  <2> QED
    BY <1>1, <2>1, <2>3, <2>4, GoSound DEF InTransaction
<1>4. CASE corpora[tx[i].version] \notin {None, tx[i].encoder} /\ Fail(i, "mismatch")
  BY <1>1, <1>4, FailSound DEF InTransaction, Results
<1> QED
  BY <1>3, <1>4 DEF LookUp

\* The three groups of inserts: what is missing stays missing, as the lock is held.
LEMMA InsertSound ==
    ASSUME IInv, NEW i \in Ingests, NEW table \in Groups, NEW step \in {"clauses", "links", "point"},
           Insert(i, table, step), tx[i].step = table,
           <<table, step>> \in {<<"corpus", "clauses">>, <<"clauses", "links">>, <<"links", "point">>}
    PROVE  IInv'
<1> DEFINE r == [tx[i] EXCEPT !.step = step, !.inserted = tx[i].inserted \cup {table}]
<1>1. tx[i] \in Ingest /\ Progress(tx[i], corpora) /\ HoldsLock(i)
  BY DEF IInv, Typed, IngestsOK, HoldsLock, InTransaction, Groups
<1>2. tx' = [tx EXCEPT ![i] = r] /\ UNCHANGED tables
  BY <1>1 DEF Insert, IInv, Typed, Ingest
<1>3. r.step = step /\ r.inserted = tx[i].inserted \cup {table}
      /\ r.version = tx[i].version /\ r.encoder = tx[i].encoder
  BY <1>1 DEF Ingest
<1>4. /\ tx[i].version \in Versions /\ tx[i].encoder \in Encoders
      /\ Loadable(File(tx[i].version)) /\ Valid(File(tx[i].version))
      /\ corpora[tx[i].version] = None
  BY <1>1 DEF Progress, InTransaction, Groups
<1>5. /\ table = "corpus" => tx[i].inserted = {}
      /\ table = "clauses" => tx[i].inserted = {"corpus"}
      /\ table = "links" => tx[i].inserted = {"corpus", "clauses"}
  BY <1>1 DEF Progress
<1>6. /\ step = "clauses" => r.inserted = {"corpus"}
      /\ step = "links" => r.inserted = {"corpus", "clauses"}
      /\ step = "point" => r.inserted = Groups
  BY <1>3, <1>5 DEF Groups
<1>7. Progress(r, corpora)
  BY <1>3, <1>4, <1>6 DEF Progress
<1>8. tx[i].inserted \cup {table} \in SUBSET Groups
  BY <1>1 DEF Ingest
<1> QED
  BY <1>1, <1>2, <1>7, <1>8, GoSound DEF InTransaction, Groups

\* The inserts show to nobody before the commit.
LEMMA InsertsSound ==
    ASSUME IInv, NEW i \in Ingests, InsertCorpus(i) \/ InsertClauses(i) \/ InsertLinks(i)
    PROVE  IInv'
<1>1. CASE InsertCorpus(i)
  <2>1. corpora[tx[i].version] = None
    BY <1>1 DEF InsertCorpus, IInv, IngestsOK, Progress
  <2> QED
    BY <1>1, <2>1, InsertSound DEF InsertCorpus, Groups
<1>2. CASE InsertClauses(i)
  BY <1>2, InsertSound DEF InsertClauses, Groups
<1>3. CASE InsertLinks(i)
  BY <1>3, InsertSound, FailSound DEF InsertLinks, Groups, Results, InTransaction
<1> QED
  BY <1>1, <1>2, <1>3

\* One ingest at a time moves the active version.
LEMMA PointSound == ASSUME IInv, NEW i \in Ingests, Point(i) PROVE IInv'
<1> DEFINE r == [tx[i] EXCEPT !.step = "commit", !.inserted = tx[i].inserted]
<1>1. tx[i] \in Ingest /\ Progress(tx[i], corpora) /\ tx[i].step = "point" /\ HoldsLock(i)
  BY DEF IInv, Typed, IngestsOK, Point, HoldsLock, InTransaction
<1>2. tx' = [tx EXCEPT ![i] = r] /\ UNCHANGED tables
  BY <1>1 DEF Point, Go, IInv, Typed, Ingest
<1>3. r.step = "commit" /\ r.inserted = tx[i].inserted
      /\ r.version = tx[i].version /\ r.encoder = tx[i].encoder
  BY <1>1 DEF Ingest
<1>4. Progress(r, corpora)
  BY <1>1, <1>3 DEF Progress, InTransaction
<1>5. tx[i].inserted \in SUBSET Groups
  BY <1>1 DEF Ingest
<1> QED
  BY <1>1, <1>2, <1>4, <1>5, GoSound DEF InTransaction

-----------------------------------------------------------------------------
(* The steps that write the tables.                                         *)

\* What a commit does to the table of the corpora: it stores its version, if that
\* was missing, and changes nothing else.
LEMMA CommitStores ==
    ASSUME IInv, NEW i \in Ingests, Commit(i)
    PROVE  LET v == tx[i].version IN
           /\ v \in Versions /\ tx[i].encoder \in Encoders /\ corpora[v] \in {None, tx[i].encoder}
           /\ Loadable(File(v)) /\ Valid(File(v))
           /\ corpora' = [corpora EXCEPT ![v] = tx[i].encoder]
           /\ corpora[v] = None =>
                  /\ clauseRows' = [clauseRows EXCEPT ![v] = Rows(v, tx[i].encoder)]
                  /\ linkRows' = [linkRows EXCEPT ![v] = Links(v)]
           /\ corpora[v] # None => UNCHANGED <<clauseRows, linkRows>>
<1> DEFINE v == tx[i].version
<1>1. tx[i] \in Ingest /\ Progress(tx[i], corpora) /\ tx[i].step = "commit"
  BY DEF IInv, Typed, IngestsOK, Commit
<1>2. v \in Versions /\ tx[i].encoder \in Encoders /\ Loadable(File(v)) /\ Valid(File(v))
  BY <1>1 DEF Progress, InTransaction
<1>3. \/ tx[i].inserted = {} /\ corpora[v] = tx[i].encoder
      \/ tx[i].inserted = Groups /\ corpora[v] = None
  BY <1>1 DEF Progress
<1>4. CASE tx[i].inserted = {} /\ corpora[v] = tx[i].encoder
  <2>1. UNCHANGED <<corpora, clauseRows, linkRows>>
    BY <1>4 DEF Commit
  <2>2. corpora = [corpora EXCEPT ![v] = tx[i].encoder]
    BY <1>4 DEF IInv, Typed
  <2>3. corpora[v] # None
    BY <1>2, <1>4, NoneAssumption
  <2> QED
    BY <1>2, <1>4, <2>1, <2>2, <2>3
<1>5. CASE tx[i].inserted = Groups /\ corpora[v] = None
  BY <1>2, <1>5 DEF Commit, Groups
<1> QED
  BY <1>3, <1>4, <1>5

\* The commit stores a version whole.
LEMMA CommitSound == ASSUME IInv, NEW i \in Ingests, Commit(i) PROVE IInv'
<1> DEFINE v == tx[i].version
           e == tx[i].encoder
<1>1. /\ v \in Versions /\ e \in Encoders /\ corpora[v] \in {None, e} /\ e # None
      /\ Loadable(File(v)) /\ Valid(File(v))
      /\ corpora' = [corpora EXCEPT ![v] = e]
      /\ corpora[v] = None => /\ clauseRows' = [clauseRows EXCEPT ![v] = Rows(v, e)]
                              /\ linkRows' = [linkRows EXCEPT ![v] = Links(v)]
      /\ corpora[v] # None => UNCHANGED <<clauseRows, linkRows>>
  BY CommitStores, NoneAssumption
<1>2. active' = v /\ tx[i].step = "commit" /\ tx[i] \in Ingest
  BY DEF Commit, IInv, Typed
<1>3. PICK result \in {"published", "failed"} :
          tx' = [tx EXCEPT ![i] = [tx[i] EXCEPT !.step = "done", !.inserted = {}, !.result = result]]
  BY DEF Commit, IInv, Typed
<1> DEFINE r == [tx[i] EXCEPT !.step = "done", !.inserted = {}, !.result = result]
<1>4. r \in Ingest
  BY <1>2 DEF Ingest, Results
<1>5. r.step = "done" /\ r.inserted = {} /\ r.result = result /\ r.version = v /\ r.encoder = e
  BY <1>2 DEF Ingest
<1>6. \A j \in Ingests : tx'[j] = IF j = i THEN r ELSE tx[j]
  BY <1>3 DEF IInv, Typed
<1>7. corpora'[v] = e /\ \A w \in Versions : w # v => corpora'[w] = corpora[w]
  BY <1>1 DEF IInv, Typed
<1>8. \A w \in Versions : corpora[w] # None => corpora'[w] = corpora[w]
  BY <1>1, <1>7
<1>9. Typed'
  BY <1>1, <1>2, <1>3, <1>4 DEF IInv, Typed
<1>10. TablesAgree'
  <2>1. clauseRows' = [w \in Versions |-> IF corpora'[w] = None THEN {} ELSE Rows(w, corpora'[w])]
    <3>1. CASE corpora[v] = None
      BY <1>1, <1>7, <3>1 DEF IInv, TablesAgree
    <3>2. CASE corpora[v] # None
      <4>1. corpora' = corpora
        BY <1>1, <3>2 DEF IInv, Typed
      <4> QED
        BY <1>1, <3>2, <4>1 DEF IInv, TablesAgree
    <3> QED
      BY <3>1, <3>2
  <2>2. linkRows' = [w \in Versions |-> IF corpora'[w] = None THEN {} ELSE Links(w)]
    <3>1. CASE corpora[v] = None
      BY <1>1, <1>7, <3>1 DEF IInv, TablesAgree
    <3>2. CASE corpora[v] # None
      <4>1. corpora' = corpora
        BY <1>1, <3>2 DEF IInv, Typed
      <4> QED
        BY <1>1, <3>2, <4>1 DEF IInv, TablesAgree
    <3> QED
      BY <3>1, <3>2
  <2>3. \A w \in Versions : corpora'[w] # None => Loadable(File(w)) /\ Valid(File(w))
    BY <1>1, <1>7 DEF IInv, TablesAgree
  <2> QED
    BY <1>1, <1>2, <1>7, <2>1, <2>2, <2>3 DEF TablesAgree
<1>11. OneTransaction'
  BY <1>5, <1>6 DEF IInv, OneTransaction, HoldsLock, InTransaction
<1>12. IngestsOK'
  <2> SUFFICES ASSUME NEW j \in Ingests PROVE Progress(tx'[j], corpora') /\ Cause(tx'[j], corpora')
    BY DEF IngestsOK
  <2>1. CASE j = i
    <3>1. tx'[j] = r /\ result # "mismatch" /\ corpora'[v] = e
      BY <1>6, <1>7, <2>1
    <3> HIDE DEF r, v, e
    <3> QED
      BY <1>1, <1>3, <1>5, <3>1 DEF Progress, Cause, InTransaction
  <2>2. CASE j # i
    <3>1. tx'[j] = tx[j] /\ Progress(tx[j], corpora) /\ Cause(tx[j], corpora)
      BY <1>6, <2>2 DEF IInv, IngestsOK
    <3>2. tx[j].step \notin InTransaction
      BY <1>2, <2>2 DEF IInv, OneTransaction, HoldsLock, InTransaction
    <3>3. Progress(tx[j], corpora')
      BY <3>1, <3>2 DEF Progress, InTransaction
    <3>4. Cause(tx[j], corpora')
      BY <1>8, <3>1, NoneAssumption DEF Cause
    <3> QED
      BY <3>1, <3>3, <3>4
  <2> QED
    BY <2>1, <2>2
<1> QED
  BY <1>9, <1>10, <1>11, <1>12 DEF IInv

\* A rollback points at a stored version.
LEMMA RestoreSound == ASSUME IInv, NEW v \in Versions, Restore(v) PROVE IInv'
<1>1. active' = v /\ corpora[v] # None /\ UNCHANGED <<corpora, clauseRows, linkRows, tx>>
  BY DEF Restore
<1>2. Typed' /\ TablesAgree'
  BY <1>1 DEF IInv, Typed, TablesAgree
<1>3. OneTransaction' /\ IngestsOK'
  BY <1>1 DEF IInv, OneTransaction, HoldsLock, IngestsOK
<1> QED
  BY <1>2, <1>3 DEF IInv

-----------------------------------------------------------------------------
(* The tables.                                                              *)

\* Every step keeps the invariant.
LEMMA StepIInv == ASSUME IInv, [Next]_vars PROVE IInv'
<1>1. ASSUME UNCHANGED <<tables, tx>> PROVE IInv'
  <2>1. UNCHANGED <<corpora, clauseRows, linkRows, active, tx>>
    BY <1>1 DEF tables
  <2>2. Typed' /\ TablesAgree'
    BY <2>1 DEF IInv, Typed, TablesAgree
  <2>3. OneTransaction' /\ IngestsOK'
    BY <2>1 DEF IInv, OneTransaction, HoldsLock, IngestsOK
  <2> QED
    BY <2>2, <2>3 DEF IInv
<1>2. ASSUME NEW i \in Ingests, IngestStep(i) PROVE IInv'
  BY <1>2, LockSound, LookUpSound, InsertsSound, PointSound, CommitSound DEF IngestStep
<1>3. ASSUME NEW i \in Ingests, Abort(i) PROVE IInv'
  BY <1>3, FailSound DEF Abort, Results
<1>4. ASSUME NEW r \in Readers,
             \/ \E encoder \in Encoders, context \in Contexts : Snapshot(r, encoder, context)
             \/ CheckIdentity(r) \/ SearchDense(r) \/ SearchLexical(r) \/ Return(r)
      PROVE IInv'
  BY <1>1, <1>4 DEF Snapshot, CheckIdentity, SearchDense, SearchLexical, Return
<1>5. CASE UNCHANGED vars
  BY <1>1, <1>5 DEF vars
<1> QED
  BY <1>2, <1>3, <1>4, <1>5, BeginSound, RestoreSound DEF Next

\* So it holds throughout.
LEMMA InvariantHolds == Spec => []IInv
<1> QED
  BY InitIInv, StepIInv, PTL DEF Spec

\* For any number of ingests: a version is stored whole, valid and with one encoder,
\* or not at all, and the active version is stored.
THEOREM WholeOrAbsent == Spec => []StoredWhole
<1>1. IInv => StoredWhole
  <2> SUFFICES ASSUME IInv PROVE StoredWhole
    OBVIOUS
  <2>1. ASSUME NEW v \in Versions
        PROVE IF corpora[v] = None THEN clauseRows[v] = {} /\ linkRows[v] = {}
              ELSE /\ Loadable(File(v)) /\ Valid(File(v))
                   /\ clauseRows[v] = Rows(v, corpora[v])
                   /\ linkRows[v] = Links(v)
    BY DEF IInv, TablesAgree
  <2> QED
    BY <2>1 DEF IInv, TablesAgree, StoredWhole
<1> QED
  BY InvariantHolds, <1>1, PTL

\* No ingest fails because another one published the same corpus; each refusal has
\* its cause, and what is reported as published is.
THEOREM CausesHold == Spec => []RefusedForCause
<1>1. IInv => RefusedForCause
  BY DEF IInv, IngestsOK, Cause, RefusedForCause
<1> QED
  BY InvariantHolds, <1>1, PTL

-----------------------------------------------------------------------------
(* What the constant of reciprocal rank fusion buys.                        *)

Rank == 1..Limit

\* A clause that both rankings found beats one that only one of them found, whatever
\* their ranks: two agreeing searches count for more than one good place.
THEOREM AgreementFirst ==
    ASSUME NEW r \in Rank, NEW s \in Rank, NEW t \in Rank
    PROVE  Ahead(<<r, s>>, <<t, 0>>) /\ Ahead(<<r, s>>, <<0, t>>)
<1> DEFINE sum == 2 * Offset + r + s
           product == (Offset + r) * (Offset + s)
<1>1. r \in Nat /\ s \in Nat /\ t \in Nat /\ r > 0 /\ s > 0 /\ t > 0
      /\ r =< Limit /\ s =< Limit
  BY RankingAssumption DEF Rank
<1>2. Offset \in Nat /\ Limit \in Nat /\ Limit =< Offset
  BY RankingAssumption
<1>3. sum * (Offset + t) > product
  <2>1. sum * (Offset + 1) = (2 * Offset + r + s) + Offset * (2 * Offset + r + s)
    BY <1>1, <1>2
  <2>2. sum * (Offset + t) = sum * (Offset + 1) + sum * (t - 1)
    BY <1>1, <1>2
  <2>3. sum * (t - 1) >= 0
    BY <1>1, <1>2
  <2>4. product = Offset * Offset + Offset * r + Offset * s + r * s
    BY <1>1, <1>2
  <2>5. r * s =< Offset * Offset
    BY <1>1, <1>2
  <2>6. sum * (Offset + 1) > product
    BY <2>1, <2>4, <2>5, <1>1, <1>2
  <2> QED
    BY <2>2, <2>3, <2>6, <1>1, <1>2
<1>4. Numerator(<<r, s>>) = sum /\ Denominator(<<r, s>>) = product
  BY <1>1, <1>2 DEF Numerator, Denominator
<1>5. Numerator(<<t, 0>>) = 1 /\ Denominator(<<t, 0>>) = Offset + t
      /\ Numerator(<<0, t>>) = 1 /\ Denominator(<<0, t>>) = Offset + t
  BY <1>1, <1>2 DEF Numerator, Denominator
<1> QED
  BY <1>1, <1>2, <1>3, <1>4, <1>5 DEF Ahead

-----------------------------------------------------------------------------
(* Finite sets in order.                                                    *)

Transitive(R, S) == \A x, y, z \in S : <<x, y>> \in R /\ <<y, z>> \in R => <<x, z>> \in R
Total(R, S) == \A x, y \in S : x # y => <<x, y>> \in R \/ <<y, x>> \in R
InOrder(R, s) == \A i, j \in DOMAIN s : i < j => <<s[i], s[j]>> \in R

\* A nonempty finite set in a total order has a last member.
LEMMA HasLast ==
    ASSUME NEW S, IsFiniteSet(S), NEW R, Transitive(R, S), Total(R, S)
    PROVE  \A u \in SUBSET S : u # {} => \E m \in u : \A x \in u \ {m} : <<x, m>> \in R
<1> DEFINE Highest(u) == {m \in u : \A x \in u \ {m} : <<x, m>> \in R}
           U == {u \in SUBSET S : u # {} => Highest(u) # {}}
<1>1. ASSUME NEW t \in SUBSET S, \A u \in SUBSET t : u # t => u \in U PROVE t \in U
  <2> SUFFICES ASSUME t # {} PROVE Highest(t) # {}
    OBVIOUS
  <2>1. PICK a \in t : TRUE
    OBVIOUS
  <2>2. CASE t \ {a} = {}
    <3>1. a \in Highest(t)
      BY <2>1, <2>2
    <3> QED
      BY <3>1
  <2>3. CASE t \ {a} # {}
    <3>1. t \ {a} \in U
      BY <1>1, <2>1
    <3>2. PICK m \in t \ {a} : \A x \in (t \ {a}) \ {m} : <<x, m>> \in R
      BY <2>3, <3>1
    <3>3. CASE <<a, m>> \in R
      <4>1. m \in Highest(t)
        BY <3>2, <3>3
      <4> QED
        BY <4>1
    <3>4. CASE <<m, a>> \in R
      <4>1. \A x \in t \ {a} : <<x, a>> \in R
        BY <2>1, <3>2, <3>4 DEF Transitive
      <4>2. a \in Highest(t)
        BY <2>1, <4>1
      <4> QED
        BY <4>2
    <3> QED
      BY <2>1, <3>2, <3>3, <3>4 DEF Total
  <2> QED
    BY <2>2, <2>3
<1> HIDE DEF U
<1>2. SUBSET S \subseteq U
  BY <1>1, SetInduction
<1> QED
  BY <1>2 DEF U

\* So it can be written in that order.
LEMMA Sortable ==
    ASSUME NEW S, IsFiniteSet(S), NEW R, Transitive(R, S), Total(R, S)
    PROVE  \E s \in SetToSeqs(S) : InOrder(R, s)
<1> DEFINE U == {u \in SUBSET S : \E s \in SetToSeqs(u) : InOrder(R, s)}
<1>1. ASSUME NEW t \in SUBSET S, \A u \in SUBSET t : u # t => u \in U PROVE t \in U
  <2>1. IsFiniteSet(t)
    BY FS_Subset
  <2>2. CASE t = {}
    <3>1. Cardinality({}) = 0
      BY FS_EmptySet
    <3> DEFINE s == [i \in 1..0 |-> i]
    <3>2. s \in SetToSeqs({}) /\ InOrder(R, s)
      BY <3>1 DEF SetToSeqs, InOrder
    <3> QED
      BY <2>2, <3>2
  <2>3. CASE t # {}
    <3>1. PICK m \in t : \A x \in t \ {m} : <<x, m>> \in R
      BY <2>3, HasLast
    <3> DEFINE u == t \ {m}
               n == Cardinality(u)
    <3>2. IsFiniteSet(u) /\ n \in Nat /\ Cardinality(t) = n + 1
      <4>1. IsFiniteSet(u)
        BY <2>1, FS_Subset
      <4>2. Cardinality(t) \in Nat /\ n = Cardinality(t) - 1 /\ n \in Nat
        BY <2>1, <4>1, FS_RemoveElement, FS_CardinalityType
      <4> QED
        BY <4>1, <4>2
    <3>3. PICK s \in SetToSeqs(u) : InOrder(R, s)
      <4>1. u \in U
        BY <1>1
      <4> QED
        BY <4>1
    <3> HIDE DEF n
    <3>4. s \in [1..n -> u] /\ \A i, j \in 1..n : i # j => s[i] # s[j]
      BY DEF SetToSeqs, n
    <3> DEFINE longer == [i \in 1..n + 1 |-> IF i = n + 1 THEN m ELSE s[i]]
    <3>5. \A i \in 1..n + 1 : i # n + 1 => i \in 1..n /\ s[i] \in u
      BY <3>2, <3>4
    <3>6. longer \in [1..n + 1 -> t]
      BY <3>5
    <3>7. \A i, j \in 1..n + 1 : i # j => longer[i] # longer[j]
      BY <3>4, <3>5
    <3>8. longer \in SetToSeqs(t)
      BY <3>2, <3>6, <3>7 DEF SetToSeqs
    <3>9. \A i, j \in 1..n + 1 : i < j => i # n + 1
      BY <3>2
    <3>10. DOMAIN s = 1..n /\ DOMAIN longer = 1..n + 1
      BY <3>4
    <3>11. InOrder(R, longer)
      <4> SUFFICES ASSUME NEW i \in 1..n + 1, NEW j \in 1..n + 1, i < j
                   PROVE  <<longer[i], longer[j]>> \in R
        BY <3>10 DEF InOrder
      <4>1. longer[i] = s[i] /\ s[i] \in u /\ i \in 1..n
        BY <3>5, <3>9
      <4>2. CASE j = n + 1
        BY <3>1, <4>1, <4>2
      <4>3. CASE j # n + 1
        <5>1. j \in 1..n /\ longer[j] = s[j]
          BY <3>5, <4>3
        <5> QED
          BY <3>3, <3>10, <4>1, <5>1 DEF InOrder
      <4> QED
        BY <4>2, <4>3
    <3> QED
      BY <3>8, <3>11
  <2> QED
    BY <2>2, <2>3
<1> HIDE DEF U
<1>2. SUBSET S \subseteq U
  BY <1>1, SetInduction
<1> QED
  BY <1>2 DEF U

\* The sequences of all members of a set.
LEMMA OrderingsAre ==
    ASSUME NEW S, IsFiniteSet(S), NEW s \in SetToSeqs(S)
    PROVE  /\ s \in Seq(S) /\ Len(s) = Cardinality(S) /\ Len(s) \in Nat /\ ToSet(s) = S
           /\ \A i, j \in 1..Len(s) : s[i] = s[j] => i = j
<1> DEFINE n == Cardinality(S)
<1>1. n \in Nat
  BY FS_CardinalityType
<1> HIDE DEF n
<1>2. s \in [1..n -> S] /\ \A i, j \in 1..n : i # j => s[i] # s[j]
  BY DEF SetToSeqs, n
<1>3. s \in Seq(S) /\ Len(s) = n
  BY <1>1, <1>2
<1>4. ToSet(s) = S
  <2>1. IsInjective(s) /\ s \in Injection(1..n, S)
    BY <1>2 DEF IsInjective, Injection
  <2>2. IsFiniteSet(1..n) /\ Cardinality(1..n) = n
    BY <1>1, FS_Interval
  <2>3. s \in Surjection(1..n, S)
    BY <2>1, <2>2, FS_Injection DEF n
  <2> QED
    BY <1>2, <2>3 DEF ToSet, Surjection
<1> QED
  BY <1>1, <1>2, <1>3, <1>4 DEF n

\* A sequence without repetitions is as long as the set of its elements is large.
LEMMA DistinctCount ==
    ASSUME NEW S, NEW s \in Seq(S), \A i, j \in 1..Len(s) : s[i] = s[j] => i = j
    PROVE  IsFiniteSet(ToSet(s)) /\ Cardinality(ToSet(s)) = Len(s)
<1> DEFINE n == Len(s)
           T == ToSet(s)
<1>1. n \in Nat /\ DOMAIN s = 1..n /\ s \in [1..n -> S]
  OBVIOUS
<1> HIDE DEF n
<1>2. s \in [1..n -> T] /\ \A x \in T : \E i \in 1..n : s[i] = x
  BY <1>1 DEF ToSet
<1> HIDE DEF T
<1>3. s \in Surjection(1..n, T) /\ s \in Injection(1..n, T)
  <2>1. \A i, j \in 1..n : s[i] = s[j] => i = j
    BY DEF n
  <2> QED
    BY <1>2, <2>1 DEF Surjection, Injection, IsInjective
<1>4. IsFiniteSet(1..n) /\ Cardinality(1..n) = n
  BY <1>1, FS_Interval
<1> QED
  BY <1>3, <1>4, FS_Surjection DEF n, T

-----------------------------------------------------------------------------
(* Scores.                                                                  *)

\* Fractions with positive denominators, compared by multiplying out.
LEMMA FractionsOrder ==
    ASSUME NEW a \in Nat, NEW b \in Nat \ {0}, NEW c \in Nat, NEW d \in Nat \ {0},
           NEW e \in Nat, NEW f \in Nat \ {0}, a * d >= c * b, c * f >= e * d
    PROVE  a * f >= e * b /\ (a * d > c * b \/ c * f > e * d => a * f > e * b)
<1>1. \A x, y, z \in Nat : x >= y => x * z >= y * z
  OBVIOUS
<1>2. \A x, y \in Nat, z \in Nat \ {0} : x > y => x * z > y * z
  OBVIOUS
<1>3. \A x, y, z \in Nat : x * y \in Nat /\ x * y = y * x /\ (x * y) * z = x * (y * z)
  OBVIOUS
<1>4. (a * d) * f >= (c * b) * f /\ (c * f) * b >= (e * d) * b
  BY <1>1, <1>3
<1>5. (a * d) * f = (a * f) * d /\ (c * b) * f = (c * f) * b /\ (e * d) * b = (e * b) * d
  BY <1>3
<1>6. (a * f) * d >= (e * b) * d
  BY <1>3, <1>4, <1>5
<1>7. a * f >= e * b
  <2> SUFFICES ASSUME e * b > a * f PROVE FALSE
    BY <1>3
  <2>1. (e * b) * d > (a * f) * d
    BY <1>2, <1>3
  <2> QED
    BY <1>3, <1>6, <2>1
<1>8. ASSUME a * d > c * b \/ c * f > e * d PROVE a * f > e * b
  <2>1. (a * d) * f > (c * b) * f \/ (c * f) * b > (e * d) * b
    BY <1>2, <1>3, <1>8
  <2>2. (a * f) * d > (e * b) * d
    <3> HIDE <1>1, <1>2
    <3>1. (a * d) * f \in Nat /\ (c * b) * f \in Nat /\ (c * f) * b \in Nat /\ (e * d) * b \in Nat
      BY <1>3
    <3> QED
      BY <1>4, <1>5, <2>1, <3>1
  <2>3. a * f # e * b
    BY <1>3, <2>2
  <2> QED
    BY <1>3, <1>7, <2>3
<1> QED
  BY <1>7, <1>8

\* The higher fraction first, the lower number among equals: this is transitive.
LEMMA ScoresTransitive ==
    ASSUME NEW a \in Nat, NEW b \in Nat \ {0}, NEW c \in Nat, NEW d \in Nat \ {0},
           NEW e \in Nat, NEW f \in Nat \ {0}, NEW x \in Nat, NEW y \in Nat, NEW z \in Nat,
           a * d > c * b \/ (~(c * b > a * d) /\ x < y),
           c * f > e * d \/ (~(e * d > c * f) /\ y < z)
    PROVE  a * f > e * b \/ (~(e * b > a * f) /\ x < z)
<1>1. a * d \in Nat /\ c * b \in Nat /\ c * f \in Nat /\ e * d \in Nat /\ a * f \in Nat /\ e * b \in Nat
  OBVIOUS
<1>2. a * d >= c * b /\ c * f >= e * d
  BY <1>1
<1>3. a * f >= e * b /\ (a * d > c * b \/ c * f > e * d => a * f > e * b)
  BY <1>2, FractionsOrder
<1> QED
  BY <1>1, <1>3

\* What a query returns: some of the clauses, each once, at most Limit of them.
Ranking(s, ids) ==
    /\ s \in Seq(ids) /\ Len(s) \in Nat /\ Len(s) =< Limit /\ ToSet(s) \subseteq ids
    /\ \A i, j \in 1..Len(s) : s[i] = s[j] => i = j

\* The rankings are such.
LEMMA RankingsAre ==
    ASSUME NEW ids, IsFiniteSet(ids), NEW s \in Rankings(ids)
    PROVE  Ranking(s, ids)
<1>1. PICK found \in SUBSET ids : Cardinality(found) =< Limit /\ s \in SetToSeqs(found)
  BY DEF Rankings
<1>2. IsFiniteSet(found)
  BY FS_Subset
<1>3. /\ s \in Seq(found) /\ Len(s) = Cardinality(found) /\ Len(s) \in Nat /\ ToSet(s) = found
      /\ \A i, j \in 1..Len(s) : s[i] = s[j] => i = j
  BY <1>1, <1>2, OrderingsAre
<1>4. s \in Seq(ids)
  BY <1>3
<1> QED
  BY <1>1, <1>3, <1>4 DEF Ranking

\* A clause has its place where it was found, and 0 where it was not.
LEMMA PlaceIs ==
    ASSUME NEW ids, NEW s, Ranking(s, ids), NEW id
    PROVE  /\ Place(s, id) \in Nat
           /\ id \in ToSet(s) => Place(s, id) \in Rank
           /\ id \notin ToSet(s) => Place(s, id) = 0
<1>1. DOMAIN s = 1..Len(s) /\ Len(s) \in Nat /\ Len(s) =< Limit /\ Limit \in Nat
  BY RankingAssumption DEF Ranking
<1>2. CASE id \in ToSet(s)
  <2>1. \E i \in 1..Len(s) : s[i] = id
    BY <1>1, <1>2 DEF ToSet
  <2>2. Place(s, id) \in 1..Len(s)
    BY <1>1, <1>2, <2>1 DEF Place
  <2> QED
    BY <1>1, <1>2, <2>2 DEF Rank
<1>3. CASE id \notin ToSet(s)
  BY <1>3 DEF Place
<1> QED
  BY <1>2, <1>3

\* A score is a fraction.
LEMMA ScoreIs ==
    ASSUME NEW p \in Nat, NEW q \in Nat
    PROVE  Numerator(<<p, q>>) \in Nat /\ Denominator(<<p, q>>) \in Nat \ {0}
<1> DEFINE left == IF p = 0 THEN 1 ELSE Offset + p
           right == IF q = 0 THEN 1 ELSE Offset + q
<1>1. Offset \in Nat
  BY RankingAssumption
<1>2. left \in Nat \ {0} /\ right \in Nat \ {0}
  BY <1>1
<1>3. Denominator(<<p, q>>) = left * right
  BY DEF Denominator
<1>4. \A x, y \in Nat \ {0} : x * y \in Nat \ {0}
  OBVIOUS
<1>5. Numerator(<<p, q>>) \in Nat
  BY <1>1 DEF Numerator
<1> HIDE DEF left, right
<1> QED
  BY <1>2, <1>3, <1>4, <1>5

\* Scores order the clauses found.
LEMMA BeforeOrders ==
    ASSUME NEW ids \in SUBSET Nat, NEW dense, NEW lexical, Ranking(dense, ids), Ranking(lexical, ids)
    PROVE  LET R == {pair \in ids \X ids : Before(dense, lexical, pair[1], pair[2])} IN
           Transitive(R, ids) /\ Total(R, ids)
<1> DEFINE R == {pair \in ids \X ids : Before(dense, lexical, pair[1], pair[2])}
           places(i) == <<Place(dense, i), Place(lexical, i)>>
           N(i) == Numerator(places(i))
           D(i) == Denominator(places(i))
<1>1. \A i \in ids : i \in Nat /\ N(i) \in Nat /\ D(i) \in Nat \ {0}
  BY PlaceIs, ScoreIs
<1>2. \A i, j \in ids : <<i, j>> \in R <=>
          N(i) * D(j) > N(j) * D(i) \/ (~(N(j) * D(i) > N(i) * D(j)) /\ i < j)
  BY DEF Before, Ahead
<1> HIDE DEF R, N, D
<1>3. Total(R, ids)
  <2> SUFFICES ASSUME NEW i \in ids, NEW j \in ids, i # j PROVE <<i, j>> \in R \/ <<j, i>> \in R
    BY DEF Total
  <2>1. i < j \/ j < i
    BY <1>1
  <2> QED
    BY <1>2, <2>1
<1>4. Transitive(R, ids)
  <2> SUFFICES ASSUME NEW x \in ids, NEW y \in ids, NEW z \in ids, <<x, y>> \in R, <<y, z>> \in R
               PROVE  <<x, z>> \in R
    BY DEF Transitive
  <2>1. /\ N(x) * D(y) > N(y) * D(x) \/ (~(N(y) * D(x) > N(x) * D(y)) /\ x < y)
        /\ N(y) * D(z) > N(z) * D(y) \/ (~(N(z) * D(y) > N(y) * D(z)) /\ y < z)
    BY <1>2
  <2>2. N(x) * D(z) > N(z) * D(x) \/ (~(N(z) * D(x) > N(x) * D(z)) /\ x < z)
    BY <1>1, <2>1, ScoresTransitive
  <2> QED
    BY <1>2, <2>2
<1> QED
  BY <1>3, <1>4 DEF R

\* A clause of both rankings is never behind one of a single ranking.
LEMMA BothBefore ==
    ASSUME NEW ids, NEW dense, NEW lexical, Ranking(dense, ids), Ranking(lexical, ids),
           NEW i \in ToSet(dense) \cup ToSet(lexical), NEW j \in ToSet(dense) \cap ToSet(lexical),
           Before(dense, lexical, i, j)
    PROVE  i \in ToSet(dense) \cap ToSet(lexical)
<1> SUFFICES ASSUME i \notin ToSet(dense) \cap ToSet(lexical) PROVE FALSE
  OBVIOUS
<1> DEFINE p == <<Place(dense, i), Place(lexical, i)>>
           q == <<Place(dense, j), Place(lexical, j)>>
<1>1. Place(dense, j) \in Rank /\ Place(lexical, j) \in Rank
  BY PlaceIs
<1>2. \E t \in Rank : p = <<t, 0>> \/ p = <<0, t>>
  <2>1. CASE i \in ToSet(dense)
    BY <2>1, PlaceIs
  <2>2. CASE i \notin ToSet(dense)
    BY <2>2, PlaceIs
  <2> QED
    BY <2>1, <2>2
<1>3. Ahead(q, p)
  BY <1>1, <1>2, AgreementFirst
<1>4. /\ Numerator(p) \in Nat /\ Denominator(p) \in Nat \ {0}
      /\ Numerator(q) \in Nat /\ Denominator(q) \in Nat \ {0}
  BY PlaceIs, ScoreIs
<1>5. Ahead(p, q)
  BY <1>3 DEF Before
<1> HIDE DEF p, q
<1>6. \A x, y \in Nat : ~(x > y /\ y > x)
  OBVIOUS
<1>7. \A x, y \in Nat : x * y \in Nat
  OBVIOUS
<1> QED
  BY <1>3, <1>4, <1>5, <1>6, <1>7 DEF Ahead

\* A sequence over a set is one over any larger set.
LEMMA SeqOfMore == ASSUME NEW S, NEW T, S \subseteq T, NEW s \in Seq(S) PROVE s \in Seq(T)
<1> QED
  OBVIOUS

\* The two rankings, fused.
LEMMA FuseIs ==
    ASSUME NEW ids \in SUBSET Nat, IsFiniteSet(ids), NEW dense, NEW lexical,
           Ranking(dense, ids), Ranking(lexical, ids)
    PROVE  LET hits == Fuse(dense, lexical)
               found == ToSet(dense) \cup ToSet(lexical)
               both == ToSet(dense) \cap ToSet(lexical)
           IN  /\ hits \in Seq(Nat) /\ ToSet(hits) \subseteq found
               /\ Cardinality(ToSet(hits)) = Len(hits)
               /\ Len(hits) = IF Cardinality(found) =< Limit THEN Cardinality(found) ELSE Limit
               /\ \A i, j \in DOMAIN hits : i < j /\ hits[j] \in both => hits[i] \in both
               /\ both \subseteq ToSet(hits) \/ ToSet(hits) \subseteq both
<1> DEFINE found == ToSet(dense) \cup ToSet(lexical)
           both == ToSet(dense) \cap ToSet(lexical)
           R == {pair \in ids \X ids : Before(dense, lexical, pair[1], pair[2])}
           fused == Fused(dense, lexical)
           n == Cardinality(found)
           hits == Fuse(dense, lexical)
<1>1. found \subseteq ids /\ IsFiniteSet(found)
  BY FS_Subset DEF Ranking
<1>2. n \in Nat /\ Limit \in Nat
  BY <1>1, FS_CardinalityType, RankingAssumption
<1>3. fused \in SetToSeqs(found) /\ \A i, j \in DOMAIN fused : i < j => Before(dense, lexical, fused[i], fused[j])
  <2>1. Transitive(R, ids) /\ Total(R, ids)
    BY BeforeOrders
  <2>2. Transitive(R, found) /\ Total(R, found)
    <3> HIDE DEF R, found
    <3> QED
      BY <1>1, <2>1 DEF Transitive, Total
  <2> HIDE DEF R, found
  <2>3. PICK s \in SetToSeqs(found) : InOrder(R, s)
    BY <1>1, <2>2, Sortable
  <2>4. \A i, j \in DOMAIN s : i < j => Before(dense, lexical, s[i], s[j])
    BY <2>3 DEF InOrder, R
  <2>5. fused = CHOOSE q \in SetToSeqs(found) :
                    \A i, j \in DOMAIN q : i < j => Before(dense, lexical, q[i], q[j])
    BY DEF Fused, found
  <2> HIDE DEF fused
  <2> QED
    BY <2>4, <2>5, Zenon
<1> HIDE DEF fused, found
<1>4. /\ fused \in Seq(found) /\ Len(fused) = n /\ ToSet(fused) = found
      /\ \A i, j \in 1..Len(fused) : fused[i] = fused[j] => i = j
  BY <1>1, <1>3, OrderingsAre
<1> DEFINE l == IF n =< Limit THEN n ELSE Limit
<1>5. Min({Limit, n}) = l
  BY <1>2 DEF Min
<1> HIDE DEF n
<1>6. hits = SubSeq(fused, 1, l)
  BY <1>4, <1>5 DEF Fuse, fused
<1>7. l \in 0..n /\ l \in Nat
  BY <1>2
<1> HIDE DEF l, hits
<1>8. hits \in Seq(found) /\ Len(hits) = l /\ \A i \in 1..l : hits[i] = fused[i]
  BY <1>2, <1>4, <1>6, <1>7
<1>9. DOMAIN hits = 1..l /\ DOMAIN fused = 1..n /\ \A i \in 1..l : i \in 1..n
  BY <1>2, <1>4, <1>7, <1>8
<1>10. hits \in Seq(Nat) /\ ToSet(hits) \subseteq found
  <2>1. found \subseteq Nat
    BY <1>1
  <2>2. hits \in Seq(Nat)
    BY <1>8, <2>1, SeqOfMore
  <2>3. ToSet(hits) \subseteq found
    BY <1>8, <1>9 DEF ToSet
  <2> QED
    BY <2>2, <2>3
<1>11. Cardinality(ToSet(hits)) = Len(hits)
  <2>1. \A i, j \in 1..Len(hits) : hits[i] = hits[j] => i = j
    BY <1>4, <1>8, <1>9
  <2> QED
    BY <1>8, <2>1, DistinctCount
<1>12. ASSUME NEW i \in 1..n, NEW j \in 1..n, i < j, fused[j] \in both PROVE fused[i] \in both
  <2>1. Before(dense, lexical, fused[i], fused[j]) /\ fused[i] \in found
    BY <1>3, <1>4, <1>9, <1>12
  <2> QED
    BY <1>12, <2>1, BothBefore DEF found
<1>13. \A i, j \in DOMAIN hits : i < j /\ hits[j] \in both => hits[i] \in both
  <2> HIDE DEF both
  <2> QED
    BY <1>8, <1>9, <1>12
<1>14. both \subseteq ToSet(hits) \/ ToSet(hits) \subseteq both
  <2> SUFFICES ASSUME NEW b \in both, b \notin ToSet(hits), NEW x \in ToSet(hits) PROVE x \in both
    OBVIOUS
  <2>1. b \in found
    BY DEF found
  <2> HIDE DEF both
  <2>2. PICK j \in 1..n : fused[j] = b
    BY <1>4, <1>9, <2>1 DEF ToSet
  <2>3. PICK i \in 1..l : hits[i] = x
    BY <1>9 DEF ToSet
  <2>4. j \notin 1..l
    BY <1>8, <1>9, <2>2 DEF ToSet
  <2>5. i \in 1..n /\ i < j
    BY <1>2, <1>7, <2>4
  <2> QED
    BY <1>8, <1>12, <2>2, <2>3, <2>5
<1>15. Len(hits) = l
  BY <1>8
<1> QED
  BY <1>10, <1>11, <1>13, <1>14, <1>15 DEF hits, l, n, found

-----------------------------------------------------------------------------
(* Searches.                                                                *)

Search == [step : {"idle", "identity", "dense", "lexical", "done"},
           version : Versions \cup {None}, encoder : Encoders \cup {None},
           context : Contexts \cup {None},
           dense : Seq(Nat), lexical : Seq(Nat), hits : Seq(Nat)]

\* The clauses a search may find: those of its version that match its context.
Candidates(s) == Matching(Rows(s.version, s.encoder), s.context)

\* What a search holds after each of its steps, given what is stored.  The rankings
\* are of the version's clauses, although the rows are read in two queries.
SearchOK(s, stored) ==
    /\ s \in Search
    /\ s.step # "idle" => s.version \in Versions /\ s.encoder \in Encoders
    /\ s.step \in {"dense", "lexical", "done"} => stored[s.version] = s.encoder
    /\ s.step # "done" => s.lexical = <<>>
    /\ s.step = "lexical" => s.context # None
    /\ s.step \in {"lexical", "done"} => Ranking(s.dense, Candidates(s))
    /\ s.step = "done" =>
           IF s.context = None THEN s.lexical = <<>> /\ s.hits = s.dense
           ELSE Ranking(s.lexical, Candidates(s)) /\ s.hits = Fuse(s.dense, s.lexical)

Searching == reader \in [Readers -> Search] /\ \A r \in Readers : SearchOK(reader[r], corpora)

\* What is stored stays as it is stored.
LEMMA StoredStays ==
    ASSUME IInv, [Next]_vars, NEW v \in Versions, corpora[v] # None
    PROVE  corpora'[v] = corpora[v]
<1>1. CASE UNCHANGED corpora
  BY <1>1
<1>2. ASSUME NEW i \in Ingests, Commit(i) PROVE corpora'[v] = corpora[v]
  BY <1>2, CommitStores DEF IInv, Typed
<1>3. ASSUME NEW i \in Ingests,
             \/ \E w \in Versions, encoder \in Encoders : Begin(i, w, encoder)
             \/ Lock(i) \/ LookUp(i) \/ InsertCorpus(i) \/ InsertClauses(i) \/ InsertLinks(i)
             \/ Point(i) \/ Abort(i)
      PROVE UNCHANGED corpora
  BY <1>3 DEF Begin, Lock, LookUp, InsertCorpus, InsertClauses, InsertLinks, Point, Abort,
              Go, Insert, Fail, tables
<1>4. ASSUME NEW r \in Readers,
             \/ \E encoder \in Encoders, context \in Contexts : Snapshot(r, encoder, context)
             \/ CheckIdentity(r) \/ SearchDense(r) \/ SearchLexical(r) \/ Return(r)
      PROVE UNCHANGED corpora
  BY <1>4 DEF Snapshot, CheckIdentity, SearchDense, SearchLexical, Return, tables
<1>5. ASSUME NEW w \in Versions, Restore(w) PROVE UNCHANGED corpora
  BY <1>5 DEF Restore
<1>6. UNCHANGED vars => UNCHANGED corpora
  BY DEF vars, tables
<1> QED
  BY <1>1, <1>2, <1>3, <1>4, <1>5, <1>6 DEF Next, IngestStep

\* Nor does it change under a search.
LEMMA SearchKeeps ==
    ASSUME IInv, [Next]_vars, NEW s, SearchOK(s, corpora) PROVE SearchOK(s, corpora')
<1>1. ASSUME s.step \in {"dense", "lexical", "done"} PROVE corpora'[s.version] = s.encoder
  <2>1. s.version \in Versions /\ s.encoder \in Encoders /\ corpora[s.version] = s.encoder
    BY <1>1 DEF SearchOK
  <2>2. corpora[s.version] # None
    BY <2>1, NoneAssumption
  <2> QED
    BY <2>1, <2>2, StoredStays
<1> QED
  BY <1>1 DEF SearchOK

\* The ids of a corpus are finitely many numbers.
LEMMA IdsFinite ==
    ASSUME NEW v \in Versions
    PROVE  IsFiniteSet(Ids(File(v).clauses)) /\ Ids(File(v).clauses) \subseteq Nat
<1> DEFINE D == DOMAIN File(v).clauses
           T == Ids(File(v).clauses)
           f == [i \in D |-> File(v).clauses[i].id]
<1>1. f \in Surjection(D, T)
  BY DEF Ids, Surjection
<1>2. IsFiniteSet(D) /\ T \subseteq Nat
  BY FilesAssumption
<1> HIDE DEF D, T, f
<1>3. IsFiniteSet(T)
  BY <1>1, <1>2, FS_Surjection
<1> QED
  BY <1>2, <1>3 DEF T

\* A search finds clauses of its version, and those apply in its context.
LEMMA CandidatesApply ==
    ASSUME NEW s, s.version \in Versions, Valid(File(s.version))
    PROVE  /\ Candidates(s) \subseteq Ids(File(s.version).clauses)
           /\ IsFiniteSet(Candidates(s)) /\ Candidates(s) \in SUBSET Nat
           /\ s.context # None => \A id \in Candidates(s) :
                  AppliesTo(ClauseOf(File(s.version).clauses, id), s.context)
<1> DEFINE clauses == File(s.version).clauses
<1>1. ASSUME NEW id \in Candidates(s)
      PROVE  \E i \in DOMAIN clauses :
                 clauses[i].id = id /\ Matches(RowOf(clauses[i], s.encoder), s.context)
  <2>1. PICK row \in Rows(s.version, s.encoder) : row.id = id /\ Matches(row, s.context)
    BY <1>1 DEF Candidates, Matching
  <2>2. PICK c \in ToSet(clauses) : row = RowOf(c, s.encoder)
    BY <2>1 DEF Rows
  <2>3. PICK i \in DOMAIN clauses : c = clauses[i]
    BY <2>2 DEF ToSet
  <2>4. row.id = c.id
    BY <2>2 DEF RowOf
  <2> QED
    BY <2>1, <2>2, <2>3, <2>4
<1>2. Candidates(s) \subseteq Ids(clauses)
  BY <1>1 DEF Ids
<1>3. IsFiniteSet(Candidates(s)) /\ Candidates(s) \in SUBSET Nat
  BY <1>2, IdsFinite, FS_Subset
<1>4. ASSUME s.context # None, NEW id \in Candidates(s) PROVE AppliesTo(ClauseOf(clauses, id), s.context)
  <2>1. PICK i \in DOMAIN clauses :
            clauses[i].id = id /\ Matches(RowOf(clauses[i], s.encoder), s.context)
    BY <1>1, <1>4
  <2>2. ClauseOf(clauses, id) = clauses[i]
    BY <2>1 DEF ClauseOf, Valid, UniqueIds
  <2>3. AppliesTo(clauses[i], s.context)
    BY <1>4, <2>1 DEF Matches, RowOf, AppliesTo, InPeriod
  <2> QED
    BY <2>2, <2>3
<1> QED
  BY <1>2, <1>3, <1>4

-----------------------------------------------------------------------------
(* The steps of a search.                                                   *)

\* A search becomes one that is right; the others stay.
LEMMA SearchBecomes ==
    ASSUME IInv, Searching, [Next]_vars, NEW r \in Readers, NEW s, SearchOK(s, corpora),
           reader' = [reader EXCEPT ![r] = s]
    PROVE  Searching'
<1>1. s \in Search
  BY DEF SearchOK
<1>2. reader' \in [Readers -> Search]
  BY <1>1 DEF Searching
<1>3. ASSUME NEW q \in Readers PROVE SearchOK(reader'[q], corpora')
  <2>1. SearchOK(reader'[q], corpora)
    BY DEF Searching
  <2> QED
    BY <2>1, SearchKeeps
<1> QED
  BY <1>2, <1>3 DEF Searching

\* A search that has not begun, or has failed.
LEMMA NoSearchOK == SearchOK(NoSearch, corpora)
<1>1. <<>> \in Seq(Nat)
  OBVIOUS
<1> QED
  BY <1>1 DEF SearchOK, NoSearch, Search

\* A search takes the active version.
LEMMA SnapshotKeeps ==
    ASSUME IInv, Searching, [Next]_vars, NEW r \in Readers, NEW encoder \in Encoders,
           NEW context \in Contexts, Snapshot(r, encoder, context)
    PROVE  Searching'
<1> DEFINE s == [reader[r] EXCEPT !.step = "identity", !.version = active,
                                  !.encoder = encoder, !.context = context]
<1>1. reader[r] \in Search /\ SearchOK(reader[r], corpora) /\ reader[r].step = "idle"
  BY DEF Searching, Snapshot
<1>2. active \in Versions
  BY DEF Snapshot, IInv, Typed
<1>3. reader' = [reader EXCEPT ![r] = s]
  BY DEF Snapshot, Searching
<1>4. s \in Search
  BY <1>1, <1>2 DEF Search
<1>5. s.step = "identity" /\ s.version = active /\ s.encoder = encoder /\ s.lexical = reader[r].lexical
  BY <1>1 DEF Search
<1> HIDE DEF s
<1>6. SearchOK(s, corpora)
  BY <1>1, <1>2, <1>4, <1>5 DEF SearchOK
<1> QED
  BY <1>3, <1>6, SearchBecomes

\* It goes on when the corpus was embedded by its encoder.
LEMMA CheckIdentityKeeps ==
    ASSUME IInv, Searching, [Next]_vars, NEW r \in Readers, CheckIdentity(r)
    PROVE  Searching'
<1> DEFINE s == [reader[r] EXCEPT !.step = "dense"]
<1>1. reader[r] \in Search /\ SearchOK(reader[r], corpora) /\ reader[r].step = "identity"
  BY DEF Searching, CheckIdentity
<1>2. CASE corpora[reader[r].version] = reader[r].encoder /\ reader' = [reader EXCEPT ![r].step = "dense"]
  <2>1. reader' = [reader EXCEPT ![r] = s]
    BY <1>2 DEF Searching
  <2>2. s \in Search /\ s.step = "dense" /\ s.version = reader[r].version
        /\ s.encoder = reader[r].encoder /\ s.lexical = reader[r].lexical
    BY <1>1 DEF Search
  <2> HIDE DEF s
  <2>3. SearchOK(s, corpora)
    BY <1>1, <1>2, <2>2 DEF SearchOK
  <2> QED
    BY <2>1, <2>3, SearchBecomes
<1>3. CASE ReadFails(r)
  BY <1>3, NoSearchOK, SearchBecomes DEF ReadFails
<1> QED
  BY <1>2, <1>3 DEF CheckIdentity

\* The clauses a step looks at are those of the search's version, whatever was
\* published since.
LEMMA FoundIs ==
    ASSUME IInv, Searching, NEW r \in Readers, reader[r].step \in {"dense", "lexical", "done"}
    PROVE  /\ Found(r) = Candidates(reader[r])
           /\ reader[r].version \in Versions /\ Valid(File(reader[r].version))
           /\ IsFiniteSet(Found(r)) /\ Found(r) \in SUBSET Nat
<1>1. SearchOK(reader[r], corpora)
  BY DEF Searching
<1>2. /\ reader[r].version \in Versions /\ reader[r].encoder \in Encoders
      /\ corpora[reader[r].version] = reader[r].encoder
  BY <1>1 DEF SearchOK
<1>3. corpora[reader[r].version] # None
  BY <1>2, NoneAssumption
<1>4. /\ clauseRows[reader[r].version] = Rows(reader[r].version, reader[r].encoder)
      /\ Valid(File(reader[r].version))
  BY <1>2, <1>3 DEF IInv, TablesAgree
<1>5. Found(r) = Candidates(reader[r])
  BY <1>4 DEF Found, Candidates
<1> QED
  BY <1>2, <1>4, <1>5, CandidatesApply

\* The dense ranking; with no context it is the result.
LEMMA SearchDenseKeeps ==
    ASSUME IInv, Searching, [Next]_vars, NEW r \in Readers, SearchDense(r)
    PROVE  Searching'
<1>1. reader[r] \in Search /\ SearchOK(reader[r], corpora) /\ reader[r].step = "dense"
  BY DEF Searching, SearchDense
<1>2. PICK dense \in Rankings(Found(r)) :
        reader' = IF reader[r].context = None
                  THEN [reader EXCEPT ![r].step = "done", ![r].dense = dense, ![r].hits = dense]
                  ELSE [reader EXCEPT ![r].step = "lexical", ![r].dense = dense]
  BY DEF SearchDense
<1>3. Ranking(dense, Candidates(reader[r])) /\ dense \in Seq(Nat)
  <2>1. Found(r) = Candidates(reader[r]) /\ IsFiniteSet(Found(r)) /\ Found(r) \subseteq Nat
    BY <1>1, FoundIs
  <2>2. Ranking(dense, Found(r))
    BY <2>1, RankingsAre
  <2>3. dense \in Seq(Nat)
    BY <2>1, <2>2, SeqOfMore DEF Ranking
  <2> QED
    BY <2>1, <2>2, <2>3
<1>4. CASE reader[r].context = None
  <2> DEFINE s == [reader[r] EXCEPT !.step = "done", !.dense = dense, !.hits = dense]
  <2>1. reader' = [reader EXCEPT ![r] = s]
    BY <1>2, <1>4 DEF Searching
  <2>2. s \in Search /\ s.step = "done" /\ s.version = reader[r].version
        /\ s.encoder = reader[r].encoder /\ s.lexical = reader[r].lexical
        /\ s.context = reader[r].context /\ s.dense = dense /\ s.hits = dense
    BY <1>1, <1>3 DEF Search
  <2> HIDE DEF s
  <2>3. Candidates(s) = Candidates(reader[r])
    BY <2>2 DEF Candidates
  <2>4. SearchOK(s, corpora)
    BY <1>1, <1>3, <1>4, <2>2, <2>3 DEF SearchOK
  <2> QED
    BY <2>1, <2>4, SearchBecomes
<1>5. CASE reader[r].context # None
  <2> DEFINE s == [reader[r] EXCEPT !.step = "lexical", !.dense = dense]
  <2>1. reader' = [reader EXCEPT ![r] = s]
    BY <1>2, <1>5 DEF Searching
  <2>2. s \in Search /\ s.step = "lexical" /\ s.version = reader[r].version
        /\ s.encoder = reader[r].encoder /\ s.lexical = reader[r].lexical
        /\ s.context = reader[r].context /\ s.dense = dense
    BY <1>1, <1>3 DEF Search
  <2> HIDE DEF s
  <2>3. Candidates(s) = Candidates(reader[r])
    BY <2>2 DEF Candidates
  <2>4. SearchOK(s, corpora)
    BY <1>1, <1>3, <1>5, <2>2, <2>3 DEF SearchOK
  <2> QED
    BY <2>1, <2>4, SearchBecomes
<1> QED
  BY <1>4, <1>5

\* The baseline is done after its dense ranking: what goes on has a context.
LEMMA SearchLexicalKeeps ==
    ASSUME IInv, Searching, [Next]_vars, NEW r \in Readers, SearchLexical(r)
    PROVE  Searching'
<1>1. reader[r] \in Search /\ SearchOK(reader[r], corpora) /\ reader[r].step = "lexical"
      /\ reader[r].context # None
  BY DEF Searching, SearchLexical, SearchOK
<1>2. PICK lexical \in Rankings(Found(r)) :
        reader' = [reader EXCEPT ![r].step = "done", ![r].lexical = lexical,
                                 ![r].hits = Fuse(reader[r].dense, lexical)]
  BY DEF SearchLexical
<1>3. /\ Found(r) = Candidates(reader[r]) /\ IsFiniteSet(Found(r)) /\ Found(r) \in SUBSET Nat
      /\ Ranking(reader[r].dense, Found(r))
  BY <1>1, FoundIs DEF SearchOK
<1>4. Ranking(lexical, Found(r)) /\ lexical \in Seq(Nat)
  <2>1. Ranking(lexical, Found(r))
    BY <1>3, RankingsAre
  <2> QED
    BY <1>3, <2>1, SeqOfMore DEF Ranking
<1>5. Fuse(reader[r].dense, lexical) \in Seq(Nat)
  BY <1>3, <1>4, FuseIs
<1> DEFINE hits == Fuse(reader[r].dense, lexical)
           s == [reader[r] EXCEPT !.step = "done", !.lexical = lexical, !.hits = hits]
<1>6. reader' = [reader EXCEPT ![r] = s]
  BY <1>2 DEF Searching
<1> HIDE DEF hits
<1>7. hits \in Seq(Nat)
  BY <1>5 DEF hits
<1>8. s \in Search /\ s.step = "done" /\ s.version = reader[r].version
      /\ s.encoder = reader[r].encoder /\ s.lexical = lexical
      /\ s.context = reader[r].context /\ s.dense = reader[r].dense /\ s.hits = hits
  BY <1>1, <1>4, <1>7 DEF Search
<1> HIDE DEF s
<1>9. Candidates(s) = Candidates(reader[r])
  BY <1>8 DEF Candidates
<1>10. s.hits = Fuse(s.dense, s.lexical)
  BY <1>8 DEF hits
<1>11. SearchOK(s, corpora)
  BY <1>1, <1>3, <1>4, <1>8, <1>9, <1>10 DEF SearchOK
<1> QED
  BY <1>6, <1>11, SearchBecomes

-----------------------------------------------------------------------------
(* The searches, throughout.                                                *)

\* Every step keeps what the searches hold.
LEMMA StepSearching == ASSUME IInv, Searching, [Next]_vars PROVE Searching'
<1>1. ASSUME UNCHANGED reader PROVE Searching'
  <2>1. \A r \in Readers : SearchOK(reader[r], corpora')
    BY SearchKeeps DEF Searching
  <2> QED
    BY <1>1, <2>1 DEF Searching
<1>2. ASSUME NEW i \in Ingests,
             \/ \E v \in Versions, encoder \in Encoders : Begin(i, v, encoder)
             \/ Lock(i) \/ LookUp(i) \/ InsertCorpus(i) \/ InsertClauses(i) \/ InsertLinks(i)
             \/ Point(i) \/ Commit(i) \/ Abort(i)
      PROVE UNCHANGED reader
  BY <1>2 DEF Begin, Lock, LookUp, InsertCorpus, InsertClauses, InsertLinks, Point, Commit, Abort,
              Go, Insert, Fail
<1>3. ASSUME NEW v \in Versions, Restore(v) PROVE UNCHANGED reader
  BY <1>3 DEF Restore
<1>4. ASSUME NEW r \in Readers, Return(r) PROVE Searching'
  BY <1>4, NoSearchOK, SearchBecomes DEF Return, ReadFails
<1>5. CASE UNCHANGED vars
  BY <1>1, <1>5 DEF vars
<1> QED
  BY <1>1, <1>2, <1>3, <1>4, <1>5, SnapshotKeeps, CheckIdentityKeeps, SearchDenseKeeps,
     SearchLexicalKeeps DEF Next, IngestStep

\* What a search that is done says is right.
LEMMA DoneIsRight ==
    ASSUME IInv, Searching, NEW r \in Readers, reader[r].step = "done"
    PROVE  LET s == reader[r]
               found == ToSet(s.dense) \cup ToSet(s.lexical)
               both == ToSet(s.dense) \cap ToSet(s.lexical)
           IN
           /\ corpora[s.version] = s.encoder
           /\ ToSet(s.hits) \subseteq Ids(File(s.version).clauses)
           /\ s.context # None => \A id \in ToSet(s.hits) :
                  AppliesTo(ClauseOf(File(s.version).clauses, id), s.context)
           /\ Cardinality(ToSet(s.hits)) = Len(s.hits)
           /\ Len(s.hits) = IF Cardinality(found) =< Limit THEN Cardinality(found) ELSE Limit
           /\ \A i, j \in DOMAIN s.hits : i < j /\ s.hits[j] \in both => s.hits[i] \in both
           /\ both \subseteq ToSet(s.hits) \/ ToSet(s.hits) \subseteq both
<1> DEFINE s == reader[r]
           dense == s.dense
           lexical == s.lexical
           hits == s.hits
           ids == Candidates(s)
           found == ToSet(dense) \cup ToSet(lexical)
           both == ToSet(dense) \cap ToSet(lexical)
<1>1. /\ SearchOK(s, corpora) /\ corpora[s.version] = s.encoder /\ Ranking(dense, ids)
      /\ IF s.context = None THEN lexical = <<>> /\ hits = dense
         ELSE Ranking(lexical, ids) /\ hits = Fuse(dense, lexical)
  BY DEF Searching, SearchOK
<1>2. s.version \in Versions /\ Valid(File(s.version))
  BY FoundIs
<1>3. /\ ids \subseteq Ids(File(s.version).clauses)
      /\ IsFiniteSet(ids) /\ ids \in SUBSET Nat
      /\ s.context # None => \A id \in ids : AppliesTo(ClauseOf(File(s.version).clauses, id), s.context)
  BY <1>2, CandidatesApply
<1>4. ToSet(dense) \subseteq ids
  BY <1>1 DEF Ranking
<1>5. /\ ToSet(hits) \subseteq ids
      /\ Cardinality(ToSet(hits)) = Len(hits)
      /\ Len(hits) = IF Cardinality(found) =< Limit THEN Cardinality(found) ELSE Limit
      /\ \A i, j \in DOMAIN hits : i < j /\ hits[j] \in both => hits[i] \in both
      /\ both \subseteq ToSet(hits) \/ ToSet(hits) \subseteq both
  <2>1. CASE s.context = None
    <3>1. lexical = <<>> /\ hits = dense
      BY <1>1, <2>1
    <3>2. ToSet(lexical) = {}
      BY <3>1 DEF ToSet
    <3> HIDE DEF dense, lexical, hits, ids, s
    <3>3. found = ToSet(dense) /\ both = {}
      BY <3>2
    <3>4. Cardinality(ToSet(dense)) = Len(dense)
      BY <1>1, DistinctCount DEF Ranking
    <3>5. Len(dense) =< Limit
      BY <1>1 DEF Ranking
    <3> QED
      BY <1>4, <3>1, <3>3, <3>4, <3>5
  <2>2. CASE s.context # None
    <3>1. Ranking(lexical, ids) /\ hits = Fuse(dense, lexical)
      BY <1>1, <2>2
    <3>2. ToSet(lexical) \subseteq ids
      BY <3>1 DEF Ranking
    <3> HIDE DEF dense, lexical, hits, ids, s
    <3>3. /\ ToSet(hits) \subseteq found
          /\ Cardinality(ToSet(hits)) = Len(hits)
          /\ Len(hits) = IF Cardinality(found) =< Limit THEN Cardinality(found) ELSE Limit
          /\ \A i, j \in DOMAIN hits : i < j /\ hits[j] \in both => hits[i] \in both
          /\ both \subseteq ToSet(hits) \/ ToSet(hits) \subseteq both
      BY <1>1, <1>3, <3>1, FuseIs
    <3>4. found \subseteq ids
      BY <1>4, <3>2
    <3> HIDE DEF found, both
    <3> QED
      BY <3>3, <3>4
  <2> QED
    BY <2>1, <2>2
<1> HIDE DEF dense, lexical, ids, found, both
<1>6. ToSet(hits) \subseteq Ids(File(s.version).clauses)
  BY <1>3, <1>5
<1>7. s.context # None => \A id \in ToSet(hits) :
          AppliesTo(ClauseOf(File(s.version).clauses, id), s.context)
  BY <1>3, <1>5
<1> QED
  BY <1>1, <1>5, <1>6, <1>7 DEF found, both, dense, lexical

\* For any number of ingests and searches, any corpora and any limit: what a search
\* returns is of one version and its own encoder, applies in its context, is as long
\* as it can be, and has the clauses of both rankings first.
THEOREM SearchesFollowPolicy == Spec => []SearchFollowsPolicy
<1>1. Init => Searching
  BY NoSearchOK DEF Init, Searching, SearchOK
<1>2. IInv /\ Searching /\ [Next]_vars => Searching'
  BY StepSearching
<1>3. IInv /\ Searching => SearchFollowsPolicy
  BY DoneIsRight DEF SearchFollowsPolicy
<1> QED
  BY InvariantHolds, <1>1, <1>2, <1>3, PTL DEF Spec
=============================================================================
