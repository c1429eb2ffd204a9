------------------------------- MODULE Release -------------------------------
(***************************************************************************)
(* deploy/release.py: one attempt after another to replace the running image *)
(* and the active corpus, with failures of every command it runs and with    *)
(* stops of the script between any two of them (a lost SSH session, Ctrl-C,  *)
(* a reboot), of which only failures inside its `try` are rolled back.       *)
(*                                                                           *)
(* The database, the containers and the state file are what outlives an      *)
(* attempt.  An image ships the corpus that `policytime ingest` publishes.   *)
(***************************************************************************)
EXTENDS Naturals

CONSTANTS
    Images,         \* tagged images, each with a corpus of its own
    CorpusOf(_),    \* the corpus an image publishes
    Attempts,       \* bound: attempts to release
    Nothing,        \* no file, no image, no corpus
    Torn            \* a state file whose write was cut short

\* No image, and no corpus of an image, is the absent one.
ASSUME NothingAssumption == Nothing \notin Images /\ \A i \in Images : CorpusOf(i) # Nothing
ASSUME AttemptsAssumption == Attempts \in Nat

VARIABLES
    step,           \* where main() is, "idle" between attempts
    image,          \* the argument
    previous,       \* local: the image that the state file names
    previousCorpus, \* local: the corpus that was active before ingest
    state,          \* deploy/release-state.json
    active,         \* the active corpus
    app,            \* the image of the app container
    outcome,        \* history: how the last attempt ended
    attempts,       \* history: attempts so far
    clean           \* history: no attempt stopped or failed outside the `try` after ingest began

locals == <<image, previous, previousCorpus>>
release_vars == <<step, locals, state, active, app, outcome, attempts, clean>>

Corpora == {CorpusOf(i) : i \in Images}
Steps == {"idle", "prepare", "read", "ingest", "up", "ready", "restore", "rollback", "write"}
Outcomes == {"none", "released", "rolledBack", "failed", "stopped"}
State == [image : Images, previous_image : Images \cup {Nothing}, previous_corpus : Corpora \cup {Nothing}]

TypeOK ==
    /\ step \in Steps
    /\ image \in Images \cup {Nothing}
    /\ previous \in Images \cup {Nothing}
    /\ previousCorpus \in Corpora \cup {Nothing}
    /\ state \in State \cup {Nothing, Torn}
    /\ active \in Corpora \cup {Nothing}
    /\ app \in Images \cup {Nothing}
    /\ outcome \in Outcomes
    /\ attempts \in 0..Attempts
    /\ clean \in BOOLEAN

ReleaseInit ==
    /\ step = "idle"
    /\ image = Nothing /\ previous = Nothing /\ previousCorpus = Nothing
    /\ state = Nothing
    /\ active = Nothing /\ app = Nothing
    /\ outcome = "none" /\ attempts = 0 /\ clean = TRUE

End(how) == step' = "idle" /\ outcome' = how
Go(next) == step' = next /\ UNCHANGED outcome

-----------------------------------------------------------------------------
(* main                                                                     *)

Start(i) ==
    /\ step = "idle"
    /\ attempts < Attempts
    /\ attempts' = attempts + 1
    /\ image' = i
    /\ previousCorpus' = Nothing
    /\ \/ state # Torn /\ Go("prepare")
          /\ previous' = IF state = Nothing THEN Nothing ELSE state.image
       \/ state = Torn /\ previous' = Nothing /\ End("failed")
    /\ UNCHANGED <<state, active, app, clean>>

\* pull, start of the database, migration
PrepareImage ==
    /\ step = "prepare"
    /\ Go("read") \/ End("failed")
    /\ UNCHANGED <<locals, state, active, app, attempts, clean>>

\* Mutant: the corpus to roll back to is read after ingest.
ReadCorpusLate ==
    /\ step = "read"
    /\ \/ previousCorpus' = CorpusOf(image) /\ Go("ingest")
       \/ UNCHANGED previousCorpus /\ End("failed")
    /\ UNCHANGED <<image, previous, state, active, app, attempts, clean>>
ReadCorpus ==
    /\ step = "read"
    /\ \/ previousCorpus' = active /\ Go("ingest")
       \/ UNCHANGED previousCorpus /\ End("failed")
    /\ UNCHANGED <<image, previous, state, active, app, attempts, clean>>

\* The command may fail although its transaction committed.
Ingest ==
    /\ step = "ingest"
    /\ \/ active' = CorpusOf(image) /\ Go("up") /\ UNCHANGED clean
       \/ active' \in {active, CorpusOf(image)} /\ End("failed") /\ clean' = FALSE
    /\ UNCHANGED <<locals, state, app, attempts>>

\* Mutant: the exit status of `up` is not checked.
UpUnchecked ==
    /\ step = "up"
    /\ app' \in {app, image} /\ Go("ready")
    /\ UNCHANGED <<locals, state, active, attempts, clean>>
\* A failed `up` leaves either container.
Up ==
    /\ step = "up"
    /\ \/ app' = image /\ Go("ready")
       \/ app' \in {app, image} /\ Go("restore")
    /\ UNCHANGED <<locals, state, active, attempts, clean>>

Ready ==
    /\ step = "ready"
    /\ Go("write") \/ Go("restore")
    /\ UNCHANGED <<locals, state, active, app, attempts, clean>>

\* Mutant: only the image is rolled back.
RestoreNothing ==
    /\ step = "restore"
    /\ Go("rollback")
    /\ UNCHANGED <<locals, state, active, app, attempts, clean>>
\* Without a previous corpus there is nothing to restore.  A failure to restore
\* leaves main(), and the image is not rolled back.
Restore ==
    /\ step = "restore"
    /\ \/ previousCorpus = Nothing /\ Go("rollback") /\ UNCHANGED <<active, clean>>
       \/ previousCorpus # Nothing /\ active' = previousCorpus /\ Go("rollback") /\ UNCHANGED clean
       \/ previousCorpus # Nothing /\ active' \in {active, previousCorpus} /\ End("failed") /\ clean' = FALSE
    /\ UNCHANGED <<locals, state, app, attempts>>

Rollback ==
    /\ step = "rollback"
    /\ \/ previous = Nothing /\ UNCHANGED app /\ End("rolledBack") /\ UNCHANGED clean
       \/ previous # Nothing /\ app' = previous /\ End("rolledBack") /\ UNCHANGED clean
       \/ previous # Nothing /\ app' \in {app, previous} /\ End("failed") /\ clean' = FALSE
    /\ UNCHANGED <<locals, state, active, attempts>>

\* The file is written in place.
Write ==
    /\ step = "write"
    /\ state' = [image |-> image, previous_image |-> previous, previous_corpus |-> previousCorpus]
    /\ End("released")
    /\ UNCHANGED <<locals, active, app, attempts, clean>>

\* The script is stopped.
Interrupt ==
    /\ step # "idle"
    /\ End("stopped")
    /\ \/ step = "write" /\ state' = Torn
       \/ UNCHANGED state
    /\ clean' = (clean /\ step \in {"prepare", "read", "ingest"})
    /\ UNCHANGED <<locals, active, app, attempts>>

ReleaseNext ==
    \/ \E i \in Images : Start(i)
    \/ PrepareImage \/ ReadCorpus \/ Ingest \/ Up \/ Ready \/ Restore \/ Rollback \/ Write \/ Interrupt

ReleaseSpec == ReleaseInit /\ [][ReleaseNext]_release_vars

-----------------------------------------------------------------------------
(* What an attempt may leave behind.                                        *)

Recorded == state # Nothing /\ state # Torn

\* After any number of attempts that released, rolled back or failed before ingest,
\* the image that runs and the corpus that is active belong together: a failed
\* candidate leaves neither its image nor its policies behind.  A failing ingest,
\* restore or rollback, or a stop after ingest began, ends what this says.
AuthorityMatchesImage ==
    step = "idle" /\ clean /\ Recorded => app = state.image /\ active = CorpusOf(app)

\* A release that succeeds leaves its own image on its own corpus, whatever
\* stopped or failed attempts left before it.
ReleaseRepairs ==
    step = "idle" /\ outcome = "released" => app = state.image /\ active = CorpusOf(app)

\* What is recorded for a manual rollback is a pair that was released together.
PriorPairRecorded ==
    clean /\ Recorded /\ state.previous_image # Nothing =>
        state.previous_corpus = CorpusOf(state.previous_image)

\* "A failed candidate must restore policy authority as well as the image."
\* (tests/test_release.py), also after an attempt that stopped half way.
RollbackRestoresAuthority ==
    step = "idle" /\ outcome = "rolledBack" /\ Recorded =>
        app = state.image /\ active = CorpusOf(app)
=============================================================================
