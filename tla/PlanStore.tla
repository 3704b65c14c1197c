------------------------------ MODULE PlanStore ------------------------------
(***************************************************************************)
(* plan_store.py: the files under the runtime-state root that carry the    *)
(* lifecycle of a plan.  Every file is one entry per plan hash:            *)
(*                                                                         *)
(*   pending             the plan file is in pending/                      *)
(*   approved, temp      the file approved/<hash>.json, and the one that   *)
(*                       is to replace it, under its temporary name        *)
(*   meta                the fingerprint in approved/<hash>.meta.json      *)
(*   marker              the state in executed/<hash>.json: "none" when    *)
(*                       there is no file, "created" when O_EXCL created   *)
(*                       it and nothing is in it yet                       *)
(*   summary, envelope   the newest summaries/ and failures/ file          *)
(*                                                                         *)
(* All files but the marker's first version are written to a temporary     *)
(* name and renamed.  For the approved file, which two approvers of one    *)
(* plan may write at once, opening, writing and renaming are steps of      *)
(* their own; the other writes are one step each.                          *)
(***************************************************************************)
EXTENDS PlanModel

CONSTANT Proc  \* process slots

VARIABLES pending, approved, temp, meta, marker, summary, envelope

store == <<pending, approved, temp, meta, marker, summary, envelope>>

\* A file: whether it holds all of its text, and the processes that have opened
\* it and not written it yet.  The temporary name is the same for everybody, so
\* two processes may have one file open.
File == [text: {"none", "torn", "whole"}, writers: SUBSET Proc]
NoFile == [text |-> "none", writers |-> {}]

MarkerStates == {"none", "created", "IN_FLIGHT", "EXECUTED", "FAILED"}

\* The part of a summary that the properties read: the status, the number of
\* failed tests and the paths whose rollback reported an error.
Summary == [status: Statuses, failed: Nat, errors: SUBSET Path]

ASSUME NoneIsNoSummary == None \notin Summary

\* Of a failure envelope only the class of the failure.
Envelope == Statuses

StoreTypeOK ==
    /\ pending \in [Plan -> BOOLEAN]
    /\ approved \in [Plan -> File]
    /\ temp \in [Plan -> File]
    /\ meta \in [Plan -> Prints \cup {None}]
    /\ marker \in [Plan -> MarkerStates]
    /\ summary \in [Plan -> Summary \cup {None}]
    /\ envelope \in [Plan -> Envelope \cup {None}]

StoreInit ==
    /\ pending = [p \in Plan |-> FALSE]
    /\ approved = [p \in Plan |-> NoFile]
    /\ temp = [p \in Plan |-> NoFile]
    /\ meta = [p \in Plan |-> None]
    /\ marker = [p \in Plan |-> "none"]
    /\ summary = [p \in Plan |-> None]
    /\ envelope = [p \in Plan |-> None]
-----------------------------------------------------------------------------
StorePending(p) ==
    /\ pending' = [pending EXCEPT ![p] = TRUE]
    /\ UNCHANGED <<approved, temp, meta, marker, summary, envelope>>

\* open(tmp_path, "w") creates the file or empties the one that is there.  What
\* t opened before, if anything, it has lost.
OpenTemp(p, t) ==
    /\ temp' = [temp EXCEPT ![p] = [text |-> "torn", writers |-> @.writers \cup {t}]]
    /\ approved' = [approved EXCEPT ![p].writers = @ \ {t}]
    /\ UNCHANGED <<pending, meta, marker, summary, envelope>>

\* The text goes to the file that t has opened, whatever its name is by now.
Filled(file, t) ==
    IF t \in file.writers THEN [text |-> "whole", writers |-> file.writers \ {t}] ELSE file

FillTemp(p, t) ==
    /\ temp' = [temp EXCEPT ![p] = Filled(@, t)]
    /\ approved' = [approved EXCEPT ![p] = Filled(@, t)]
    /\ UNCHANGED <<pending, meta, marker, summary, envelope>>

\* tmp_path.replace(path) takes what is under the temporary name.
RenameTemp(p) ==
    /\ approved' = [approved EXCEPT ![p] = temp[p]]
    /\ temp' = [temp EXCEPT ![p] = NoFile]
    /\ UNCHANGED <<pending, meta, marker, summary, envelope>>

\* Mutant: unlink(missing_ok=True).
CanAlwaysUnlink(p) == TRUE

\* Path.unlink raises when the file is gone: removable only while it exists.
CanUnlink(p) == pending[p]

RemovePending(p) ==
    /\ pending' = [pending EXCEPT ![p] = FALSE]
    /\ UNCHANGED <<approved, temp, meta, marker, summary, envelope>>

PutMeta(p, print) ==
    /\ meta' = [meta EXCEPT ![p] = print]
    /\ UNCHANGED <<pending, approved, temp, marker, summary, envelope>>

PutMarker(p, state) ==
    /\ marker' = [marker EXCEPT ![p] = state]
    /\ UNCHANGED <<pending, approved, temp, meta, summary, envelope>>

PutSummary(p, record) ==
    /\ summary' = [summary EXCEPT ![p] = record]
    /\ UNCHANGED <<pending, approved, temp, meta, marker, envelope>>

PutEnvelope(p, class) ==
    /\ envelope' = [envelope EXCEPT ![p] = class]
    /\ UNCHANGED <<pending, approved, temp, meta, marker, summary>>

\* A plan can be executed: approved file and approval metadata are on disk, and readable.
Approved(p) == approved[p].text = "whole" /\ meta[p] # None

\* Mutant: the lock looks for a finished run only.
MarkerNotTerminal(p) == marker[p] \notin {"EXECUTED", "FAILED"}

\* os.open(O_CREAT | O_EXCL) succeeds only when there is no marker file.
MarkerFree(p) == marker[p] = "none"

\* Mutant: the marker is replaced whatever state it holds.
CanOverwrite(p, state) == marker[p] # "none"

\* ALLOWED_STATE_TRANSITIONS, for the transitions that overwrite a marker.
CanMove(p, state) ==
    <<marker[p], state>> \in {<<"IN_FLIGHT", "EXECUTED">>, <<"IN_FLIGHT", "FAILED">>}
=============================================================================
