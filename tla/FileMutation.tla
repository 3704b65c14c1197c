---------------------------- MODULE FileMutation ----------------------------
(***************************************************************************)
(* One mutation step of a running plan and the text of the one file that   *)
(* it names: the snapshot and the rollback of agent_core/plan_executor.py, *)
(* the verdict of tools/gateway.py, and patch_edit, apply_patch and        *)
(* create_file of tools/fs_tools.py with the loop that looks for matches.  *)
(* PlanLifecycle takes such a step to be one content for another; here is  *)
(* what the content is.                                                    *)
(***************************************************************************)
EXTENDS TextFiles

CONSTANTS
    Requests,   \* the steps that a plan may ask for
    Contents,   \* what the file may hold at the start
    MaxFaults   \* bound: writes that raise

\* A request is [tool, edits, guard, text]: edits and guard (a text whose hash
\* the step expects, or Absent) for PATCH_EDIT, text for the other two.
Tools == {"PATCH_EDIT", "PATCH_APPLY", "FILE_CREATE"}

ASSUME RequestsAreValid ==
    /\ \A r \in Requests :
          /\ r.tool \in Tools
          /\ r.edits \in Seq([old : Seq(Char), new : Seq(Char),
                             occurrence : (Nat \ {0}) \cup {Absent}])
          /\ r.text \in Seq(Char) /\ r.guard \in Seq(Char) \cup {Absent}
    /\ Contents \subseteq Seq(Char) \cup {Absent}
    /\ MaxFaults \in Nat

VARIABLES
    file,             \* the file's characters, or Absent
    request, pc, snapshot,
    content, applied, \* the text in memory, and how many edits have made it
    positions, start, \* the matches found so far, and where to look for more
    reason,           \* why the plan has failed, or "none"
    base, faults      \* history: the file at the start; faults so far

scan == <<positions, start>>
edit == <<content, applied, scan>>
vars == <<file, request, pc, snapshot, edit, reason, base, faults>>

\* Points at which nothing has been written yet.
BeforeWrite == {"start", "gate", "read", "edit", "scan", "choose", "write", "apply", "create"}
Points == BeforeWrite \cup {"done", "undo", "end"}
Reasons == {"none", "refused", "tool", "write", "later"}

\* Types; the search never leaves the text, nor looks for an edit beyond the last.
TypeOK ==
    /\ {file, base, snapshot} \subseteq Seq(Char) \cup {Absent}
    /\ pc \in Points /\ reason \in Reasons
    /\ content \in Seq(Char)
    /\ applied \in 0 .. Len(request.edits)
    /\ positions \in Seq(Nat) /\ start \in Nat
    /\ pc \in {"scan", "choose"} => applied < Len(request.edits) /\ start <= Len(content) + 1
    /\ faults \in 0 .. MaxFaults

Init ==
    /\ file \in Contents /\ base = file
    /\ request \in Requests
    /\ pc = "start" /\ snapshot = Absent
    /\ content = <<>> /\ applied = 0 /\ positions = <<>> /\ start = 1
    /\ reason = "none" /\ faults = 0

At(point) == pc = point
Goto(point) == pc' = point /\ UNCHANGED reason
Fail(why) == pc' = "undo" /\ reason' = why
-----------------------------------------------------------------------------
(* execute_plan and the gateway before the tool.                           *)

\* Mutant: a file without text is taken for no file.
TakeNonEmpty ==
    /\ At("start") /\ Goto("gate")
    /\ snapshot' = IF file = <<>> THEN Absent ELSE TextOf(file)
    /\ UNCHANGED <<file, request, edit, base, faults>>

\* _capture_mutation_snapshot
TakeSnapshot ==
    /\ At("start") /\ Goto("gate")
    /\ snapshot' = TextOf(file)
    /\ UNCHANGED <<file, request, edit, base, faults>>

\* validate_token and PolicyEngine
Gate ==
    /\ At("gate")
    /\ \/ Fail("refused")
       \/ Goto(CASE request.tool = "PATCH_EDIT" -> "read"
                 [] request.tool = "PATCH_APPLY" -> "apply"
                 [] OTHER -> "create")
    /\ UNCHANGED <<file, request, snapshot, edit, base, faults>>
-----------------------------------------------------------------------------
(* patch_edit                                                              *)

\* The hash is taken of the text that was read, not of the file.
GuardFits == request.guard \in {Absent, TextOf(file)}

Read ==
    /\ At("read")
    /\ IF file # Absent /\ GuardFits
       THEN Goto("edit") /\ content' = Decode(file) /\ UNCHANGED <<applied, scan>>
       ELSE Fail("tool") /\ UNCHANGED edit
    /\ UNCHANGED <<file, request, snapshot, base, faults>>

ThisEdit == request.edits[applied + 1]

\* Mutant: an edit that changes nothing is not counted.
NextEditStays ==
    /\ At("edit")
    /\ IF applied = Len(request.edits)
       THEN Goto("write") /\ UNCHANGED edit
       ELSE /\ Goto(IF ThisEdit.old = ThisEdit.new THEN "edit" ELSE "scan")
            /\ positions' = <<>> /\ start' = 1 /\ UNCHANGED <<content, applied>>
    /\ UNCHANGED <<file, request, snapshot, base, faults>>

NextEdit ==
    /\ At("edit")
    /\ \/ /\ applied = Len(request.edits)
          /\ Goto("write") /\ UNCHANGED edit
       \/ /\ applied < Len(request.edits)
          /\ ThisEdit.old = ThisEdit.new
          /\ Goto("edit") /\ applied' = applied + 1 /\ UNCHANGED <<content, scan>>
       \/ /\ applied < Len(request.edits)
          /\ ThisEdit.old # ThisEdit.new
          /\ IF ThisEdit.old = <<>>
             THEN Fail("tool") /\ UNCHANGED scan
             ELSE Goto("scan") /\ positions' = <<>> /\ start' = 1
          /\ UNCHANGED <<content, applied>>
    /\ UNCHANGED <<file, request, snapshot, base, faults>>

\* content.find(old_text, start)
FoundAt(i) ==
    /\ i >= start /\ OccursAt(content, ThisEdit.old, i)
    /\ \A j \in start .. (i - 1) : ~OccursAt(content, ThisEdit.old, j)

\* Mutants: one character after the match began; one after the match.
ResumeInside(i) == i + 1
ResumeBehind(i) == i + Len(ThisEdit.old) + 1

\* Where to look on after a match at i.
Resume(i) == i + Len(ThisEdit.old)

Find ==
    /\ At("scan")
    /\ \/ \E i \in 1 .. Len(content) :
             /\ FoundAt(i)
             /\ Goto("scan")
             /\ positions' = Append(positions, i) /\ start' = Resume(i)
       \/ /\ \A i \in 1 .. Len(content) : ~FoundAt(i)
          /\ Goto("choose") /\ UNCHANGED scan
    /\ UNCHANGED <<file, request, snapshot, content, applied, base, faults>>

\* Mutant: without an occurrence the first match is meant.
ChosenOrFirst == IF ThisEdit.occurrence # Absent THEN ThisEdit.occurrence ELSE 1

\* Which of the matches the edit is about; none of them is number 0.
Chosen ==
    IF ThisEdit.occurrence # Absent THEN ThisEdit.occurrence
    ELSE IF Len(positions) = 1 THEN 1 ELSE 0

\* Mutant: every edit is written when it is made.
ChooseAndWrite ==
    /\ At("choose")
    /\ IF Chosen \in DOMAIN positions
       THEN /\ Goto("edit") /\ applied' = applied + 1
            /\ content' = Spliced(content, positions[Chosen], Len(ThisEdit.old), ThisEdit.new)
            /\ file' = Encode(content')
       ELSE Fail("tool") /\ UNCHANGED <<file, content, applied>>
    /\ UNCHANGED <<request, snapshot, scan, base, faults>>

Choose ==
    /\ At("choose")
    /\ IF Chosen \in DOMAIN positions
       THEN /\ Goto("edit") /\ applied' = applied + 1
            /\ content' = Spliced(content, positions[Chosen], Len(ThisEdit.old), ThisEdit.new)
       ELSE Fail("tool") /\ UNCHANGED <<content, applied>>
    /\ UNCHANGED <<file, request, snapshot, scan, base, faults>>

Write ==
    /\ At("write") /\ Goto("done")
    /\ file' = Encode(content)
    /\ UNCHANGED <<request, snapshot, edit, base, faults>>
-----------------------------------------------------------------------------
(* apply_patch: a text without a difference is not written; what it raises *)
(* becomes a result that does not count as a success.                      *)

ApplyPatch ==
    /\ At("apply")
    /\ IF file = Absent THEN Fail("tool") ELSE Goto("done")
    /\ file' = IF TextOf(file) \in {Absent, request.text} THEN file ELSE Encode(request.text)
    /\ UNCHANGED <<request, snapshot, edit, base, faults>>

(* create_file *)
CreateFile ==
    /\ At("create")
    /\ IF file = Absent
       THEN Goto("done") /\ file' = Encode(request.text)
       ELSE Fail("tool") /\ UNCHANGED file
    /\ UNCHANGED <<request, snapshot, edit, base, faults>>

\* A write raises: before the file is opened, or when part of the text is in
\* it (opening has truncated the file).
WriteFails ==
    LET text == IF At("write") THEN content ELSE request.text IN
    /\ pc \in {"write", "apply", "create"}
    /\ At("apply") => file \notin {Absent} /\ TextOf(file) # request.text
    /\ At("create") => file = Absent
    /\ faults < MaxFaults /\ faults' = faults + 1
    /\ Fail("write")
    /\ file' \in {file} \cup {SubSeq(Encode(text), 1, n) : n \in 0 .. Len(Encode(text))}
    /\ UNCHANGED <<request, snapshot, edit, base>>
-----------------------------------------------------------------------------
(* The rest of the plan.                                                   *)

\* No further step, or one that fails.
Return ==
    /\ At("done")
    /\ Goto("end") \/ Fail("later")
    /\ UNCHANGED <<file, request, snapshot, edit, base, faults>>

\* _rollback_mutations
Undo ==
    /\ At("undo") /\ Goto("end")
    /\ file' = IF snapshot = Absent THEN Absent ELSE Encode(snapshot)
    /\ UNCHANGED <<request, snapshot, edit, base, faults>>
-----------------------------------------------------------------------------
Step ==
    \/ TakeSnapshot \/ Gate
    \/ Read \/ NextEdit \/ Find \/ Choose \/ Write
    \/ ApplyPatch \/ CreateFile
    \/ Return \/ Undo

Next == Step \/ WriteFails

Spec == Init /\ [][Next]_vars

\* The executor goes on with a step that it has begun.
FairSpec == Spec /\ WF_vars(Step)
-----------------------------------------------------------------------------
\* The search finds the matches from left to right: each begins after the one
\* before has ended, and no occurrence that it has passed is left out unless a
\* match overlaps it (_apply_single_edit).
ScanIsGreedy ==
    pc \in {"scan", "choose"} =>
        LET old == ThisEdit.old
            passed == IF At("choose") THEN Len(content) + 1 ELSE start
        IN /\ \A n \in DOMAIN positions :
                 /\ OccursAt(content, old, positions[n])
                 /\ positions[n] + Len(old) <= start
           /\ \A n, m \in DOMAIN positions : n < m => positions[n] + Len(old) <= positions[m]
           /\ \A i \in 1 .. Len(content) : i < passed /\ OccursAt(content, old, i) =>
                 \E n \in DOMAIN positions : positions[n] <= i /\ i < positions[n] + Len(old)

\* The text that the step is meant to leave; Absent if it has to fail.
Wanted ==
    CASE request.tool = "PATCH_EDIT" ->
             IF base # Absent /\ request.guard \in {Absent, Decode(base)}
             THEN Edited(Decode(base), request.edits) ELSE Absent
      [] request.tool = "PATCH_APPLY" -> IF base # Absent THEN request.text ELSE Absent
      [] OTHER -> IF base = Absent THEN request.text ELSE Absent

\* A tool succeeds exactly when the step can be done, and then the file has
\* the text that all edits, in their order, are meant to leave.  An edit whose
\* two texts are the same can always be done (EditsAreDocumented is about it).
EffectIsWanted ==
    /\ At("done") => Wanted # Absent /\ TextOf(file) = Decode(Wanted)
    /\ reason = "tool" => Wanted = Absent

\* A PATCH_EDIT that succeeds is one that the documents allow: each of its
\* edits has the one match that it is about.
EditsAreDocumented ==
    At("done") /\ request.tool = "PATCH_EDIT" => Documented(Decode(base), request.edits) # Absent

\* A step that is still at work, or that was denied, has written nothing:
\* there is no moment at which some of its edits are in the file.
DeniedWritesNothing ==
    pc \in BeforeWrite \/ (At("undo") /\ reason \in {"refused", "tool"}) => file = base

\* After a failure the file has the text that it had before the step.
FailureRestoresText == At("end") /\ reason # "none" => TextOf(file) = TextOf(base)

\* After a failure the file is what it was before the step.
FailureRestoresFile == At("end") /\ reason # "none" => file = base

\* A step comes to its end, whatever its edits look for and whatever fails.
StepEnds == <>At("end")
=============================================================================
