----------------------------- MODULE FormContent -----------------------------
(***************************************************************************)
(* The content of a Quick Entry form and the chunks assembled from it: the *)
(* client's port of the form chunker (frontend lib/chunkAssembler.ts), the *)
(* branch check and the specificity hint.  Text is kept only as far as the *)
(* assembly tells it apart: empty, vague, exact, or the literal NONE.      *)
(***************************************************************************)
EXTENDS Naturals, FiniteSets, SequencesExt, Filters

CONSTANTS
    StepsPerBatch,      \* CHUNK_STEPS_PER_BATCH
    BranchLimit         \* CHUNK_BRANCH_MAX_TOKENS, in units of text

ASSUME ContentAssumption == /\ StepsPerBatch \in Nat \ {0}
                            /\ BranchLimit \in Nat

ContentTypes == {"error_guide", "procedure", "config"}

Texts == {"", "vague", "exact"}

Priorities == <<"check_first", "common", "less_common", "rare">>

StepTypes == {"normal", "branch_start", "branch_option_a", "branch_option_b",
              "branch_end", "admin_required"}

\* A text that names no code, screen or field and is short draws a warning
\* until it is acknowledged; an empty one draws none.
LacksSpecificity(text, acknowledged) == ~acknowledged /\ text = "vague"

-----------------------------------------------------------------------------
(* Error guides: one overview, one chunk per cause that is not obsolete.   *)

ActiveCauses(causes) == Keep(causes, {c \in ToSet(causes) : ~c.obsolete})

\* A stable sort on the priority.
ByPriority(causes) ==
    LET Of(p) == Keep(causes, {c \in ToSet(causes) : c.priority = Priorities[p]})
    IN  Of(1) \o Of(2) \o Of(3) \o Of(4)

\* The optional lines of the overview: those whose field is not NONE.
Stated(fields, names) == {n \in names \cap DOMAIN fields : fields[n] # "NONE"}

ErrorGuideOverview(f) ==
    [section |-> <<"error_overview">>,
     holds   |-> [i \in 1..Len(ActiveCauses(f.causes)) |->
                     ByPriority(ActiveCauses(f.causes))[i].id],
     parts   |-> Stated(f.fields, {"error_code", "error_message", "admin_steps"})]

AssembleErrorGuide(f) ==
    LET sorted == ByPriority(ActiveCauses(f.causes))
    IN  <<ErrorGuideOverview(f)>> \o
        [i \in 1..Len(sorted) |->
            [section |-> <<"cause", i>>,
             holds   |-> <<sorted[i].id>>,
             parts   |-> IF sorted[i].admin THEN {"admin_note"} ELSE {}]]

-----------------------------------------------------------------------------
(* Procedures: one overview, then the steps in batches.                    *)

\* Step numbers are positions, never stored.
Numbered(steps) == [i \in 1..Len(steps) |-> [steps[i] EXCEPT !.number = i]]

Note == [type |-> "normal", text |-> "exact", acknowledged |-> TRUE, number |-> 0]

\* A vague text is one unit long, an exact one two.
TotalLength(steps) ==
    Cardinality({i \in 1..Len(steps) : steps[i].text = "vague"})
    + 2 * Cardinality({i \in 1..Len(steps) : steps[i].text = "exact"})

\* The actions are joined with line breaks before they are measured.
BranchLength(branch) == TotalLength(branch) + Len(branch) - 1

\* The half is the split of a branch whose actions alone stay under the limit.
SplitAt(branch) ==
    LET over == {i \in 1..Len(branch) : TotalLength(SubSeq(branch, 1, i)) > BranchLimit}
    IN  IF over = {} THEN Len(branch) \div 2
        ELSE LET i == CHOOSE i \in over : \A j \in over : i <= j
             IN  IF i - 2 > 1 THEN i - 2 ELSE 1

SplitBranchGroup(branch) ==
    <<Append(SubSeq(branch, 1, SplitAt(branch)), Note),
      <<Note>> \o SubSeq(branch, SplitAt(branch) + 1, Len(branch))>>

NonEmpty(batch) == IF batch = <<>> THEN <<>> ELSE <<batch>>

NoBatches == [batches |-> <<>>, current |-> <<>>, inBranch |-> FALSE, branch |-> <<>>]

\* A branch_start inside a branch starts the buffer over.
StartBranch(acc, step) ==
    [batches |-> acc.batches \o NonEmpty(acc.current), current |-> <<>>,
     inBranch |-> TRUE, branch |-> <<step>>]

\* A mutant: a branch of exactly the limit is split.
Mut_GrowBranch(acc, step) ==
    LET branch == Append(acc.branch, step)
    IN  IF step.type # "branch_end" THEN [acc EXCEPT !.branch = branch]
        ELSE [acc EXCEPT !.inBranch = FALSE, !.branch = <<>>,
                         !.batches = @ \o (IF BranchLength(branch) >= BranchLimit
                                           THEN SplitBranchGroup(branch) ELSE <<branch>>)]

GrowBranch(acc, step) ==
    LET branch == Append(acc.branch, step)
        groups == IF BranchLength(branch) > BranchLimit THEN SplitBranchGroup(branch)
                                                        ELSE <<branch>>
    IN  IF step.type = "branch_end"
        THEN [acc EXCEPT !.batches = @ \o groups, !.inBranch = FALSE, !.branch = <<>>]
        ELSE [acc EXCEPT !.branch = branch]

GrowBatch(acc, step) ==
    LET batch == Append(acc.current, step)
    IN  IF Len(batch) >= StepsPerBatch
        THEN [acc EXCEPT !.batches = Append(@, batch), !.current = <<>>]
        ELSE [acc EXCEPT !.current = batch]

NextStep(acc, step) ==
    IF step.type = "branch_start" THEN StartBranch(acc, step)
    ELSE IF acc.inBranch THEN GrowBranch(acc, step)
    ELSE GrowBatch(acc, step)

\* A mutant: the last batch is not flushed.
Mut_BatchSteps(steps) ==
    LET acc[i \in 0..Len(steps)] ==
            IF i = 0 THEN NoBatches ELSE NextStep(acc[i - 1], steps[i])
    IN  acc[Len(steps)].batches

BatchSteps(steps) ==
    LET acc[i \in 0..Len(steps)] ==
            IF i = 0 THEN NoBatches ELSE NextStep(acc[i - 1], steps[i])
        end == acc[Len(steps)]
    IN  end.batches \o NonEmpty(end.branch) \o NonEmpty(end.current)

\* The rows of a procedure's or a configuration's error list that are real.
RealErrors(rows) == Keep(rows, {r \in ToSet(rows) : r.code # "NONE"})

ProcedureOverview(f) ==
    [section |-> <<"proc_overview">>,
     holds   |-> <<>>,
     parts   |-> Stated(f.fields, {"data_required", "system_conditions"})
                 \cup {n \in Stated(f.fields, {"plant_notes"}) : f.fields[n] # ""}
                 \cup (IF RealErrors(f.rows) = <<>> THEN {} ELSE {"common_errors"})]

AssembleProcedure(f) ==
    LET batches == BatchSteps(Numbered(f.steps))
    IN  <<ProcedureOverview(f)>> \o
        [b \in 1..Len(batches) |->
            [section |-> <<"proc_steps", b>>,
             holds   |-> [i \in 1..Len(batches[b]) |-> batches[b][i].number],
             parts   |-> {batches[b][i].type : i \in 1..Len(batches[b])} \ {"normal"}]]

-----------------------------------------------------------------------------
(* Configurations: always an overview and the values.                      *)

ConfigValues(f) ==
    IF f.mode = "structured" THEN [i \in 1..Len(f.groups) |-> f.groups[i]] ELSE <<>>

AssembleConfig(f) ==
    <<[section |-> <<"cfg_overview">>,
       holds   |-> <<>>,
       parts   |-> (IF RealErrors(f.rows) = <<>> THEN {} ELSE {"related_errors"})],
      [section |-> <<"cfg_values">>, holds |-> ConfigValues(f), parts |-> {f.mode}]>>

AssembleChunks(contentType, f) ==
    CASE contentType = "error_guide" -> AssembleErrorGuide(f)
      [] contentType = "procedure"   -> AssembleProcedure(f)
      [] contentType = "config"      -> AssembleConfig(f)

-----------------------------------------------------------------------------
(* The count the side panel shows, and the branch check of the form.       *)

EstimateChunkCount(contentType, f) ==
    LET AtLeastOne(n) == IF n > 1 THEN n ELSE 1
    IN  CASE contentType = "config"      -> 2
          [] contentType = "error_guide" -> 1 + AtLeastOne(Len(ActiveCauses(f.causes)))
          [] contentType = "procedure"   ->
                 1 + AtLeastOne((Len(f.steps) + StepsPerBatch - 1) \div StepsPerBatch)

BranchStep(acc, step) ==
    CASE step.type = "branch_start" -> [acc EXCEPT !.stack = Append(@, step.number)]
      [] step.type = "branch_end" /\ acc.stack = <<>> ->
             [acc EXCEPT !.errors = @ \cup {step.number}]
      [] step.type = "branch_end" /\ acc.stack # <<>> -> [acc EXCEPT !.stack = Front(@)]
      [] OTHER -> acc

NoBranches == [stack |-> <<>>, errors |-> {}]

\* A mutant: a branch that is never closed is not flagged.
Mut_ValidateBranchPairing(steps) ==
    LET acc[i \in 0..Len(steps)] ==
            IF i = 0 THEN NoBranches ELSE BranchStep(acc[i - 1], Numbered(steps)[i])
    IN  acc[Len(steps)].errors

\* The numbers of the steps the form flags as unpaired.
ValidateBranchPairing(steps) ==
    LET acc[i \in 0..Len(steps)] ==
            IF i = 0 THEN NoBranches ELSE BranchStep(acc[i - 1], Numbered(steps)[i])
        end == acc[Len(steps)]
    IN  end.errors \cup ToSet(end.stack)

=============================================================================
