------------------------------ MODULE FormFields ------------------------------
(***************************************************************************)
(* The fields of one Quick Entry form as an administrator edits them: the  *)
(* three field components, their lists, the screenshot zones of a section  *)
(* and the check of a cross-reference.  What would be indexed is           *)
(* AssembleChunks of the form at any moment (the preview drawer).          *)
(*                                                                         *)
(* A cause carries an identity of its own, which the code does not keep:   *)
(* it tells what a screenshot was uploaded for.                            *)
(***************************************************************************)
EXTENDS FormContent

CONSTANTS
    Edits,          \* content type -> the sets of things edited together (a bound)
    Fields,         \* the fields that are typed in (a bound)
    FormTexts, FormPriorities, FormStepTypes, Codes, References,  \* what is typed
    MaxCauses,      \* MAX_CAUSES
    MaxIdentities,  \* a bound on the causes ever added
    MaxSteps, MaxRows, MaxGroups, MaxParameters, \* bounds on what is added
    SectionLimit,   \* SCREENSHOT_MAX_*, one for all sections
    MaxUploads      \* a bound on the screenshots sent

ASSUME FieldsAssumption ==
    /\ \A b \in {MaxCauses, MaxIdentities, MaxSteps, MaxRows, MaxGroups, MaxParameters,
                SectionLimit, MaxUploads} : b \in Nat
    /\ FormTexts \subseteq Texts
    /\ FormStepTypes \subseteq StepTypes
    /\ FormPriorities \subseteq ToSet(Priorities)

VARIABLES
    contentType, form,
    edited,         \* what is edited, one of the bound's choices
    readOnly,       \* the entry is archived
    saved,          \* the entry has an id
    screenshots,    \* the screenshots the server keeps for the entry
    shown,          \* those of the entry's last fetch
    zones,          \* per section, the upload under way
    checks,         \* per error row, the cross-reference check
    sent,           \* the uploads on their way to the server
    uploads         \* how many there were

formVars == <<contentType, form, edited, readOnly, saved>>
shotVars == <<screenshots, shown, zones, sent, uploads>>
vars == <<formVars, shotVars, checks>>

Cause == [id : Nat, priority : ToSet(Priorities), text : Texts,
          acknowledged : BOOLEAN, admin : BOOLEAN, obsolete : BOOLEAN]

Step == [type : StepTypes, text : Texts, acknowledged : BOOLEAN, number : {0}]

Row == [code : Codes \cup {"", "NONE"}, reference : References \cup {""}, validated : BOOLEAN]

\* The fields each form shows beside its lists.
ErrorGuideFields == {"issue_description", "error_code", "error_message", "description",
    "when_this_occurs", "success_indicator", "escalation_criteria", "admin_steps", "notes"}

ProcedureFields == {"procedure_name", "purpose", "when_to_use", "data_required",
    "system_conditions", "access_required", "verification", "plant_notes", "notes"}

ConfigFields == {"configuration_name", "table_name", "what_this_controls", "access_view",
    "access_change", "change_frequency", "how_to_navigate", "notes"}

FieldsOf(type) == CASE type = "error_guide" -> ErrorGuideFields
                    [] type = "procedure"   -> ProcedureFields
                    [] type = "config"      -> ConfigFields

\* Those with a box that says the field does not apply.
NoneFields == {"error_code", "error_message", "admin_steps", "data_required",
               "system_conditions", "plant_notes"}

NewCause(id) == [id |-> id, priority |-> "common", text |-> "", acknowledged |-> FALSE,
                 admin |-> FALSE, obsolete |-> FALSE]

NewStep == [type |-> "normal", text |-> "", acknowledged |-> FALSE, number |-> 0]

NewRow == [code |-> "", reference |-> "", validated |-> FALSE]

NewGroup == 1       \* a group is its number of parameters

EmptyForm == [fields |-> [f \in Fields |-> ""], causes |-> <<>>, steps |-> <<>>, rows |-> <<>>,
              groups |-> <<>>, mode |-> "structured", nextId |-> 1]

SectionsOf(f) ==
    CASE contentType = "error_guide" ->
             {<<"error_overview">>} \cup {<<"cause", i>> : i \in DOMAIN f.causes}
      [] contentType = "procedure" ->
             {<<"proc_overview">>} \cup
             {<<"proc_steps", b>> : b \in DOMAIN BatchSteps(Numbered(f.steps))}
      [] contentType = "config" -> {<<"cfg_overview">>, <<"cfg_values">>}

Sections == SectionsOf(form)

AllSections ==
    {<<"error_overview">>, <<"proc_overview">>, <<"cfg_overview">>, <<"cfg_values">>}
    \cup {<<"cause", i>> : i \in 1..MaxCauses} \cup {<<"proc_steps", b>> : b \in 1..MaxSteps}

IdleZone == [phase |-> "idle", upload |-> 0, preview |-> FALSE, error |-> FALSE]

Unchecked == [debounced |-> "", known |-> "", exists |-> FALSE]

Init ==
    /\ contentType \in ContentTypes
    /\ edited \in Edits[contentType]
    /\ form = EmptyForm
    /\ readOnly \in BOOLEAN
    /\ saved = readOnly
    /\ screenshots = {} /\ shown = {}
    /\ zones = [s \in AllSections |-> IdleZone]
    /\ checks = [i \in 1..MaxRows |-> Unchecked]
    /\ sent = {} /\ uploads = 0

\* What is edited, where the form may be edited at all.
Editing(what) == ~readOnly /\ what \in edited

\* A section that is no longer there loses its zone, and the zone its state.
ReplaceForm(f) ==
    /\ form' = f
    /\ zones' = [s \in AllSections |-> IF s \in SectionsOf(f) THEN zones[s] ELSE IdleZone]
    /\ UNCHANGED <<contentType, edited, readOnly, saved, screenshots, shown, sent, uploads>>

SetForm(f) == ReplaceForm(f) /\ UNCHANGED checks

-----------------------------------------------------------------------------
(* Single fields, some with a "none" box.                                  *)

UpdateField(name, text) ==
    /\ Editing("fields") /\ name \in FieldsOf(contentType)
    /\ form.fields[name] # "NONE"
    /\ SetForm([form EXCEPT !.fields[name] = text])

ToggleNone(name) ==
    /\ Editing("fields") /\ name \in FieldsOf(contentType) \cap NoneFields
    /\ SetForm([form EXCEPT !.fields[name] = IF form.fields[name] = "NONE" THEN ""
                                                 ELSE "NONE"])

-----------------------------------------------------------------------------
(* Causes of an error guide.                                               *)

UpdateCause(i, c) == SetForm([form EXCEPT !.causes[i] = c])

SetPriority(i, p) ==
    Editing("causes") /\ UpdateCause(i, [form.causes[i] EXCEPT !.priority = p])

\* A new text withdraws the acknowledgement.
EditResolution(i, text) ==
    /\ Editing("texts")
    /\ UpdateCause(i, [form.causes[i] EXCEPT !.text = text, !.acknowledged = FALSE])

AcknowledgeCause(i) ==
    /\ Editing("texts")
    /\ LacksSpecificity(form.causes[i].text, form.causes[i].acknowledged)
    /\ UpdateCause(i, [form.causes[i] EXCEPT !.acknowledged = TRUE])

ToggleAdmin(i) == Editing("flags") /\ UpdateCause(i, [form.causes[i] EXCEPT !.admin = ~@])

ToggleObsolete(i) == Editing("causes") /\ UpdateCause(i, [form.causes[i] EXCEPT !.obsolete = ~@])

NewIdentity == form.nextId <= MaxIdentities

\* A mutant: the limit is off by one.
Mut_AddCause ==
    /\ Editing("causes") /\ NewIdentity
    /\ contentType = "error_guide"
    /\ Len(form.causes) <= MaxCauses
    /\ SetForm([form EXCEPT !.causes = Append(@, NewCause(form.nextId)), !.nextId = @ + 1])

AddCause ==
    /\ Editing("causes") /\ NewIdentity
    /\ contentType = "error_guide"
    /\ Len(form.causes) < MaxCauses
    /\ SetForm([form EXCEPT !.causes = Append(@, NewCause(form.nextId)), !.nextId = @ + 1])

RemoveCause(i) ==
    /\ Editing("causes")
    /\ Len(form.causes) > 1
    /\ SetForm([form EXCEPT !.causes = RemoveAt(@, i)])

EditCauses ==
    \/ AddCause
    \/ \E i \in DOMAIN form.causes :
          \/ \E p \in FormPriorities : SetPriority(i, p)
          \/ \E t \in FormTexts : EditResolution(i, t)
          \/ AcknowledgeCause(i)
          \/ ToggleAdmin(i)
          \/ ToggleObsolete(i)
          \/ RemoveCause(i)

-----------------------------------------------------------------------------
(* Steps of a procedure.                                                   *)

UpdateStep(i, s) == Editing("steps") /\ SetForm([form EXCEPT !.steps[i] = s])

SetStepType(i, type) == UpdateStep(i, [form.steps[i] EXCEPT !.type = type])

EditAction(i, text) ==
    UpdateStep(i, [form.steps[i] EXCEPT !.text = text, !.acknowledged = FALSE])

AcknowledgeStep(i) ==
    /\ LacksSpecificity(form.steps[i].text, form.steps[i].acknowledged)
    /\ UpdateStep(i, [form.steps[i] EXCEPT !.acknowledged = TRUE])

AddStep ==
    /\ Editing("steps")
    /\ contentType = "procedure"
    /\ Len(form.steps) < MaxSteps
    /\ SetForm([form EXCEPT !.steps = Append(@, NewStep)])

RemoveStep(i) ==
    /\ Editing("steps")
    /\ Len(form.steps) > 1
    /\ SetForm([form EXCEPT !.steps = RemoveAt(@, i)])

EditSteps ==
    \/ AddStep
    \/ \E i \in DOMAIN form.steps :
          \/ \E type \in FormStepTypes : SetStepType(i, type)
          \/ \E t \in FormTexts : EditAction(i, t)
          \/ AcknowledgeStep(i)
          \/ RemoveStep(i)

-----------------------------------------------------------------------------
(* The error rows of a procedure or a configuration.                       *)

NoErrors == Len(form.rows) = 1 /\ form.rows[1].code = "NONE"

RowsEdited == Editing("rows") /\ contentType # "error_guide"

EditCode(i, code) == RowsEdited /\ ~NoErrors /\ SetForm([form EXCEPT !.rows[i].code = code])

\* A new reference withdraws the confirmation.
EditReference(i, r) ==
    /\ RowsEdited /\ ~NoErrors
    /\ SetForm([form EXCEPT !.rows[i].reference = r, !.rows[i].validated = FALSE])

\* The button is there while the last check held says the reference exists.
CheckDone(i) == checks[i].debounced # "" /\ checks[i].known = checks[i].debounced

ConfirmReference(i) ==
    /\ RowsEdited /\ ~NoErrors
    /\ form.rows[i].reference # "" /\ ~form.rows[i].validated
    /\ CheckDone(i) /\ checks[i].exists
    /\ SetForm([form EXCEPT !.rows[i].validated = TRUE])

AddRow ==
    /\ RowsEdited /\ ~NoErrors
    /\ Len(form.rows) < MaxRows
    /\ SetForm([form EXCEPT !.rows = Append(RealErrors(@), NewRow)])

\* The card after the removed one takes over its place and its check.
RemoveRow(i) ==
    /\ RowsEdited /\ ~NoErrors
    /\ Len(form.rows) > 1
    /\ ReplaceForm([form EXCEPT !.rows = RemoveAt(@, i)])
    /\ checks' = [checks EXCEPT ![Len(form.rows)] = Unchecked]

\* The cards are not there while the box is checked.
ToggleNoErrors ==
    /\ RowsEdited
    /\ ReplaceForm([form EXCEPT !.rows = IF NoErrors THEN <<NewRow>>
                                         ELSE <<[NewRow EXCEPT !.code = "NONE"]>>])
    /\ checks' = [i \in 1..MaxRows |-> Unchecked]

EditRows ==
    \/ AddRow
    \/ ToggleNoErrors
    \/ \E i \in DOMAIN form.rows :
          \/ \E code \in Codes : EditCode(i, code)
          \/ \E r \in References : EditReference(i, r)
          \/ ConfirmReference(i)
          \/ RemoveRow(i)

\* The typed reference is looked up once it has rested for 400 ms.
Debounce(i) ==
    /\ i \in DOMAIN form.rows /\ ~NoErrors
    /\ checks[i].debounced # form.rows[i].reference
    /\ checks' = [checks EXCEPT ![i].debounced = form.rows[i].reference]
    /\ UNCHANGED <<formVars, shotVars>>

\* The answer, a refusal or a network failure counting as "not found".
Checked(i) ==
    /\ checks[i].debounced # "" /\ checks[i].known # checks[i].debounced
    /\ \E exists \in BOOLEAN :
          checks' = [checks EXCEPT ![i].known = checks[i].debounced, ![i].exists = exists]
    /\ UNCHANGED <<formVars, shotVars>>

-----------------------------------------------------------------------------
(* The values of a configuration.                                          *)

SetMode(m) == Editing("groups") /\ SetForm([form EXCEPT !.mode = m])

GroupsEdited == Editing("groups") /\ form.mode = "structured" /\ contentType = "config"

AddGroup ==
    GroupsEdited /\ Len(form.groups) < MaxGroups
    /\ SetForm([form EXCEPT !.groups = Append(@, NewGroup)])

RemoveGroup(g) == GroupsEdited /\ SetForm([form EXCEPT !.groups = RemoveAt(@, g)])

AddParameter(g) ==
    GroupsEdited /\ form.groups[g] < MaxParameters
    /\ SetForm([form EXCEPT !.groups[g] = form.groups[g] + 1])

RemoveParameter(g) ==
    GroupsEdited /\ form.groups[g] > 1 /\ SetForm([form EXCEPT !.groups[g] = form.groups[g] - 1])

EditValues ==
    \/ \E m \in {"structured", "free_text"} : SetMode(m)
    \/ AddGroup
    \/ \E g \in DOMAIN form.groups : RemoveGroup(g) \/ AddParameter(g) \/ RemoveParameter(g)

-----------------------------------------------------------------------------
(* Screenshots.                                                            *)

Of(set, section) == {s \in set : s.section = section}

CanUpload(section) ==
    Cardinality(Of(shown, section)) < SectionLimit /\ ~readOnly /\ saved

SetZone(section, z) == zones' = [zones EXCEPT ![section] = z]

HandleFileSelect(section) ==
    /\ Editing("screenshots")
    /\ CanUpload(section)
    /\ zones[section].phase = "idle"
    /\ \E ok \in BOOLEAN :          \* its type and its size are accepted
          SetZone(section, [zones[section] EXCEPT !.phase = IF ok THEN "pending" ELSE "idle",
                                                  !.error = ~ok])
    /\ UNCHANGED <<formVars, screenshots, shown, sent, uploads, checks>>

\* What the section is for at this moment: a cause, or nothing in particular.
Owner(section) == IF section[1] = "cause" THEN form.causes[section[2]].id ELSE 0

\* The form of the chosen file is hidden while a preview stands.
HandleUpload(section) ==
    /\ zones[section].phase = "pending" /\ ~zones[section].preview
    /\ uploads < MaxUploads
    /\ uploads' = uploads + 1
    /\ sent' = sent \cup {[id |-> uploads', section |-> section, owner |-> Owner(section)]}
    /\ SetZone(section, [phase |-> "uploading", upload |-> uploads', preview |-> FALSE, error |-> FALSE])
    /\ UNCHANGED <<formVars, screenshots, shown, checks>>

\* The answer reaches the zone that sent it, if it is still there.
Answered(u, z) ==
    zones' = IF zones[u.section].upload = u.id THEN [zones EXCEPT ![u.section] = z] ELSE zones

\* The server counts the screenshots of the section it is told.
UploadAccepted(u) ==
    /\ Cardinality(Of(screenshots, u.section)) < SectionLimit
    /\ screenshots' = screenshots \cup
          {[id |-> u.id, section |-> u.section, owner |-> u.owner, vision |-> "complete"]}
    /\ shown' \in {screenshots', shown}     \* the refetch may fail
    /\ sent' = sent \ {u}
    /\ Answered(u, [IdleZone EXCEPT !.preview = TRUE])
    /\ UNCHANGED <<formVars, uploads, checks>>

UploadRefused(u) ==
    /\ sent' = sent \ {u}
    /\ Answered(u, [IdleZone EXCEPT !.phase = "pending", !.error = TRUE])
    /\ UNCHANGED <<formVars, screenshots, shown, uploads, checks>>

HandleCancelPending(section) ==
    /\ zones[section].phase = "pending"
    /\ SetZone(section, IdleZone)
    /\ UNCHANGED <<formVars, screenshots, shown, sent, uploads, checks>>

DismissPreview(section) ==
    /\ zones[section].preview
    /\ SetZone(section, [zones[section] EXCEPT !.preview = FALSE])
    /\ UNCHANGED <<formVars, screenshots, shown, sent, uploads, checks>>

\* The entry is fetched again after a delete or a retry.
DeleteScreenshot(s) ==
    /\ Editing("screenshots")
    /\ s \in shown
    /\ screenshots' = screenshots \ {s}
    /\ shown' = screenshots'
    /\ UNCHANGED <<formVars, zones, sent, uploads, checks>>

RetryVision(s) ==
    /\ Editing("vision")
    /\ s \in shown /\ s.vision = "failed"
    /\ screenshots' = (screenshots \ {s}) \cup {[s EXCEPT !.vision = "processing"]}
    /\ shown' = screenshots'
    /\ UNCHANGED <<formVars, zones, sent, uploads, checks>>

VisionEnds(s) ==
    /\ s \in screenshots /\ s.vision \in {"complete", "processing"}
    /\ "vision" \in edited
    /\ \E v \in {"complete", "failed"} :
          screenshots' = (screenshots \ {s}) \cup {[s EXCEPT !.vision = v]}
    /\ UNCHANGED <<formVars, shown, zones, sent, uploads, checks>>

Screenshots ==
    \/ \E section \in Sections :
          \/ HandleFileSelect(section) \/ HandleUpload(section) \/ HandleCancelPending(section)
          \/ DismissPreview(section)
    \/ \E u \in sent : UploadAccepted(u) \/ UploadRefused(u)
    \/ \E s \in screenshots \cup shown : DeleteScreenshot(s) \/ RetryVision(s) \/ VisionEnds(s)

\* The first automatic save gives the entry its id.
Save ==
    /\ ~saved
    /\ saved' = TRUE
    /\ UNCHANGED <<contentType, form, edited, readOnly, shotVars, checks>>

EditFields == \E f \in Fields : ToggleNone(f) \/ \E t \in FormTexts : UpdateField(f, t)

Next ==
    \/ EditFields \/ EditCauses \/ EditSteps \/ EditRows \/ EditValues \/ Screenshots \/ Save
    \/ \E i \in 1..MaxRows : Debounce(i) \/ Checked(i)

Spec == Init /\ [][Next]_vars
-----------------------------------------------------------------------------
(* Properties.                                                             *)

\* Every part of the form has its shape; the identities of the causes differ.
FieldsTypeOK ==
    /\ contentType \in ContentTypes /\ readOnly \in BOOLEAN /\ saved \in BOOLEAN
    /\ form.fields \in [Fields -> Texts \cup {"NONE"}]
    /\ form.causes \in Seq(Cause) /\ Len(form.causes) <= MaxCauses
    /\ Cardinality({form.causes[i].id : i \in DOMAIN form.causes}) = Len(form.causes)
    /\ form.steps \in Seq(Step) /\ form.rows \in Seq(Row) /\ form.groups \in Seq(Nat \ {0})
    /\ shown \subseteq [id : Nat, section : AllSections, owner : Nat,
                        vision : {"complete", "processing", "failed"}]
    /\ \A s \in AllSections : zones[s].phase \in {"idle", "pending", "uploading"}

Chunks == AssembleChunks(contentType, form)

Batches == BatchSteps(Numbered(form.steps))

Starts(k) == Cardinality({i \in 1..k : form.steps[i].type = "branch_start"})
Ends(k) == Cardinality({i \in 1..k : form.steps[i].type = "branch_end"})

Balanced == /\ \A k \in DOMAIN form.steps : Starts(k) >= Ends(k)
            /\ Starts(Len(form.steps)) = Ends(Len(form.steps))

\* No branch is opened inside another.
Unnested == \A k \in DOMAIN form.steps : Starts(k) <= Ends(k) + 1

\* The form flags a procedure exactly when its branch starts and ends do not
\* pair up, as a count of both at every step tells.
FlaggedIffUnpaired ==
    (ValidateBranchPairing(form.steps) = {}) <=> Balanced

\* A branch is one chunk, with nothing else in it, unless it is too long: then
\* its parts are.
BranchKeptWhole ==
    Balanced /\ Unnested =>
        \A i, j \in DOMAIN form.steps :
            LET branch == SubSeq(Numbered(form.steps), i, j)
            IN  /\ i < j
                /\ form.steps[i].type = "branch_start" /\ form.steps[j].type = "branch_end"
                /\ Starts(j) = Starts(i)
                => (branch \in ToSet(Batches) <=> BranchLength(branch) <= BranchLimit)

\* Every step is in some batch, and the steps follow each other as in the form, so
\* that none is there twice; a note of a split has the number 0.
StepsIndexed ==
    /\ \A n \in DOMAIN form.steps :
          \E b \in DOMAIN Batches : Numbered(form.steps)[n] \in ToSet(Batches[b])
    /\ \A b, c \in DOMAIN Batches : \A i \in DOMAIN Batches[b], j \in DOMAIN Batches[c] :
          b < c \/ (b = c /\ i < j) =>
              0 \in {Batches[b][i].number, Batches[c][j].number}
                  \/ Batches[b][i].number < Batches[c][j].number

\* Every cause that is not obsolete has one chunk, an obsolete one none, by priority.
CausesIndexed ==
    LET own == {k \in DOMAIN Chunks : Chunks[k].section[1] = "cause"}
        PriorityOf(k) == CHOOSE p \in DOMAIN Priorities :
            \E i \in DOMAIN form.causes : /\ form.causes[i].id = Chunks[k].holds[1]
                                          /\ form.causes[i].priority = Priorities[p]
    IN  /\ \A i \in DOMAIN form.causes :
              Cardinality({k \in own : form.causes[i].id \in ToSet(Chunks[k].holds)})
                  = IF form.causes[i].obsolete THEN 0 ELSE 1
        /\ \A j, k \in own : j < k => PriorityOf(j) <= PriorityOf(k)

\* What the form holds is in the preview once and in order: the steps of a procedure,
\* split or not, when no branch is nested, and the causes of an error guide
\* (chunkAssembler.ts).
PartsIndexedOnce ==
    /\ Balanced /\ Unnested => StepsIndexed
    /\ contentType = "error_guide" => CausesIndexed
=============================================================================
