---------------------------- MODULE Autotag_proofs ----------------------------
(***************************************************************************)
(* What is proved of the store of the models and of the jobs that run      *)
(* them, for every set of models, any number of jobs and any number of     *)
(* operations in the settings:                                             *)
(*                                                                         *)
(*   - a name that a list offers has an entry, whatever the settings and   *)
(*     the downloads of the jobs write at the same time;                   *)
(*   - a batch that has been cancelled begins no further edit;             *)
(*                                                                         *)
(* and of the modals a tagging is started from, for any number of files,   *)
(* tags, URLs, notes and openings:                                         *)
(*                                                                         *)
(*   - what a modal saves is what it showed.                               *)
(*                                                                         *)
(* None is inductive.  The first needs the models that the operations of   *)
(* the settings are about (Entries), the second the fields of the jobs     *)
(* (Fields), the third that the changes of a modal never contain a change  *)
(* and its opposite (EditInv).  A modal of tags also takes the tags that a *)
(* model has found: that these changes keep EditInv is shown by induction  *)
(* over the tags (AutotaggedKeeps); a batch edits files itself, for which  *)
(* one has to know what it was started with (JobsInv).                     *)
(***************************************************************************)
EXTENDS Autotag, Induction, SequenceTheorems

\* The store: an entry for each model, and operations on some of them.
OfModels(ops) == \A i \in Operations : ops[i].op \notin {"none", "ended"} => ops[i].model \in Model

Entries ==
  /\ models \in [Model -> {"none", "known", "cached", "local"}]
  /\ names \subseteq Model
  /\ settings.ops = [i \in Operations |-> settings.ops[i]]
  /\ OfModels(settings.ops)
  /\ ListedHasModel

\* What the button of the toast and the next file read of a job is there as
\* long as it runs.
HasFields(job) ==
  /\ "step" \in DOMAIN job
  /\ job.step \in Running => {"kind", "cancelled"} \subseteq DOMAIN job

Fields ==
  /\ jobs = [j \in Jobs |-> jobs[j]]
  /\ \A j \in Jobs : HasFields(jobs[j])

\* What CancelStopsEdits asks of a job and the one that takes its place.
StopsEdits(job, next) ==
  job.step \in Running /\ job.kind = "batch" /\ job.cancelled
    => (next.step = "edit" => job.step = "edit")

----------------------------------------------------------------------------
(* The store of the models.                                                *)

LEMMA InitEntries == AutotagInit => Entries
BY ModelAssumption DEF AutotagInit, InitialEntries, NoOperation, Entries, OfModels, ListedHasModel

\* A download writes the entry of a model it was told of.
LEMMA DownloadEntries ==
  ASSUME Entries, NEW m, DownloadTagModel(m), UNCHANGED settings
  PROVE  Entries'
BY DEF Entries, DownloadTagModel, ListedHasModel

\* One operation is replaced by one on a model, or by none.
LEMMA OperationReplaced ==
  ASSUME Entries, NEW i \in Operations, NEW o,
         o.op \notin {"none", "ended"} => o.model \in Model,
         settings'.ops = [settings.ops EXCEPT ![i] = o]
  PROVE  settings'.ops = [k \in Operations |-> settings'.ops[k]] /\ OfModels(settings'.ops)
<1>1. \A k \in Operations : settings'.ops[k] = IF k = i THEN o ELSE settings.ops[k]
  BY DEF Entries
<1>2. settings'.ops = [k \in Operations |-> settings'.ops[k]]
  BY DEF Entries
<1> QED
  BY <1>1, <1>2 DEF Entries, OfModels

LEMMA StartEntries ==
  ASSUME Entries, NEW m \in Model, NEW op, SettingsStart(op, m)
  PROVE  Entries'
<1>1. PICK i \in Operations :
        settings' = [ops |-> [settings.ops EXCEPT ![i] = [op |-> op, model |-> m]],
                     loading |-> IF op = "fromUrl" THEN 0 ELSE i]
  BY DEF SettingsStart
<1>2. settings'.ops = [k \in Operations |-> settings'.ops[k]] /\ OfModels(settings'.ops)
  <2> DEFINE o == [op |-> op, model |-> m]
  <2>1. o.model \in Model /\ settings'.ops = [settings.ops EXCEPT ![i] = o]
    BY <1>1
  <2> HIDE DEF o
  <2> QED
    BY <2>1, OperationReplaced
<1> QED
  BY <1>2 DEF Entries, SettingsStart, ListedHasModel

\* Whatever order the operations end in, each leaves names with entries.
LEMMA WrittenEntries ==
  ASSUME Entries, NEW op, NEW m \in Model, Written(op, m) \/ UNCHANGED <<models, names>>
  PROVE  /\ models' \in [Model -> {"none", "known", "cached", "local"}]
         /\ names' \subseteq Model /\ ListedHasModel'
<1>1. CASE ClearInstalledFiles(m) \/ DownloadTagModel(m)
  BY <1>1 DEF Entries, ListedHasModel, ClearInstalledFiles, DownloadTagModel
<1>2. CASE UninstallTagModel(m)
  BY <1>2 DEF Entries, ListedHasModel, UninstallTagModel
<1>3. CASE ResetTagModels
  BY <1>3, ModelAssumption DEF Entries, ListedHasModel, ResetTagModels, InitialEntries
<1>4. CASE AddTagModel(m, "known") \/ AddTagModel(m, "local")
  BY <1>4 DEF Entries, ListedHasModel, AddTagModel
<1>5. CASE UNCHANGED <<models, names>>
  BY <1>5 DEF Entries, ListedHasModel
<1> QED
  BY <1>1, <1>2, <1>3, <1>4, <1>5 DEF Written

LEMMA SettingsEntries ==
  ASSUME Entries, NEW i \in Operations, SettingsEnd(i)
  PROVE  Entries'
<1>1. settings.ops[i].model \in Model
  BY DEF Entries, OfModels, SettingsEnd
<1>2. /\ models' \in [Model -> {"none", "known", "cached", "local"}]
      /\ names' \subseteq Model /\ ListedHasModel'
  BY <1>1, WrittenEntries DEF SettingsEnd
<1>3. settings'.ops = [k \in Operations |-> settings'.ops[k]] /\ OfModels(settings'.ops)
  <2> DEFINE o == [op |-> "ended"]
  <2>1. o.op = "ended" /\ settings'.ops = [settings.ops EXCEPT ![i] = o]
    BY DEF SettingsEnd
  <2> HIDE DEF o
  <2> QED
    BY <2>1, OperationReplaced
<1> QED
  BY <1>2, <1>3 DEF Entries

LEMMA NextEntries ==
  ASSUME Entries, [AutotagNext]_allVars
  PROVE  Entries'
<1>1. CASE UNCHANGED storeVars
  BY <1>1 DEF Entries, ListedHasModel, storeVars
<1>2. CASE SettingsReopened
  <2>1. settings'.ops = settings.ops /\ UNCHANGED <<models, names>>
    BY <1>2 DEF SettingsReopened, Entries
  <2> QED
    BY <2>1 DEF Entries, ListedHasModel
<1>3. ASSUME NEW j \in Jobs, Downloaded(j) PROVE Entries'
  BY <1>1, <1>3, DownloadEntries DEF Downloaded, storeVars
<1>4. ASSUME NEW j \in Jobs, JobAnswers(j) \/ Cancel(j), ~Downloaded(j) PROVE UNCHANGED storeVars
  BY <1>4 DEF JobAnswers, Cancel, Load, Loaded, Processed, AutotagDone, JobFails, BatchEdited,
              storeVars
<1> QED
  BY <1>1, <1>2, <1>3, <1>4, StartEntries, SettingsEntries
  DEF AutotagNext, StartBatch, StartAutotag, allVars

\* A name that a list of models offers can be looked up: no order of the
\* operations of the settings, however many overlap and fail, and of the
\* downloads of jobs leaves a name without its entry (modelMetaStore.ts:92-167).
THEOREM ListedCanBeLookedUp == AutotagSpec => []ListedHasModel
<1>1. Entries => ListedHasModel
  BY DEF Entries
<1> QED
  BY <1>1, InitEntries, NextEntries, PTL DEF AutotagSpec

----------------------------------------------------------------------------
(* The jobs.                                                               *)

LEMMA InitFields == AutotagInit => Fields
BY DEF AutotagInit, NoJob, Fields, HasFields, Running

\* A step of one job changes no other.
LEMMA OneJob ==
  ASSUME Fields, NEW j \in Jobs, NEW job, Set(j, job), HasFields(job), StopsEdits(jobs[j], job)
  PROVE  Fields' /\ \A k \in Jobs : StopsEdits(jobs[k], jobs'[k])
<1>1. \A k \in Jobs : jobs'[k] = IF k = j THEN job ELSE jobs[k]
  BY DEF Fields, Set
<1>2. jobs' = [k \in Jobs |-> jobs'[k]]
  BY DEF Fields, Set
<1>3. \A k \in Jobs : HasFields(jobs'[k])
  BY <1>1 DEF Fields
<1>4. \A k \in Jobs : StopsEdits(jobs[k], jobs'[k])
  BY <1>1 DEF StopsEdits
<1> QED
  BY <1>2, <1>3, <1>4 DEF Fields, HasFields

\* A job that has ended reads nothing.
LEMMA EndedFields ==
  ASSUME NEW job
  PROVE  /\ HasFields(Ended(job)) /\ Ended(job).step = "done"
         /\ HasFields(LoadFailed(job)) /\ LoadFailed(job).step = "failed"
BY DEF HasFields, Ended, LoadFailed, Running

LEMMA NextFileFields ==
  ASSUME NEW job, {"step", "kind", "cancelled"} \subseteq DOMAIN job
  PROVE  HasFields(NextFile(job)) /\ NextFile(job).step # "edit"
<1>1. CASE job.cancelled \/ job.left = {}
  BY <1>1, EndedFields DEF NextFile
<1>2. CASE ~(job.cancelled \/ job.left = {})
  BY <1>2 DEF NextFile, HasFields
<1> QED
  BY <1>1, <1>2

\* A new job takes the place of none.
LEMMA StartFields ==
  ASSUME Fields, StartBatch \/ StartAutotag
  PROVE  Fields' /\ \A k \in Jobs : StopsEdits(jobs[k], jobs'[k])
<1>1. PICK job : "kind" \in DOMAIN job /\ "step" \notin DOMAIN job /\ "cancelled" \notin DOMAIN job
                 /\ StartJob(job)
  BY DEF StartBatch, StartAutotag
<1>2. PICK j \in Jobs : jobs[j].step = "none" /\ \E m :
         Set(j, With(job, [step |-> "load", model |-> m, toast |-> TRUE, worker |-> FALSE,
                           cancelled |-> FALSE]))
  BY <1>1 DEF StartJob
<1>3. PICK m, next : /\ Set(j, next)
                     /\ next = With(job, [step |-> "load", model |-> m, toast |-> TRUE,
                                         worker |-> FALSE, cancelled |-> FALSE])
  BY <1>2
<1>4. {"step", "kind", "cancelled"} \subseteq DOMAIN next /\ next.step = "load"
  BY <1>1, <1>3 DEF With
<1>5. HasFields(next) /\ StopsEdits(jobs[j], next)
  BY <1>2, <1>4 DEF HasFields, StopsEdits, Running
<1> QED
  BY <1>3, <1>5, OneJob

LEMMA LoadFields ==
  ASSUME Fields, NEW j \in Jobs, Load(j) \/ Downloaded(j) \/ Loaded(j) \/ JobFails(j)
  PROVE  Fields' /\ \A k \in Jobs : StopsEdits(jobs[k], jobs'[k])
<1>1. {"step", "kind", "cancelled"} \subseteq DOMAIN jobs[j]
  BY DEF Fields, HasFields, Running, Load, Downloaded, Loaded, JobFails
<1>2. ASSUME NEW next, {"step", "kind", "cancelled"} \subseteq DOMAIN next
      PROVE  HasFields(next)
  BY <1>2 DEF HasFields
<1>3. PICK next : Set(j, next) /\ HasFields(next) /\ next.step # "edit"
  <2>1. CASE Set(j, LoadFailed(jobs[j])) \/ Set(j, Ended(jobs[j]))
    BY <2>1, EndedFields
  <2>2. ASSUME NEW step, step # "edit", Set(j, [jobs[j] EXCEPT !.step = step])
        PROVE  \E next : Set(j, next) /\ HasFields(next) /\ next.step # "edit"
    <3>1. PICK next : next = [jobs[j] EXCEPT !.step = step]
      OBVIOUS
    <3> QED
      BY <1>1, <1>2, <2>2, <3>1
  <2>3. CASE Set(j, [jobs[j] EXCEPT !.step = "loading", !.worker = TRUE])
    <3>1. PICK loading : loading = [jobs[j] EXCEPT !.step = "loading"]
      OBVIOUS
    <3>2. PICK next : next = [loading EXCEPT !.worker = TRUE]
      OBVIOUS
    <3>3. DOMAIN next = DOMAIN jobs[j] /\ next.step = "loading"
      BY <1>1, <3>1, <3>2
    <3> QED
      BY <1>1, <1>2, <2>3, <3>1, <3>2, <3>3
  <2>4. CASE Set(j, NextFile(jobs[j]))
    BY <1>1, <2>4, NextFileFields
  <2>5. CASE Load(j)
    BY <2>1, <2>2, <2>3, <2>5 DEF Load
  <2> QED
    BY <2>1, <2>2, <2>3, <2>4, <2>5 DEF Downloaded, Loaded, JobFails
<1> QED
  BY <1>3, OneJob DEF StopsEdits

\* The batch looks at the cancellation before it begins an edit.
LEMMA ProcessedFields ==
  ASSUME Fields, NEW j \in Jobs, Processed(j)
  PROVE  Fields' /\ \A k \in Jobs : StopsEdits(jobs[k], jobs'[k])
<1>1. {"step", "kind", "cancelled"} \subseteq DOMAIN jobs[j]
  BY DEF Fields, HasFields, Running, Processed
<1>2. PICK f, rest, toAdd :
        /\ rest = [jobs[j] EXCEPT !.left = @ \ {f}]
        /\ IF jobs[j].cancelled \/ toAdd = {} THEN Set(j, NextFile(rest))
           ELSE Set(j, With([rest EXCEPT !.step = "edit"], [file |-> f, toAdd |-> toAdd]))
  BY DEF Processed
<1>3. DOMAIN rest = DOMAIN jobs[j]
  BY <1>2
<1>4. CASE jobs[j].cancelled \/ toAdd = {}
  BY <1>1, <1>2, <1>3, <1>4, NextFileFields, OneJob DEF StopsEdits
<1>5. CASE ~(jobs[j].cancelled \/ toAdd = {})
  <2>1. PICK next : /\ Set(j, next)
                    /\ next = With([rest EXCEPT !.step = "edit"], [file |-> f, toAdd |-> toAdd])
    BY <1>2, <1>5
  <2>2. {"step", "kind", "cancelled"} \subseteq DOMAIN next
    BY <1>1, <1>3, <2>1 DEF With
  <2> QED
    BY <1>5, <2>1, <2>2, OneJob DEF StopsEdits, HasFields
<1> QED
  BY <1>4, <1>5

LEMMA NextFields ==
  ASSUME Fields, [AutotagNext]_allVars
  PROVE  Fields' /\ \A k \in Jobs : StopsEdits(jobs[k], jobs'[k])
<1>1. CASE UNCHANGED jobs
  BY <1>1 DEF Fields, HasFields, StopsEdits
<1>2. ASSUME NEW j \in Jobs, AutotagDone(j)
      PROVE  Fields' /\ \A k \in Jobs : StopsEdits(jobs[k], jobs'[k])
  BY <1>2, EndedFields, OneJob DEF AutotagDone, StopsEdits
<1>3. ASSUME NEW j \in Jobs, BatchEdited(j)
      PROVE  Fields' /\ \A k \in Jobs : StopsEdits(jobs[k], jobs'[k])
  <2>1. PICK job : /\ job = [f \in DOMAIN jobs[j] \ {"file", "toAdd"} |-> jobs[j][f]]
                   /\ Set(j, NextFile(job))
    BY <1>3 DEF BatchEdited
  <2>2. {"step", "kind", "cancelled"} \subseteq DOMAIN job
    BY <1>3, <2>1 DEF BatchEdited, Fields, HasFields, Running
  <2> QED
    BY <2>1, <2>2, NextFileFields, OneJob DEF StopsEdits
<1>4. ASSUME NEW j \in Jobs, Cancel(j)
      PROVE  Fields' /\ \A k \in Jobs : StopsEdits(jobs[k], jobs'[k])
  <2>1. PICK next : next = [jobs[j] EXCEPT !.cancelled = TRUE] /\ Set(j, next)
    BY <1>4 DEF Cancel
  <2>2. DOMAIN next = DOMAIN jobs[j] /\ next.step = jobs[j].step
    BY <2>1 DEF Fields, HasFields
  <2>3. HasFields(next) /\ StopsEdits(jobs[j], next)
    BY <2>2 DEF Fields, HasFields, StopsEdits
  <2> QED
    BY <2>1, <2>3, OneJob
<1> QED
  BY <1>1, <1>2, <1>3, <1>4, StartFields, LoadFields, ProcessedFields
  DEF AutotagNext, JobAnswers, SettingsStart, SettingsReopened, SettingsEnd, allVars

\* Once the user has cancelled a batch it begins no edit on the server, at
\* whatever it was waiting for then: the model, a file or another edit
\* (BatchAutoTagModal.tsx:129-131 and 169-171).
THEOREM CancelledBatchStops == AutotagSpec => CancelStopsEdits
<1>1. Fields /\ [AutotagNext]_allVars => Fields'
  BY NextFields
<1>2. Fields /\ [AutotagNext]_allVars =>
        [\A j \in Jobs :
          jobs[j].step \in Running /\ jobs[j].kind = "batch" /\ jobs[j].cancelled
            => (jobs'[j].step = "edit" => jobs[j].step = "edit")]_allVars
  BY NextFields DEF StopsEdits
<1> QED
  BY <1>1, <1>2, InitFields, PTL DEF AutotagSpec, CancelStopsEdits

----------------------------------------------------------------------------
(* The changes of the tags.                                                *)

\* At most one change of each tag.
Once(pending) ==
  \A j, k \in DOMAIN pending :
    pending[j].tag = pending[k].tag /\ pending[j].service = pending[k].service => j = k

LEMMA RemoveAtKeeps ==
  ASSUME NEW S, NEW q \in Seq(S), NEW i \in 1..Len(q)
  PROVE  /\ RemoveAt(q, i) \in Seq(S)
         /\ Len(RemoveAt(q, i)) = Len(q) - 1
         /\ \A j \in 1..(Len(q) - 1) : RemoveAt(q, i)[j] = IF j < i THEN q[j] ELSE q[j + 1]
<1>1. /\ Len(q) \in Nat /\ i \in Nat /\ 1 <= i /\ i <= Len(q)
      /\ \A j \in 1..Len(q) : q[j] \in S
  BY LenProperties, ElementOfSeq
<1>2. PICK front : front = SubSeq(q, 1, i - 1)
  OBVIOUS
<1>3. PICK back : back = SubSeq(q, i + 1, Len(q))
  OBVIOUS
<1>4. front \in Seq(S) /\ Len(front) = i - 1 /\ \A j \in 1..(i - 1) : front[j] = q[j]
  <2>1. 1 \in Int /\ i - 1 \in Int /\ \A j \in 1..(i - 1) : q[j] \in S
    BY <1>1
  <2>2. /\ front \in Seq(S)
        /\ Len(front) = IF 1 <= i - 1 THEN i - 1 - 1 + 1 ELSE 0
        /\ \A j \in 1..(i - 1 - 1 + 1) : front[j] = q[1 + j - 1]
    BY <1>2, <2>1, SubSeqProperties
  <2>3. \A j \in 1..(i - 1) : j \in 1..(i - 1 - 1 + 1) /\ 1 + j - 1 = j
    BY <1>1
  <2> QED
    BY <1>1, <2>2, <2>3
<1>5. back \in Seq(S) /\ Len(back) = Len(q) - i /\ \A j \in 1..(Len(q) - i) : back[j] = q[j + i]
  <2>1. i + 1 \in Int /\ Len(q) \in Int /\ \A j \in (i + 1)..Len(q) : q[j] \in S
    BY <1>1
  <2>2. /\ back \in Seq(S)
        /\ Len(back) = IF i + 1 <= Len(q) THEN Len(q) - (i + 1) + 1 ELSE 0
        /\ \A j \in 1..(Len(q) - (i + 1) + 1) : back[j] = q[(i + 1) + j - 1]
    BY <1>3, <2>1, SubSeqProperties
  <2>3. \A j \in 1..(Len(q) - i) : j \in 1..(Len(q) - (i + 1) + 1) /\ (i + 1) + j - 1 = j + i
    BY <1>1
  <2> QED
    BY <1>1, <2>2, <2>3
<1>6. RemoveAt(q, i) = front \o back
  BY <1>2, <1>3 DEF RemoveAt
<1>7. /\ front \o back \in Seq(S)
      /\ Len(front \o back) = Len(front) + Len(back)
      /\ \A j \in 1..(Len(front) + Len(back)) :
           (front \o back)[j] = IF j <= Len(front) THEN front[j] ELSE back[j - Len(front)]
  BY <1>4, <1>5, ConcatProperties
<1>8. ASSUME NEW j \in 1..(Len(q) - 1)
      PROVE  (front \o back)[j] = IF j < i THEN q[j] ELSE q[j + 1]
  <2>1. CASE j < i
    <3>1. j \in 1..(i - 1) /\ j \in 1..(Len(front) + Len(back)) /\ j <= Len(front)
      BY <1>1, <1>4, <1>5, <2>1
    <3> QED
      BY <1>4, <1>7, <2>1, <3>1
  <2>2. CASE ~(j < i)
    <3>1. /\ j - (i - 1) \in 1..(Len(q) - i) /\ j \in 1..(Len(front) + Len(back))
          /\ ~(j <= Len(front)) /\ j - (i - 1) + i = j + 1
      BY <1>1, <1>4, <1>5, <2>2
    <3> QED
      BY <1>4, <1>5, <1>7, <2>2, <3>1
  <2> QED
    BY <2>1, <2>2
<1> QED
  BY <1>1, <1>4, <1>5, <1>6, <1>7, <1>8

\* The two directions of a toggle are all there are.
LEMMA OppositeIsOther ==
  ASSUME NEW a \in Actions, NEW b, b = (CHOOSE o \in Actions : o # a)
  PROVE  b \in Actions /\ b # a /\ Actions = {a, b}
BY DEF Actions

\* The one place where a sequence without repetition meets a test is the
\* first and the last.
LEMMA OnlyPlace ==
  ASSUME NEW I, NEW i \in Nat, I = {i}
  PROVE  Min(I) = i /\ Max(I) = i
BY DEF Min, Max

\* A toggle leaves one change at most for a tag.
LEMMA ToggleKeepsOnce ==
  ASSUME NEW pending \in Seq(Change), Once(pending),
         NEW t \in Tag, NEW a \in Actions, NEW s \in Service
  PROVE  Toggle(pending, t, a, s) \in Seq(Change) /\ Once(Toggle(pending, t, a, s))
<1>1. PICK b : b = CHOOSE o \in Actions : o # a
  OBVIOUS
<1>2. b \in Actions /\ b # a /\ Actions = {a, b}
  BY <1>1, OppositeIsOther
<1>3. PICK opposite : opposite = [tag |-> t, action |-> b, service |-> s]
  OBVIOUS
<1>4. PICK I : I = {i \in 1..Len(pending) : pending[i] = opposite}
  OBVIOUS
<1>5. Toggle(pending, t, a, s) =
        IF Pending(pending, t, a, s) THEN pending
        ELSE IF (IF I # {} THEN Min(I) ELSE 0) # 0
          THEN RemoveAt(pending, IF I # {} THEN Min(I) ELSE 0)
        ELSE Append(pending, [tag |-> t, action |-> a, service |-> s])
  BY <1>1, <1>3, <1>4 DEF Toggle, SelectInSeq
<1>6. CASE Pending(pending, t, a, s)
  BY <1>5, <1>6
<1>7. CASE ~Pending(pending, t, a, s) /\ I # {}
  <2>1. PICK i \in 1..Len(pending) : pending[i] = opposite
    BY <1>4, <1>7
  <2>2. I = {i}
    BY <1>3, <1>4, <2>1 DEF Once
  <2>3. Toggle(pending, t, a, s) = RemoveAt(pending, i)
    BY <1>5, <1>7, <2>2, OnlyPlace
  <2>4. PICK q : /\ q = RemoveAt(pending, i)
                 /\ q \in Seq(Change)
                 /\ Len(q) = Len(pending) - 1
                 /\ \A j \in 1..(Len(pending) - 1) :
                      q[j] = IF j < i THEN pending[j] ELSE pending[j + 1]
    BY RemoveAtKeeps
  <2>5. ASSUME NEW j \in DOMAIN q, NEW k \in DOMAIN q,
               q[j].tag = q[k].tag, q[j].service = q[k].service
        PROVE  j = k
    <3>1. PICK x \in 1..Len(pending) : q[j] = pending[x] /\ x = IF j < i THEN j ELSE j + 1
      BY <2>4
    <3>2. PICK y \in 1..Len(pending) : q[k] = pending[y] /\ y = IF k < i THEN k ELSE k + 1
      BY <2>4
    <3>3. x = y
      BY <2>5, <3>1, <3>2 DEF Once
    <3> QED
      BY <2>4, <3>1, <3>2, <3>3
  <2> QED
    BY <2>3, <2>4, <2>5 DEF Once
<1>8. CASE ~Pending(pending, t, a, s) /\ I = {}
  <2>1. PICK change \in Change : change = [tag |-> t, action |-> a, service |-> s]
    BY DEF Change
  <2>2. \A i \in 1..Len(pending) : pending[i] # change /\ pending[i] # opposite
    BY <1>4, <1>8, <2>1 DEF Pending, Range
  <2>3. \A i \in 1..Len(pending) : ~(pending[i].tag = t /\ pending[i].service = s)
    <3> SUFFICES ASSUME NEW i \in 1..Len(pending), pending[i].tag = t, pending[i].service = s
                 PROVE  FALSE
      OBVIOUS
    <3>1. pending[i] \in Change
      OBVIOUS
    <3>2. pending[i].action = a \/ pending[i].action = b
      BY <1>2, <3>1 DEF Change
    <3> QED
      BY <1>3, <2>1, <2>2, <3>1, <3>2 DEF Change
  <2>4. PICK q : q = Append(pending, change)
    OBVIOUS
  <2>5. /\ q \in Seq(Change) /\ Len(q) = Len(pending) + 1
        /\ \A j \in 1..Len(pending) : q[j] = pending[j]
        /\ q[Len(pending) + 1] = change /\ DOMAIN q = 1..(Len(pending) + 1)
    BY <2>1, <2>4, AppendProperties, LenProperties
  <2>6. \A j, k \in 1..Len(pending) :
          q[j].tag = q[k].tag /\ q[j].service = q[k].service => j = k
    BY <2>5 DEF Once
  <2>7. change.tag = t /\ change.service = s
    BY <2>1
  <2>8. \A j \in 1..Len(pending) : ~(q[j].tag = t /\ q[j].service = s)
    BY <2>3, <2>5
  <2>9. Once(q)
    <3>1. \A j \in DOMAIN q : j \in 1..Len(pending) \/ j = Len(pending) + 1
      BY <2>5
    <3> QED
      BY <2>5, <2>6, <2>7, <2>8, <3>1 DEF Once
  <2> QED
    BY <1>5, <1>8, <2>1, <2>4, <2>5, <2>9
<1> QED
  BY <1>6, <1>7, <1>8

\* The mark of a tag is the action of its change.
LEMMA MarkIsChange ==
  ASSUME NEW save, save.edits.pending \in Seq(Change), Once(save.edits.pending),
         NEW t \in Tag, NEW s \in Service
  PROVE  /\ TagStatus(save, s, t) \in Actions \cup {"none"}
         /\ \A a \in Actions :
              TagStatus(save, s, t) = a <=> Pending(save.edits.pending, t, a, s)
<1>1. PICK pending \in Seq(Change) : pending = save.edits.pending /\ Once(pending)
  OBVIOUS
<1>2. PICK I : I = {i \in 1..Len(pending) : pending[i].tag = t /\ pending[i].service = s}
  OBVIOUS
<1>3. TagStatus(save, s, t) = IF (IF I # {} THEN Max(I) ELSE 0) = 0 THEN "none"
                              ELSE pending[IF I # {} THEN Max(I) ELSE 0].action
  BY <1>1, <1>2 DEF TagStatus, LastChange, SelectLastInSeq
<1>4. CASE I = {}
  <2>1. TagStatus(save, s, t) = "none"
    BY <1>3, <1>4
  <2>2. ASSUME NEW a, Pending(pending, t, a, s) PROVE FALSE
    <3>1. PICK i \in 1..Len(pending) : pending[i] = [tag |-> t, action |-> a, service |-> s]
      BY <2>2 DEF Pending, Range
    <3> QED
      BY <1>2, <1>4, <3>1
  <2> QED
    BY <1>1, <2>1, <2>2 DEF Actions
<1>5. CASE I # {}
  <2>1. PICK i \in 1..Len(pending) : pending[i].tag = t /\ pending[i].service = s
    BY <1>2, <1>5
  <2>2. I = {i} /\ i \in Nat /\ i # 0
    BY <1>1, <1>2, <2>1, LenProperties DEF Once
  <2>3. TagStatus(save, s, t) = pending[i].action
    <3>1. Max(I) = i /\ i # 0
      BY <2>2, OnlyPlace
    <3> QED
      BY <1>3, <1>5, <3>1
  <2>4. pending[i] \in Change
    OBVIOUS
  <2>5. ASSUME NEW a \in Actions
        PROVE  pending[i].action = a <=> Pending(pending, t, a, s)
    BY <1>1, <2>1, <2>4 DEF Pending, Range, Once, Change
  <2> QED
    BY <1>1, <2>3, <2>4, <2>5 DEF Change
<1> QED
  BY <1>4, <1>5

----------------------------------------------------------------------------
(* The modals and their saves, when nobody but their user changes them.    *)

\* The steps of the save of each modal.
StepsOf == [tags |-> {"editTags", "refresh"}, urls |-> {"associateUrl", "refresh"},
            notes |-> {"deleteNotes", "addNotes", "refresh"}, import |-> {"addUrl"}]

IsModal(m) ==
  /\ m = [kind |-> m.kind, number |-> m.number, files |-> m.files, was |-> m.was,
          edits |-> m.edits, submitting |-> m.submitting, discard |-> m.discard]
  /\ m.kind \in AllKinds /\ m.number \in Modals
  /\ m.files \subseteq File /\ m.files # {} /\ m.was \in [m.files -> Meta]
  /\ m.edits \in Edits(m.kind) /\ Consistent(m.kind, m.edits)

IsSave(v) ==
  /\ v = [step |-> v.step, kind |-> v.kind, files |-> v.files, was |-> v.was, edits |-> v.edits]
  /\ v.kind \in {"tags", "urls", "notes", "import"} /\ v.step \in StepsOf[v.kind]
  /\ v.files \subseteq File
  /\ v.edits \in Edits(v.kind) /\ Consistent(v.kind, v.edits)

IsRefresh(r) ==
  /\ r = [by |-> r.by, files |-> r.files, reply |-> r.reply]
  /\ r.files \subseteq File
  /\ r.reply = <<>> \/ r.reply \in [r.files -> Meta]

OnScreen(m) == (m = [kind |-> "none", number |-> m.number] /\ m.number \in 0..MaxOpens) \/ IsModal(m)

\* TypeOK of EditModals, which SavedAsShown needs, with what makes it
\* inductive: what a modal started from and the step a save is at.
EditInv ==
  /\ server \in [File -> Meta] /\ loaded \in [File -> Meta]
  /\ OnScreen(modal)
  /\ saves = [i \in Modals |-> saves[i]]
  /\ \A i \in Modals : saves[i] = NoSave \/ IsSave(saves[i])
  /\ \A r \in refreshes : IsRefresh(r)

LEMMA KindFacts ==
  /\ Edits("tags") = [pending : Seq(Change)]
  /\ Edits("urls") = [toAdd : SUBSET Url, toRemove : SUBSET Url]
  /\ Edits("notes") = [shown : [Note -> Text \cup {NoText}], toAdd : [Note -> Text \cup {NoText}],
                       toEdit : [Note -> Text \cup {NoText}], toRemove : SUBSET Note]
  /\ Edits("import") = [urls : SUBSET Url]
  /\ Edits("batch") = [asked : BOOLEAN]
  /\ \A e : Consistent("tags", e) = Once(e.pending)
  /\ \A e : Consistent("urls", e) = (e.toAdd \cap e.toRemove = {})
  /\ \A e : Consistent("notes", e) /\ Consistent("import", e) /\ Consistent("batch", e)
  /\ StepsOf["tags"] = {"editTags", "refresh"}
  /\ StepsOf["urls"] = {"associateUrl", "refresh"}
  /\ StepsOf["notes"] = {"deleteNotes", "addNotes", "refresh"}
  /\ StepsOf["import"] = {"addUrl"}
<1>1. \A e : Consistent("tags", e) = Once(e.pending)
  BY DEF Consistent, Once
<1>2. \A e : Consistent("urls", e) = (e.toAdd \cap e.toRemove = {})
  BY DEF Consistent
<1>3. \A e : Consistent("notes", e) /\ Consistent("import", e) /\ Consistent("batch", e)
  BY DEF Consistent
<1> QED
  BY <1>1, <1>2, <1>3 DEF Edits, StepsOf

(* What the requests do to the metadata of a file.                         *)

\* Two types by name, for the provers.
Metas == [File -> Meta]
TagSets == [Service -> SUBSET Tag]

LEMMA AddTagsDoes ==
  ASSUME NEW sv \in Metas, NEW files \in SUBSET File,
         NEW adds \in TagSets, NEW removes \in TagSets
  PROVE  /\ AddTags(sv, files, adds, removes) \in Metas
         /\ \A f \in files, s \in Service :
              AddTags(sv, files, adds, removes)[f].tags[s] = (sv[f].tags[s] \cup adds[s]) \ removes[s]
<1>1. ASSUME NEW f \in File
      PROVE  /\ [sv[f] EXCEPT !.tags = [s \in Service |-> (@[s] \cup adds[s]) \ removes[s]]] \in Meta
             /\ \A s \in Service :
                  [sv[f] EXCEPT !.tags = [s2 \in Service |-> (@[s2] \cup adds[s2]) \ removes[s2]]].tags[s]
                    = (sv[f].tags[s] \cup adds[s]) \ removes[s]
  <2>1. PICK tags : tags = [s \in Service |-> (sv[f].tags[s] \cup adds[s]) \ removes[s]]
    OBVIOUS
  <2>2. tags \in TagSets
    <3>1. sv[f].tags \in TagSets
      BY DEF Meta, Metas, TagSets
    <3>2. \A s \in Service : (sv[f].tags[s] \cup adds[s]) \ removes[s] \in SUBSET Tag
      BY <3>1 DEF TagSets
    <3> QED
      BY <2>1, <3>2 DEF TagSets
  <2>3. [sv[f] EXCEPT !.tags = tags] \in Meta /\ [sv[f] EXCEPT !.tags = tags].tags = tags
    <3>1. sv[f] \in Meta
      BY DEF Metas
    <3>2. PICK m : m = [sv[f] EXCEPT !.tags = tags]
      OBVIOUS
    <3>3. m = [tags |-> tags, urls |-> sv[f].urls, notes |-> sv[f].notes]
      BY <3>1, <3>2 DEF Meta
    <3> QED
      BY <2>2, <3>1, <3>2, <3>3 DEF Meta, TagSets
  <2> QED
    BY <2>1, <2>3
<1> QED
  BY <1>1 DEF AddTags, OnFiles, Metas

LEMMA AssociateUrlDoes ==
  ASSUME NEW sv \in Metas, NEW files \in SUBSET File,
         NEW toAdd \in SUBSET Url, NEW toRemove \in SUBSET Url
  PROVE  /\ AssociateUrl(sv, files, toAdd, toRemove) \in Metas
         /\ \A f \in files :
              AssociateUrl(sv, files, toAdd, toRemove)[f].urls = (sv[f].urls \cup toAdd) \ toRemove
<1>1. ASSUME NEW f \in File
      PROVE  /\ [sv[f] EXCEPT !.urls = (@ \cup toAdd) \ toRemove] \in Meta
             /\ [sv[f] EXCEPT !.urls = (@ \cup toAdd) \ toRemove].urls = (sv[f].urls \cup toAdd) \ toRemove
  BY DEF Meta, Metas, TagSets
<1> QED
  BY <1>1 DEF AssociateUrl, OnFiles, Metas

LEMMA DeleteNotesDoes ==
  ASSUME NEW sv \in Metas, NEW files \in SUBSET File, NEW gone \in SUBSET Note
  PROVE  DeleteNotes(sv, files, gone) \in Metas
<1>1. ASSUME NEW f \in File
      PROVE  [sv[f] EXCEPT !.notes = [n \in Note |-> IF n \in gone THEN NoText ELSE @[n]]] \in Meta
  BY DEF Meta, Metas, TagSets
<1> QED
  BY <1>1 DEF DeleteNotes, OnFiles, Metas

LEMMA AddNotesDoes ==
  ASSUME NEW sv \in Metas, NEW files \in SUBSET File,
         NEW notes \in [Note -> Text \cup {NoText}]
  PROVE  AddNotes(sv, files, notes) \in Metas
<1>1. ASSUME NEW f \in File
      PROVE  [sv[f] EXCEPT !.notes = [n \in Note |-> IF notes[n] # NoText THEN notes[n] ELSE @[n]]]
               \in Meta
  BY DEF Meta, Metas, TagSets
<1> QED
  BY <1>1 DEF AddNotes, OnFiles, Metas

\* A request of a save leaves metadata for every file, and one that edits
\* tags or URLs does what the save was marked with.
LEMMA AppliedDoes ==
  ASSUME server \in Metas, NEW v, IsSave(v),
         v.step \in {"editTags", "associateUrl", "deleteNotes", "addNotes"}
  PROVE  /\ Applied(v) \in Metas
         /\ v.kind = "tags" => \A f \in v.files, s \in Service, t \in Tag :
              AsMarked(TagStatus(v, s, t), t \in server[f].tags[s], t \in Applied(v)[f].tags[s])
         /\ v.kind = "urls" => \A f \in v.files, u \in Url :
              AsMarked(UrlStatus(v, u), u \in server[f].urls, u \in Applied(v)[f].urls)
<1>1. CASE v.kind = "tags"
  <2>1. v.step = "editTags" /\ v.edits \in [pending : Seq(Change)] /\ Once(v.edits.pending)
    BY <1>1, KindFacts DEF IsSave
  <2>2. /\ Applied(v) = AddTags(server, v.files, TagsOf(v, "ADD"), TagsOf(v, "DELETE"))
        /\ TagsOf(v, "ADD") \in TagSets
        /\ TagsOf(v, "DELETE") \in TagSets
    BY <2>1 DEF Applied, TagsOf, TagSets
  <2>3. /\ Applied(v) \in Metas
        /\ \A f \in v.files, s \in Service :
             Applied(v)[f].tags[s] = (server[f].tags[s] \cup TagsOf(v, "ADD")[s]) \ TagsOf(v, "DELETE")[s]
    <3>1. PICK files \in SUBSET File : files = v.files
      BY DEF IsSave
    <3>2. PICK adds \in TagSets : adds = TagsOf(v, "ADD")
      BY <2>2
    <3>3. PICK removes \in TagSets : removes = TagsOf(v, "DELETE")
      BY <2>2
    <3>4. PICK sv \in Metas : sv = server
      OBVIOUS
    <3>5. AddTags(sv, files, adds, removes) \in Metas
      BY AddTagsDoes
    <3>6. \A f \in files, s \in Service :
            AddTags(sv, files, adds, removes)[f].tags[s] = (sv[f].tags[s] \cup adds[s]) \ removes[s]
      BY AddTagsDoes
    <3> QED
      BY <2>2, <3>1, <3>2, <3>3, <3>4, <3>5, <3>6
  <2>4. ASSUME NEW f \in v.files, NEW s \in Service, NEW t \in Tag
        PROVE  AsMarked(TagStatus(v, s, t), t \in server[f].tags[s], t \in Applied(v)[f].tags[s])
    <3>1. t \in Applied(v)[f].tags[s] <=>
            /\ t \in server[f].tags[s] \/ Pending(v.edits.pending, t, "ADD", s)
            /\ ~Pending(v.edits.pending, t, "DELETE", s)
      BY <2>3 DEF TagsOf
    <3>2. /\ TagStatus(v, s, t) \in {"ADD", "DELETE", "none"}
          /\ TagStatus(v, s, t) = "ADD" <=> Pending(v.edits.pending, t, "ADD", s)
          /\ TagStatus(v, s, t) = "DELETE" <=> Pending(v.edits.pending, t, "DELETE", s)
      BY <2>1, MarkIsChange DEF Actions
    <3> QED
      BY <3>1, <3>2 DEF AsMarked
  <2> QED
    BY <1>1, <2>3, <2>4
<1>2. CASE v.kind = "urls"
  <2>1. v.step = "associateUrl"
    BY <1>2, KindFacts DEF IsSave
  <2>2. /\ v.edits.toAdd \in SUBSET Url /\ v.edits.toRemove \in SUBSET Url
        /\ v.edits.toAdd \cap v.edits.toRemove = {}
    <3>1. v.edits \in [toAdd : SUBSET Url, toRemove : SUBSET Url] /\ Consistent("urls", v.edits)
      BY <1>2, KindFacts DEF IsSave
    <3> QED
      BY <3>1, KindFacts
  <2>3. Applied(v) = AssociateUrl(server, v.files, v.edits.toAdd, v.edits.toRemove)
    BY <2>1 DEF Applied
  <2>4. /\ Applied(v) \in Metas
        /\ \A f \in v.files :
             Applied(v)[f].urls = (server[f].urls \cup v.edits.toAdd) \ v.edits.toRemove
    <3>1. PICK files \in SUBSET File : files = v.files
      BY DEF IsSave
    <3>2. PICK toAdd \in SUBSET Url : toAdd = v.edits.toAdd
      BY <2>2
    <3>3. PICK toRemove \in SUBSET Url : toRemove = v.edits.toRemove
      BY <2>2
    <3>4. PICK sv \in Metas : sv = server
      OBVIOUS
    <3>5. AssociateUrl(sv, files, toAdd, toRemove) \in Metas
      BY AssociateUrlDoes
    <3>6. \A f \in files :
            AssociateUrl(sv, files, toAdd, toRemove)[f].urls = (sv[f].urls \cup toAdd) \ toRemove
      BY AssociateUrlDoes
    <3> QED
      BY <2>3, <3>1, <3>2, <3>3, <3>4, <3>5, <3>6
  <2>5. ASSUME NEW f \in v.files, NEW u \in Url
        PROVE  AsMarked(UrlStatus(v, u), u \in server[f].urls, u \in Applied(v)[f].urls)
    BY <2>2, <2>4 DEF AsMarked, UrlStatus
  <2> QED
    BY <1>2, <2>4, <2>5
<1>3. CASE v.kind = "notes"
  <2>1. v.step = "deleteNotes" \/ v.step = "addNotes"
    BY <1>3, KindFacts DEF IsSave
  <2>2. v.edits \in Edits("notes") /\ v.files \in SUBSET File
    BY <1>3 DEF IsSave
  <2>3. v.edits.toRemove \in SUBSET Note /\ NotesOf(v) \in [Note -> Text \cup {NoText}]
    <3>1. PICK e : e = v.edits
      OBVIOUS
    <3>2. /\ e = v.edits /\ e.toAdd \in [Note -> Text \cup {NoText}]
          /\ e.toEdit \in [Note -> Text \cup {NoText}] /\ e.toRemove \in SUBSET Note
      BY <2>2, <3>1 DEF Edits
    <3> QED
      BY <3>2 DEF NotesOf
  <2>4. CASE v.step = "deleteNotes"
    BY <1>3, <2>2, <2>3, <2>4, DeleteNotesDoes DEF Applied
  <2>5. CASE v.step = "addNotes"
    BY <1>3, <2>2, <2>3, <2>5, AddNotesDoes DEF Applied
  <2> QED
    BY <2>1, <2>4, <2>5
<1>4. v.kind # "import"
  BY KindFacts DEF IsSave
<1> QED
  BY <1>1, <1>2, <1>3, <1>4 DEF IsSave

(* The steps of the user.                                                  *)

\* What changes the modal only.
LEMMA ScreenOnly ==
  ASSUME EditInv, UNCHANGED <<server, loaded, saves, refreshes>>, OnScreen(modal')
  PROVE  EditInv'
BY DEF EditInv

LEMMA ClosedOnScreen ==
  ASSUME OnScreen(modal)
  PROVE  OnScreen(Closed)
BY DEF OnScreen, IsModal, Closed, Modals

\* A modal with other changes, or with another flag, is a modal.
LEMMA ModalWith ==
  ASSUME NEW m, IsModal(m)
  PROVE  /\ \A e : e \in Edits(m.kind) /\ Consistent(m.kind, e) => IsModal([m EXCEPT !.edits = e])
         /\ \A b : IsModal([m EXCEPT !.submitting = b])
         /\ \A b : IsModal([m EXCEPT !.discard = b])
<1>1. PICK k, n, fs, w, e, sub, d :
        m = [kind |-> k, number |-> n, files |-> fs, was |-> w, edits |-> e,
             submitting |-> sub, discard |-> d]
  BY DEF IsModal
<1>2. ASSUME NEW e2 PROVE [m EXCEPT !.edits = e2] =
        [kind |-> k, number |-> n, files |-> fs, was |-> w, edits |-> e2,
         submitting |-> sub, discard |-> d]
  BY <1>1
<1>3. ASSUME NEW b PROVE [m EXCEPT !.submitting = b] =
        [kind |-> k, number |-> n, files |-> fs, was |-> w, edits |-> e,
         submitting |-> b, discard |-> d]
  BY <1>1
<1>4. ASSUME NEW b PROVE [m EXCEPT !.discard = b] =
        [kind |-> k, number |-> n, files |-> fs, was |-> w, edits |-> e,
         submitting |-> sub, discard |-> b]
  BY <1>1
<1>5. \A e2 : e2 \in Edits(m.kind) /\ Consistent(m.kind, e2) => IsModal([m EXCEPT !.edits = e2])
  BY <1>1, <1>2 DEF IsModal
<1>6. \A b : IsModal([m EXCEPT !.submitting = b])
  BY <1>1, <1>3 DEF IsModal
<1>7. \A b : IsModal([m EXCEPT !.discard = b])
  BY <1>1, <1>4 DEF IsModal
<1> QED
  BY <1>5, <1>6, <1>7

LEMMA EditKeeps ==
  ASSUME EditInv, NEW kind \in AllKinds, NEW e \in Edits(kind), Consistent(kind, e), Edit(kind, e)
  PROVE  EditInv'
<1>1. IsModal(modal) /\ modal.kind = kind
  BY DEF EditInv, OnScreen, Edit, AllKinds
<1>2. IsModal(modal')
  BY <1>1, ModalWith DEF Edit
<1> QED
  BY <1>2, ScreenOnly DEF Edit, OnScreen

LEMMA EditTagsKeeps ==
  ASSUME EditInv, EditTags
  PROVE  EditInv'
<1>1. PICK s \in Service, t \in Tag, a \in Actions :
        Edit("tags", [pending |-> Toggle(modal.edits.pending, t, a, s)])
  BY DEF EditTags, HandleAddTag, HandleRemoveTag, Actions
<1>2. IsModal(modal) /\ modal.kind = "tags"
  BY DEF EditInv, OnScreen, EditTags
<1>3. PICK pending \in Seq(Change) : pending = modal.edits.pending /\ Once(pending)
  <2>1. modal.edits \in [pending : Seq(Change)] /\ Consistent("tags", modal.edits)
    BY <1>2, KindFacts DEF IsModal
  <2> QED
    BY <2>1, KindFacts
<1>4. PICK next \in Seq(Change) : next = Toggle(pending, t, a, s) /\ Once(next)
  BY <1>3, ToggleKeepsOnce
<1>5. [pending |-> next] \in Edits("tags") /\ Consistent("tags", [pending |-> next])
  BY <1>4, KindFacts
<1> QED
  BY <1>1, <1>3, <1>4, <1>5, EditKeeps DEF AllKinds

LEMMA EditUrlsKeeps ==
  ASSUME EditInv, EditUrls
  PROVE  EditInv'
<1>1. PICK u \in Url : \/ Edit("urls", HandleAddUrl(modal, u))
                      \/ Edit("urls", HandleRemoveUrl(modal, u))
  BY DEF EditUrls
<1>2. IsModal(modal) /\ modal.kind = "urls"
  BY DEF EditInv, OnScreen, EditUrls
<1>3. PICK e : /\ e = modal.edits
               /\ e = [toAdd |-> e.toAdd, toRemove |-> e.toRemove]
               /\ e.toAdd \in SUBSET Url /\ e.toRemove \in SUBSET Url
               /\ e.toAdd \cap e.toRemove = {}
  <2>1. modal.edits \in [toAdd : SUBSET Url, toRemove : SUBSET Url] /\ Consistent("urls", modal.edits)
    BY <1>2, KindFacts DEF IsModal
  <2>2. modal.edits.toAdd \cap modal.edits.toRemove = {}
    BY <2>1, KindFacts
  <2> QED
    BY <2>1, <2>2
<1>4. ASSUME NEW e2, e2 \in [toAdd : SUBSET Url, toRemove : SUBSET Url],
             e2.toAdd \cap e2.toRemove = {}, Edit("urls", e2)
      PROVE  EditInv'
  BY <1>4, EditKeeps, KindFacts DEF AllKinds
<1>5. PICK add : add = HandleAddUrl(modal, u)
  OBVIOUS
<1>6. PICK remove : remove = HandleRemoveUrl(modal, u)
  OBVIOUS
<1>7. add \in [toAdd : SUBSET Url, toRemove : SUBSET Url] /\ add.toAdd \cap add.toRemove = {}
  <2>1. CASE u \in e.toRemove
    <3>1. add = [e EXCEPT !.toRemove = e.toRemove \ {u}]
      BY <1>3, <1>5, <2>1 DEF HandleAddUrl
    <3> QED
      BY <1>3, <3>1
  <2>2. CASE u \notin e.toRemove /\ InitialUrlCount(modal, u) < Cardinality(modal.files)
    <3>1. add = [e EXCEPT !.toAdd = e.toAdd \cup {u}]
      BY <1>3, <1>5, <2>2 DEF HandleAddUrl
    <3> QED
      BY <1>3, <2>2, <3>1
  <2>3. CASE u \notin e.toRemove /\ ~(InitialUrlCount(modal, u) < Cardinality(modal.files))
    BY <1>3, <1>5, <2>3 DEF HandleAddUrl
  <2> QED
    BY <2>1, <2>2, <2>3
<1>8. remove \in [toAdd : SUBSET Url, toRemove : SUBSET Url] /\ remove.toAdd \cap remove.toRemove = {}
  <2>1. CASE u \in e.toAdd
    <3>1. remove = [e EXCEPT !.toAdd = e.toAdd \ {u}]
      BY <1>3, <1>6, <2>1 DEF HandleRemoveUrl
    <3> QED
      BY <1>3, <3>1
  <2>2. CASE u \notin e.toAdd
    <3>1. remove = [e EXCEPT !.toRemove = e.toRemove \cup {u}]
      BY <1>3, <1>6, <2>2 DEF HandleRemoveUrl
    <3> QED
      BY <1>3, <2>2, <3>1
  <2> QED
    BY <2>1, <2>2
<1> QED
  BY <1>1, <1>4, <1>5, <1>6, <1>7, <1>8

NoteTexts == [Note -> Text \cup {NoText}]
Put(h, n, x) == [h EXCEPT ![n] = x]
NoteEdits(sh, ad, ed, re) == [shown |-> sh, toAdd |-> ad, toEdit |-> ed, toRemove |-> re]

\* What the two halves of the modal of the notes do to its changes.
LEMMA AddNoteDoes ==
  ASSUME NEW m, NEW n, NEW text, NEW sh, NEW ad, NEW ed, NEW re,
         m.edits = NoteEdits(sh, ad, ed, re),
         NEW sh2, sh2 = Put(sh, n, text), NEW ad2, ad2 = Put(ad, n, text),
         NEW ed2, ed2 = Put(ed, n, IF InitialNotes(m)[n] # text THEN text ELSE ed[n])
  PROVE  HandleAddNote(m, n, text) =
           IF InitialNotes(m)[n] = NoText THEN NoteEdits(sh2, ad2, ed, re)
           ELSE NoteEdits(sh2, ad, ed2, re \ {n})
<1>1. PICK e : e = m.edits /\ e = NoteEdits(sh, ad, ed, re)
  OBVIOUS
<1>2. PICK initial : initial = InitialNotes(m)[n]
  OBVIOUS
<1>3. PICK added : added = [e EXCEPT !.shown[n] = text]
  OBVIOUS
<1>4. added = NoteEdits(sh2, ad, ed, re)
  BY <1>1, <1>3 DEF NoteEdits, Put
<1>5. CASE initial = NoText
  <2>1. HandleAddNote(m, n, text) = [added EXCEPT !.toAdd[n] = text]
    BY <1>1, <1>2, <1>3, <1>5 DEF HandleAddNote
  <2> QED
    BY <1>2, <1>4, <1>5, <2>1 DEF NoteEdits, Put
<1>6. CASE initial # NoText
  <2>1. PICK kept : kept = [added EXCEPT !.toRemove = @ \ {n}]
    OBVIOUS
  <2>2. HandleAddNote(m, n, text) =
          [kept EXCEPT !.toEdit[n] = IF initial # text THEN text ELSE @]
    BY <1>1, <1>2, <1>3, <1>6, <2>1 DEF HandleAddNote
  <2>3. kept = NoteEdits(sh2, ad, ed, re \ {n})
    BY <1>4, <2>1 DEF NoteEdits, Put
  <2> QED
    BY <1>2, <1>6, <2>2, <2>3 DEF NoteEdits, Put
<1> QED
  BY <1>5, <1>6

LEMMA RemoveNoteDoes ==
  ASSUME NEW m, NEW n, NEW sh, NEW ad, NEW ed, NEW re,
         m.edits = NoteEdits(sh, ad, ed, re)
  PROVE  HandleRemoveNote(m, n) =
           IF InitialNotes(m)[n] = NoText
           THEN NoteEdits(Put(sh, n, NoText), Put(ad, n, NoText), Put(ed, n, NoText), re)
           ELSE NoteEdits(Put(sh, n, NoText), ad, ed, re \cup {n})
<1>1. PICK sh2, ad2, ed2 :
        sh2 = Put(sh, n, NoText) /\ ad2 = Put(ad, n, NoText) /\ ed2 = Put(ed, n, NoText)
  OBVIOUS
<1>2. PICK e : e = m.edits /\ e = NoteEdits(sh, ad, ed, re)
  OBVIOUS
<1>3. PICK initial : initial = InitialNotes(m)[n]
  OBVIOUS
<1>4. PICK hidden : hidden = [e EXCEPT !.shown[n] = NoText]
  OBVIOUS
<1>5. hidden = NoteEdits(sh2, ad, ed, re)
  BY <1>1, <1>2, <1>4 DEF NoteEdits, Put
<1>6. CASE initial = NoText
  <2>1. PICK forgotten : forgotten = [hidden EXCEPT !.toAdd[n] = NoText]
    OBVIOUS
  <2>2. HandleRemoveNote(m, n) = [forgotten EXCEPT !.toEdit[n] = NoText]
    BY <1>2, <1>3, <1>4, <1>6, <2>1 DEF HandleRemoveNote
  <2>3. forgotten = NoteEdits(sh2, ad2, ed, re)
    BY <1>1, <1>5, <2>1 DEF NoteEdits, Put
  <2> QED
    BY <1>1, <1>3, <1>6, <2>2, <2>3 DEF NoteEdits, Put
<1>7. CASE initial # NoText
  <2>1. HandleRemoveNote(m, n) = [hidden EXCEPT !.toRemove = @ \cup {n}]
    BY <1>2, <1>3, <1>4, <1>7 DEF HandleRemoveNote
  <2> QED
    BY <1>1, <1>3, <1>5, <1>7, <2>1 DEF NoteEdits
<1> QED
  BY <1>6, <1>7

LEMMA EditNotesKeeps ==
  ASSUME EditInv, EditNotes
  PROVE  EditInv'
<1>1. PICK n \in Note : \/ \E text \in Text : Edit("notes", HandleAddNote(modal, n, text))
                       \/ Edit("notes", HandleRemoveNote(modal, n))
  BY DEF EditNotes
<1>2. IsModal(modal) /\ modal.kind = "notes"
  BY DEF EditInv, OnScreen, EditNotes
<1>3. PICK m, sh, ad, ed, re :
        /\ m = modal /\ m.edits = NoteEdits(sh, ad, ed, re)
        /\ sh \in NoteTexts /\ ad \in NoteTexts /\ ed \in NoteTexts /\ re \in SUBSET Note
  <2>1. PICK m, e : m = modal /\ e = m.edits /\ e \in Edits("notes")
    BY <1>2 DEF IsModal
  <2>2. e \in [shown : NoteTexts, toAdd : NoteTexts, toEdit : NoteTexts, toRemove : SUBSET Note]
    BY <2>1, KindFacts DEF NoteTexts
  <2>3. /\ e = NoteEdits(e.shown, e.toAdd, e.toEdit, e.toRemove)
        /\ e.shown \in NoteTexts /\ e.toAdd \in NoteTexts /\ e.toEdit \in NoteTexts
        /\ e.toRemove \in SUBSET Note
    BY <2>2 DEF NoteEdits
  <2> QED
    BY <2>1, <2>3
<1>4. ASSUME NEW sh2 \in NoteTexts, NEW ad2 \in NoteTexts, NEW ed2 \in NoteTexts,
             NEW re2 \in SUBSET Note, Edit("notes", NoteEdits(sh2, ad2, ed2, re2))
      PROVE  EditInv'
  <2>1. PICK e \in Edits("notes") : e = NoteEdits(sh2, ad2, ed2, re2)
    BY KindFacts DEF NoteEdits, NoteTexts
  <2> QED
    BY <1>4, <2>1, EditKeeps, KindFacts DEF AllKinds
<1>5. ASSUME NEW h \in NoteTexts, NEW x \in Text \cup {NoText}
      PROVE  Put(h, n, x) \in NoteTexts
  BY DEF NoteTexts, Put
<1>6. ASSUME NEW text \in Text, Edit("notes", HandleAddNote(m, n, text))
      PROVE  EditInv'
  <2>1. PICK sh2 \in NoteTexts, ad2 \in NoteTexts :
          sh2 = Put(sh, n, text) /\ ad2 = Put(ad, n, text)
    BY <1>3, <1>5
  <2>2. PICK ed2 \in NoteTexts :
          ed2 = Put(ed, n, IF InitialNotes(m)[n] # text THEN text ELSE ed[n])
    <3>1. ed[n] \in Text \cup {NoText}
      BY <1>3 DEF NoteTexts
    <3> QED
      BY <1>3, <1>5, <3>1
  <2>3. HandleAddNote(m, n, text) =
          IF InitialNotes(m)[n] = NoText THEN NoteEdits(sh2, ad2, ed, re)
          ELSE NoteEdits(sh2, ad, ed2, re \ {n})
    BY <1>3, <2>1, <2>2, AddNoteDoes
  <2>4. re \ {n} \in SUBSET Note
    BY <1>3
  <2>5. CASE InitialNotes(m)[n] = NoText
    BY <1>3, <1>4, <1>6, <2>3, <2>5
  <2>6. CASE InitialNotes(m)[n] # NoText
    BY <1>3, <1>4, <1>6, <2>3, <2>4, <2>6
  <2> QED
    BY <2>5, <2>6
<1>7. ASSUME Edit("notes", HandleRemoveNote(m, n))
      PROVE  EditInv'
  <2>1. PICK sh2 \in NoteTexts, ad2 \in NoteTexts, ed2 \in NoteTexts :
          sh2 = Put(sh, n, NoText) /\ ad2 = Put(ad, n, NoText) /\ ed2 = Put(ed, n, NoText)
    BY <1>3, <1>5
  <2>2. HandleRemoveNote(m, n) =
          IF InitialNotes(m)[n] = NoText THEN NoteEdits(sh2, ad2, ed2, re)
          ELSE NoteEdits(sh2, ad, ed, re \cup {n})
    <3>1. m.edits = NoteEdits(sh, ad, ed, re)
      BY <1>3
    <3>2. HandleRemoveNote(m, n) =
            IF InitialNotes(m)[n] = NoText
            THEN NoteEdits(Put(sh, n, NoText), Put(ad, n, NoText), Put(ed, n, NoText), re)
            ELSE NoteEdits(Put(sh, n, NoText), ad, ed, re \cup {n})
      BY <3>1, RemoveNoteDoes
    <3> QED
      BY <2>1, <3>2
  <2>3. re \cup {n} \in SUBSET Note
    BY <1>3
  <2>4. CASE InitialNotes(m)[n] = NoText
    BY <1>3, <1>4, <1>7, <2>2, <2>4
  <2>5. CASE InitialNotes(m)[n] # NoText
    BY <1>3, <1>4, <1>7, <2>2, <2>3, <2>5
  <2> QED
    BY <2>4, <2>5
<1> QED
  BY <1>1, <1>3, <1>6, <1>7

LEMMA EditImportKeeps ==
  ASSUME EditInv, EditImport
  PROVE  EditInv'
<1>1. PICK urls \in SUBSET Url : Edit("import", [urls |-> urls])
  BY DEF EditImport
<1>2. PICK e \in Edits("import") : e = [urls |-> urls]
  BY KindFacts
<1> QED
  BY <1>1, <1>2, EditKeeps, KindFacts DEF AllKinds

LEMMA OpenKeeps ==
  ASSUME EditInv, NEW kind \in Kinds, Open(kind)
  PROVE  EditInv'
<1>1. PICK files \in (SUBSET File) \ {{}} :
        modal' = [kind |-> kind, number |-> modal.number + 1, files |-> files,
                  was |-> GetFiles(loaded, files),
                  edits |-> NoEdits(kind, GetFiles(loaded, files), files),
                  submitting |-> FALSE, discard |-> FALSE]
  BY DEF Open
<1>2. PICK was : was = GetFiles(loaded, files)
  OBVIOUS
<1>3. PICK edits : edits = NoEdits(kind, was, files)
  OBVIOUS
<1>4. modal' = [kind |-> kind, number |-> modal.number + 1, files |-> files,
                was |-> was, edits |-> edits, submitting |-> FALSE, discard |-> FALSE]
  BY <1>1, <1>2, <1>3
<1>5. files \subseteq File /\ files # {}
  OBVIOUS
<1>6. was \in [files -> Meta]
  BY <1>2, <1>5 DEF EditInv, GetFiles
<1>7. modal.number + 1 \in Modals
  BY OpensAssumption DEF EditInv, OnScreen, IsModal, Open, Modals, AllKinds
<1>8. kind \in AllKinds
  BY KindsAssumption
<1>9. edits \in Edits(kind) /\ Consistent(kind, edits)
  <2>1. CASE kind = "tags"
    <3>1. edits = [pending |-> <<>>] /\ <<>> \in Seq(Change) /\ Once(<<>>)
      BY <1>3, <2>1 DEF NoEdits, NoTagEdits, Once
    <3> QED
      BY <2>1, <3>1, KindFacts
  <2>2. CASE kind = "urls"
    <3>1. edits = [toAdd |-> {}, toRemove |-> {}]
      BY <1>3, <2>2 DEF NoEdits, NoUrlEdits
    <3>2. edits \in Edits("urls") /\ edits.toAdd \cap edits.toRemove = {}
      BY <3>1, KindFacts
    <3> QED
      BY <2>2, <3>2, KindFacts
  <2>3. CASE kind = "notes"
    <3>1. PICK f \in files : f = CHOOSE g \in files : TRUE
      BY <1>5
    <3>2. edits = [shown |-> was[f].notes, toAdd |-> NoNotes, toEdit |-> NoNotes, toRemove |-> {}]
      BY <1>3, <2>3, <3>1 DEF NoEdits, NoNoteEdits
    <3>3. /\ was[f].notes \in [Note -> Text \cup {NoText}]
          /\ NoNotes \in [Note -> Text \cup {NoText}]
      BY <1>6 DEF Meta, NoNotes
    <3> QED
      BY <2>3, <3>2, <3>3, KindFacts
  <2>4. CASE kind = "import"
    <3>1. edits = [urls |-> {}]
      BY <1>3, <2>4 DEF NoEdits, NoImport
    <3> QED
      BY <2>4, <3>1, KindFacts
  <2>5. CASE kind = "batch"
    <3>1. edits = [asked |-> FALSE]
      BY <1>3, <2>5 DEF NoEdits
    <3> QED
      BY <2>5, <3>1, KindFacts
  <2> QED
    BY <1>8, <2>1, <2>2, <2>3, <2>4, <2>5 DEF AllKinds
<1>10. IsModal(modal')
  BY <1>4, <1>5, <1>6, <1>7, <1>8, <1>9 DEF IsModal
<1> QED
  BY <1>10, ScreenOnly DEF Open, OnScreen

LEMMA CloseKeeps ==
  ASSUME EditInv, HandleClose \/ Discard
  PROVE  EditInv'
<1>1. OnScreen(modal) /\ (modal.kind # "none" => IsModal(modal))
  BY DEF EditInv, OnScreen
<1>2. CASE modal' = Closed
  BY <1>1, <1>2, ClosedOnScreen, ScreenOnly DEF HandleClose, Discard
<1>3. ASSUME NEW b, modal' = [modal EXCEPT !.discard = b], modal.kind # "none" PROVE EditInv'
  BY <1>1, <1>3, ModalWith, ScreenOnly DEF HandleClose, Discard, OnScreen
<1> QED
  BY <1>2, <1>3 DEF HandleClose, Discard

LEMMA SubmitKeeps ==
  ASSUME EditInv, HandleSubmit
  PROVE  /\ EditInv'
         /\ \A i \in Modals : saves'[i].step # "refresh" \/ saves'[i] = saves[i]
<1>1. IsModal(modal) /\ modal.kind \in {"tags", "urls", "notes", "import"}
  BY DEF EditInv, OnScreen, HandleSubmit, Dirty
<1>2. PICK save : save = [step |-> FirstStep[modal.kind], kind |-> modal.kind,
                          files |-> modal.files, was |-> modal.was, edits |-> modal.edits]
  OBVIOUS
<1>3. IsSave(save) /\ save.step # "refresh"
  <2>1. FirstStep[modal.kind] \in StepsOf[modal.kind] /\ FirstStep[modal.kind] # "refresh"
    BY <1>1 DEF FirstStep, StepsOf
  <2> QED
    BY <1>1, <1>2, <2>1 DEF IsSave, IsModal
<1>4. IsModal(modal')
  BY <1>1, ModalWith DEF HandleSubmit
<1>5. saves' = [saves EXCEPT ![modal.number] = save]
  BY <1>2 DEF HandleSubmit
<1>6. /\ saves' = [i \in Modals |-> saves'[i]]
      /\ \A i \in Modals : saves'[i] = IF i = modal.number THEN save ELSE saves[i]
  BY <1>1, <1>5 DEF EditInv
<1> QED
  BY <1>3, <1>4, <1>6 DEF EditInv, HandleSubmit, OnScreen

(* The answers.                                                            *)

\* Hiding the modal of a kind.
LEMMA OnCloseKeeps ==
  ASSUME OnScreen(modal), NEW kind, OnClose(kind) \/ UNCHANGED modal
  PROVE  OnScreen(modal')
BY ClosedOnScreen DEF OnClose

\* A save that takes the place of another one.
LEMMA SaveReplaced ==
  ASSUME EditInv, NEW i, NEW save, save = NoSave \/ IsSave(save),
         saves' = [saves EXCEPT ![i] = save]
  PROVE  /\ saves' = [k \in Modals |-> saves'[k]]
         /\ \A k \in Modals : saves'[k] = NoSave \/ IsSave(saves'[k])
         /\ \A k \in Modals : saves'[k] = IF k = i THEN save ELSE saves[k]
<1>1. \A k \in Modals : saves'[k] = IF k = i THEN save ELSE saves[k]
  BY DEF EditInv
<1> QED
  BY <1>1 DEF EditInv

LEMMA RequestDoneKeeps ==
  ASSUME EditInv, NEW i \in Modals, RequestDone(i)
  PROVE  /\ EditInv'
         /\ server' = Applied(saves[i])
         /\ \A k \in Modals : k # i => saves'[k] = saves[k]
<1>1. PICK v : /\ v = saves[i] /\ IsSave(v)
               /\ v.step \in {"editTags", "associateUrl", "deleteNotes", "addNotes"}
  BY DEF EditInv, RequestDone, Editing, NoSave
<1>2. server' \in Metas /\ server' = Applied(saves[i])
  BY <1>1, AppliedDoes DEF EditInv, Metas, RequestDone
<1>3. PICK next : IsSave(next) /\ saves' = [saves EXCEPT ![i] = next]
  <2>1. PICK step : /\ saves' = [saves EXCEPT ![i].step = step]
                    /\ step = IF v.step = "deleteNotes" THEN "addNotes" ELSE "refresh"
    BY <1>1 DEF RequestDone
  <2>2. PICK next : next = [v EXCEPT !.step = step]
    OBVIOUS
  <2>3. next = [step |-> step, kind |-> v.kind, files |-> v.files, was |-> v.was, edits |-> v.edits]
    BY <1>1, <2>2 DEF IsSave
  <2>4. v.kind # "import" /\ step \in StepsOf[v.kind]
    BY <1>1, <2>1, KindFacts DEF IsSave
  <2>5. IsSave(next)
    BY <1>1, <2>3, <2>4 DEF IsSave
  <2>6. saves' = [saves EXCEPT ![i] = next]
    BY <1>1, <2>1, <2>2
  <2> QED
    BY <2>5, <2>6
<1>4. \A r \in refreshes' : IsRefresh(r)
  <2>1. IsRefresh(Refresh(i, saves[i].files))
    BY <1>1 DEF IsSave, IsRefresh, Refresh
  <2> QED
    BY <2>1 DEF EditInv, RequestDone
<1> QED
  BY <1>2, <1>3, <1>4, SaveReplaced DEF EditInv, RequestDone, Metas

LEMMA RequestFailsKeeps ==
  ASSUME EditInv, NEW i \in Modals, RequestFails(i)
  PROVE  EditInv' /\ \A k \in Modals : saves'[k].step # "refresh" \/ saves'[k] = saves[k]
<1>1. server' \in Metas
  BY AppliedDoes DEF EditInv, Metas, RequestFails, Editing, NoSave
<1>2. OnScreen(modal')
  <2>1. CASE modal' = modal
    BY <2>1 DEF EditInv
  <2>2. CASE modal.kind # "none" /\ modal' = [modal EXCEPT !.submitting = FALSE]
    <3>1. IsModal(modal)
      BY <2>2 DEF EditInv, OnScreen
    <3> QED
      BY <2>2, <3>1, ModalWith DEF OnScreen
  <2> QED
    BY <2>1, <2>2 DEF RequestFails
<1>3. NoSave.step # "refresh"
  BY DEF NoSave
<1> QED
  BY <1>1, <1>2, <1>3, SaveReplaced DEF EditInv, RequestFails, Metas

LEMMA ImportAnsweredKeeps ==
  ASSUME EditInv, NEW i \in Modals, ImportAnswered(i)
  PROVE  EditInv' /\ \A k \in Modals : saves'[k].step # "refresh" \/ saves'[k] = saves[k]
<1>1. PICK v : v = saves[i] /\ IsSave(v) /\ v.step = "addUrl"
  BY DEF EditInv, ImportAnswered, NoSave
<1>2. v.kind = "import" /\ v.edits \in [urls : SUBSET Url]
  BY <1>1, KindFacts DEF IsSave
<1>3. PICK left, e : /\ left \in SUBSET Url /\ e = [v.edits EXCEPT !.urls = left]
                     /\ \/ saves' = [saves EXCEPT ![i].edits.urls = left]
                        \/ saves' = [saves EXCEPT ![i] = NoSave]
  BY <1>1, <1>2 DEF ImportAnswered
<1>4. PICK next : next = [v EXCEPT !.edits = e]
  OBVIOUS
<1>5. next = [step |-> v.step, kind |-> v.kind, files |-> v.files, was |-> v.was, edits |-> e]
  BY <1>1, <1>4 DEF IsSave
<1>6. e \in Edits("import")
  BY <1>2, <1>3, KindFacts
<1>7. IsSave(next) /\ next.step # "refresh"
  BY <1>1, <1>2, <1>5, <1>6, KindFacts DEF IsSave
<1>8. saves' = [saves EXCEPT ![i] = next] \/ saves' = [saves EXCEPT ![i] = NoSave]
  BY <1>1, <1>3, <1>4
<1>9. OnScreen(modal')
  BY OnCloseKeeps DEF EditInv, ImportAnswered
<1>10. NoSave.step # "refresh"
  BY DEF NoSave
<1>11. CASE saves' = [saves EXCEPT ![i] = next]
  BY <1>7, <1>9, <1>11, SaveReplaced DEF EditInv, ImportAnswered
<1>12. CASE saves' = [saves EXCEPT ![i] = NoSave]
  BY <1>9, <1>10, <1>12, SaveReplaced DEF EditInv, ImportAnswered
<1> QED
  BY <1>8, <1>11, <1>12

LEMMA RefreshKeeps ==
  ASSUME EditInv, NEW r \in refreshes, RefreshServed(r) \/ RefreshTaken(r)
  PROVE  EditInv' /\ \A k \in Modals : saves'[k].step # "refresh" \/ saves'[k] = saves[k]
<1>1. CASE RefreshServed(r)
  <2>1. PICK reply : reply = GetFiles(server, r.files)
    OBVIOUS
  <2>2. reply \in [r.files -> Meta]
    BY <2>1 DEF EditInv, IsRefresh, GetFiles
  <2>3. PICK served : served = [r EXCEPT !.reply = reply]
    OBVIOUS
  <2>4. served = [by |-> r.by, files |-> r.files, reply |-> reply]
    BY <2>3 DEF EditInv, IsRefresh
  <2>5. IsRefresh(served)
    BY <2>2, <2>4 DEF EditInv, IsRefresh
  <2>6. refreshes' = (refreshes \ {r}) \cup {served}
    BY <1>1, <2>1, <2>3 DEF RefreshServed
  <2> QED
    BY <1>1, <2>5, <2>6 DEF EditInv, RefreshServed
<1>2. CASE RefreshTaken(r)
  <2>1. loaded' \in [File -> Meta]
    BY <1>2 DEF EditInv, RefreshTaken, IsRefresh
  <2>2. OnScreen(modal')
    BY <1>2, OnCloseKeeps DEF EditInv, RefreshTaken
  <2>3. NoSave.step # "refresh"
    BY DEF NoSave
  <2>4. CASE UNCHANGED saves
    BY <1>2, <2>1, <2>2, <2>4 DEF EditInv, RefreshTaken
  <2>5. CASE saves' = [saves EXCEPT ![r.by] = NoSave]
    BY <1>2, <2>1, <2>2, <2>3, <2>5, SaveReplaced DEF EditInv, RefreshTaken
  <2> QED
    BY <1>2, <2>4, <2>5 DEF RefreshTaken
<1> QED
  BY <1>1, <1>2

LEMMA InitEdits == Init => EditInv
BY StartAssumption, OpensAssumption
   DEF Init, EditInv, OnScreen, NoSave, Modals

\* Only the answer to its request brings a save to its refresh.
LEMMA NextEdits ==
  ASSUME EditInv, [Next]_vars
  PROVE  /\ EditInv'
         /\ \A i \in Modals : AppliedNow(i) => server' = Applied(saves[i])
<1>1. ASSUME \A k \in Modals : saves'[k].step # "refresh" \/ saves'[k] = saves[k]
      PROVE  \A i \in Modals : AppliedNow(i) => server' = Applied(saves[i])
  BY <1>1 DEF AppliedNow, Editing
<1>2. CASE UNCHANGED vars
  BY <1>1, <1>2 DEF vars, EditInv
<1>3. CASE HandleSubmit
  BY <1>1, <1>3, SubmitKeeps
<1>4. CASE UserStep /\ ~HandleSubmit
  <2>1. UNCHANGED saves
    BY <1>4 DEF UserStep, Open, HandleClose, Discard, EditTags, EditUrls, EditNotes, EditImport, Edit
  <2>2. EditInv'
    BY <1>4, OpenKeeps, CloseKeeps, EditTagsKeeps, EditUrlsKeeps, EditNotesKeeps, EditImportKeeps
    DEF UserStep
  <2> QED
    BY <1>1, <2>1, <2>2
<1>5. ASSUME NEW i \in Modals, RequestDone(i)
      PROVE  EditInv' /\ \A k \in Modals : AppliedNow(k) => server' = Applied(saves[k])
  BY <1>5, RequestDoneKeeps DEF AppliedNow, Editing
<1>6. ASSUME NEW i \in Modals, RequestFails(i) \/ ImportAnswered(i)
      PROVE  EditInv' /\ \A k \in Modals : AppliedNow(k) => server' = Applied(saves[k])
  BY <1>1, <1>6, RequestFailsKeeps, ImportAnsweredKeeps
<1>7. ASSUME NEW r \in refreshes, RefreshServed(r) \/ RefreshTaken(r)
      PROVE  EditInv' /\ \A k \in Modals : AppliedNow(k) => server' = Applied(saves[k])
  BY <1>1, <1>7, RefreshKeeps
<1> QED
  BY <1>2, <1>3, <1>4, <1>5, <1>6, <1>7 DEF Next, Answers

----------------------------------------------------------------------------
(* The jobs that change the files or a modal.                              *)

\* What a job that runs writes with: a service, and files and tags that are
\* some.
Working(job) ==
  /\ "step" \in DOMAIN job
  /\ job.step \in Running =>
       /\ {"kind", "service"} \subseteq DOMAIN job /\ job.service \in Service
       /\ job.kind = "batch" => "left" \in DOMAIN job /\ job.left \subseteq File
       /\ job.step # "edit" => {"file", "toAdd"} \cap DOMAIN job = {}
  /\ job.step = "edit" =>
       /\ {"file", "toAdd"} \subseteq DOMAIN job /\ job.kind = "batch"
       /\ job.file \in File /\ job.toAdd \subseteq Tag

JobsInv ==
  /\ jobs = [j \in Jobs |-> jobs[j]]
  /\ \A j \in Jobs : Working(jobs[j])

AutotagInv == EditInv /\ JobsInv

LEMMA OneWorks ==
  ASSUME JobsInv, NEW j \in Jobs, NEW job, Set(j, job), Working(job)
  PROVE  JobsInv'
<1>1. \A k \in Jobs : jobs'[k] = IF k = j THEN job ELSE jobs[k]
  BY DEF JobsInv, Set
<1>2. jobs' = [k \in Jobs |-> jobs'[k]]
  BY DEF JobsInv, Set
<1>3. \A k \in Jobs : Working(jobs'[k])
  BY <1>1 DEF JobsInv
<1> QED
  BY <1>2, <1>3 DEF JobsInv, Working

LEMMA EndedWorks ==
  ASSUME NEW job
  PROVE  Working(Ended(job)) /\ Working(LoadFailed(job))
BY DEF Working, Ended, LoadFailed, Running

\* A job that goes on keeps its kind, its service and files it has left.
LEMMA GoesOn ==
  ASSUME NEW job, Working(job), job.step \in Running, NEW next,
         {"step", "kind", "service"} \subseteq DOMAIN next, next.step # "edit",
         {"file", "toAdd"} \cap DOMAIN next = {},
         next.kind = job.kind, next.service = job.service,
         job.kind = "batch" => "left" \in DOMAIN next /\ next.left \subseteq job.left
  PROVE  Working(next)
BY DEF Working

LEMMA NextFileWorks ==
  ASSUME NEW job, Working(job), job.step \in Running, NEW next,
         {"step", "kind", "service"} \subseteq DOMAIN next,
         {"file", "toAdd"} \cap DOMAIN next = {},
         next.kind = job.kind, next.service = job.service,
         job.kind = "batch" => "left" \in DOMAIN next /\ next.left \subseteq job.left
  PROVE  Working(NextFile(next))
<1>1. PICK on : on = [next EXCEPT !.step = "process"]
  OBVIOUS
<1>2. /\ DOMAIN on = DOMAIN next /\ on.step = "process"
      /\ on.kind = next.kind /\ on.service = next.service
      /\ "left" \in DOMAIN next => on.left = next.left
  BY <1>1
<1>3. Working(on)
  BY <1>2, GoesOn
<1> QED
  BY <1>1, <1>3, EndedWorks DEF NextFile

\* A new job is of a service, and the files of a batch are those of its modal.
LEMMA StartWorks ==
  ASSUME AutotagInv, StartBatch \/ StartAutotag
  PROVE  JobsInv'
<1>1. PICK job :
        /\ {"kind", "service"} \subseteq DOMAIN job /\ "step" \notin DOMAIN job
        /\ job.service \in Service
        /\ job.kind = "batch" => "left" \in DOMAIN job /\ job.left \subseteq File
        /\ {"file", "toAdd"} \cap DOMAIN job = {}
        /\ StartJob(job)
  <2>1. CASE StartBatch
    <3>1. modal.files \subseteq File
      BY <2>1 DEF StartBatch, AutotagInv, EditInv, OnScreen, IsModal
    <3>2. PICK s \in Service :
            StartJob([kind |-> "batch", service |-> s, left |-> modal.files, was |-> modal.was])
      BY <2>1 DEF StartBatch
    <3> QED
      BY <3>1, <3>2
  <2>2. CASE StartAutotag
    BY <2>2 DEF StartAutotag
  <2> QED
    BY <2>1, <2>2
<1>2. PICK j \in Jobs : \E m, next :
        /\ Set(j, next)
        /\ next = With(job, [step |-> "load", model |-> m, toast |-> TRUE, worker |-> FALSE,
                             cancelled |-> FALSE])
  BY <1>1 DEF StartJob
<1>6. PICK m, next :
        /\ Set(j, next)
        /\ next = With(job, [step |-> "load", model |-> m, toast |-> TRUE, worker |-> FALSE,
                             cancelled |-> FALSE])
  BY <1>2
<1>3. /\ {"step", "kind", "service"} \subseteq DOMAIN next /\ next.step = "load"
      /\ next.kind = job.kind /\ next.service = job.service
      /\ "left" \in DOMAIN job => "left" \in DOMAIN next /\ next.left = job.left
      /\ {"file", "toAdd"} \cap DOMAIN next = {}
  BY <1>1, <1>6 DEF With
<1>4. Working(next)
  BY <1>1, <1>3 DEF Working
<1> QED
  BY <1>6, <1>4, OneWorks DEF AutotagInv

LEMMA LoadWorks ==
  ASSUME JobsInv, NEW j \in Jobs, Load(j) \/ Downloaded(j) \/ Loaded(j) \/ JobFails(j) \/ Cancel(j)
  PROVE  JobsInv'
<1> DEFINE job == jobs[j]
<1>1. /\ Working(job) /\ job.step \in Running
      /\ {"step", "kind", "service"} \subseteq DOMAIN job
      /\ job.kind = "batch" => "left" \in DOMAIN job /\ job.left \subseteq job.left
  BY DEF JobsInv, Working, Running, Load, Downloaded, Loaded, JobFails, Cancel
<1>0. Load(j) \/ Downloaded(j) \/ Loaded(j) => {"file", "toAdd"} \cap DOMAIN job = {}
  BY DEF JobsInv, Working, Running, Load, Downloaded, Loaded
<1> HIDE DEF job
<1>2. CASE Set(j, LoadFailed(job)) \/ Set(j, Ended(job))
  BY <1>2, EndedWorks, OneWorks
<1>3. ASSUME {"file", "toAdd"} \cap DOMAIN job = {},
             NEW step, step # "edit", Set(j, [job EXCEPT !.step = step])
      PROVE  JobsInv'
  <2>1. PICK next : next = [job EXCEPT !.step = step]
    OBVIOUS
  <2>2. /\ DOMAIN next = DOMAIN job /\ next.step = step
        /\ next.kind = job.kind /\ next.service = job.service
        /\ "left" \in DOMAIN job => next.left = job.left
    BY <1>1, <2>1
  <2> QED
    BY <1>1, <1>3, <2>1, <2>2, GoesOn, OneWorks
<1>4. CASE /\ {"file", "toAdd"} \cap DOMAIN job = {}
           /\ Set(j, [job EXCEPT !.step = "loading", !.worker = TRUE])
  <2>1. PICK loading : loading = [job EXCEPT !.step = "loading"]
    OBVIOUS
  <2>2. PICK next : next = [loading EXCEPT !.worker = TRUE]
    OBVIOUS
  <2>3. /\ DOMAIN next = DOMAIN job /\ next.step = "loading"
        /\ next.kind = job.kind /\ next.service = job.service
        /\ "left" \in DOMAIN job => next.left = job.left
    BY <1>1, <2>1, <2>2
  <2> QED
    BY <1>1, <1>4, <2>1, <2>2, <2>3, GoesOn, OneWorks
<1>5. CASE {"file", "toAdd"} \cap DOMAIN job = {} /\ Set(j, NextFile(job))
  BY <1>1, <1>5, NextFileWorks, OneWorks
<1>6. CASE Cancel(j)
  <2>1. PICK next : next = [job EXCEPT !.cancelled = TRUE] /\ Set(j, next)
    BY <1>6 DEF Cancel, job
  <2>2. /\ DOMAIN next = DOMAIN job /\ next.step = job.step
        /\ next.kind = job.kind /\ next.service = job.service
        /\ "left" \in DOMAIN job => next.left = job.left
        /\ "file" \in DOMAIN job => next.file = job.file
        /\ "toAdd" \in DOMAIN job => next.toAdd = job.toAdd
    BY <1>1, <2>1
  <2>3. Working(next)
    BY <1>1, <2>2 DEF Working
  <2> QED
    BY <2>1, <2>3, OneWorks
<1>7. CASE Load(j)
  BY <1>0, <1>2, <1>3, <1>4, <1>7 DEF Load, job
<1> QED
  BY <1>0, <1>2, <1>3, <1>4, <1>5, <1>6, <1>7 DEF Downloaded, Loaded, JobFails, job

LEMMA ProcessedWorks ==
  ASSUME JobsInv, NEW j \in Jobs, Processed(j)
  PROVE  JobsInv'
<1> DEFINE job == jobs[j]
<1>1. /\ Working(job) /\ job.step \in Running /\ job.kind = "batch"
      /\ {"step", "kind", "service", "left"} \subseteq DOMAIN job
      /\ job.left \subseteq File /\ job.service \in Service
      /\ {"file", "toAdd"} \cap DOMAIN job = {}
  BY DEF JobsInv, Working, Running, Processed
<1>2. PICK f \in job.left, found \in Found : \E rest, toAdd :
        /\ rest = [job EXCEPT !.left = @ \ {f}] /\ toAdd = TagsToAdd(job, f, found)
        /\ IF job.cancelled \/ toAdd = {} THEN Set(j, NextFile(rest))
           ELSE Set(j, With([rest EXCEPT !.step = "edit"], [file |-> f, toAdd |-> toAdd]))
  BY DEF Processed
<1>7. PICK rest, toAdd :
        /\ rest = [job EXCEPT !.left = @ \ {f}] /\ toAdd = TagsToAdd(job, f, found)
        /\ IF job.cancelled \/ toAdd = {} THEN Set(j, NextFile(rest))
           ELSE Set(j, With([rest EXCEPT !.step = "edit"], [file |-> f, toAdd |-> toAdd]))
  BY <1>2
<1>3. toAdd \subseteq Tag
  BY <1>7 DEF TagsToAdd, Found
<1> HIDE DEF job
<1>4. /\ DOMAIN rest = DOMAIN job /\ rest.kind = job.kind /\ rest.service = job.service
      /\ rest.left \subseteq job.left
  BY <1>1, <1>7
<1>5. CASE Set(j, NextFile(rest))
  BY <1>1, <1>4, <1>5, NextFileWorks, OneWorks
<1>6. CASE Set(j, With([rest EXCEPT !.step = "edit"], [file |-> f, toAdd |-> toAdd]))
  <2>1. PICK edit : edit = [rest EXCEPT !.step = "edit"]
    OBVIOUS
  <2>2. PICK next : next = With(edit, [file |-> f, toAdd |-> toAdd])
    OBVIOUS
  <2>3. /\ DOMAIN edit = DOMAIN job /\ edit.step = "edit"
        /\ edit.kind = job.kind /\ edit.service = job.service /\ edit.left \subseteq job.left
    BY <1>1, <1>4, <2>1
  <2>4. /\ {"step", "kind", "service", "left", "file", "toAdd"} \subseteq DOMAIN next
        /\ next.step = "edit" /\ next.kind = "batch" /\ next.service \in Service
        /\ next.left \subseteq File
        /\ next.file = f /\ next.toAdd = toAdd
    BY <1>1, <2>2, <2>3 DEF With
  <2> QED
    BY <1>1, <1>3, <1>6, <2>1, <2>2, <2>4, OneWorks DEF Working
<1> QED
  BY <1>7, <1>5, <1>6

LEMMA BatchEditedWorks ==
  ASSUME AutotagInv, NEW j \in Jobs, BatchEdited(j)
  PROVE  EditInv' /\ JobsInv' /\ UNCHANGED saves
<1> DEFINE job == jobs[j]
<1>1. /\ Working(job) /\ job.step = "edit" /\ job.step \in Running /\ job.kind = "batch"
      /\ {"step", "kind", "service", "left", "file", "toAdd"} \subseteq DOMAIN job
      /\ job.left \subseteq File /\ job.service \in Service
      /\ job.file \in File /\ job.toAdd \subseteq Tag
  BY DEF AutotagInv, JobsInv, Working, Running, BatchEdited
<1> HIDE DEF job
<1>2. JobsInv'
  <2>1. PICK next : /\ next = [f \in DOMAIN job \ {"file", "toAdd"} |-> job[f]]
                    /\ Set(j, NextFile(next))
    BY DEF BatchEdited, job
  <2>2. /\ {"step", "kind", "service", "left"} \subseteq DOMAIN next
        /\ {"file", "toAdd"} \cap DOMAIN next = {}
        /\ next.kind = job.kind /\ next.service = job.service /\ next.left \subseteq job.left
    BY <1>1, <2>1
  <2> QED
    BY <1>1, <2>1, <2>2, NextFileWorks, OneWorks DEF AutotagInv
<1>3. server' \in Metas
  <2>1. PICK adds, removes :
          /\ adds = Only(job.service, job.toAdd) /\ removes = Only(job.service, {})
          /\ server' = AddTags(server, {job.file}, adds, removes)
    BY DEF BatchEdited, job
  <2>2. adds \in TagSets /\ removes \in TagSets
    BY <1>1, <2>1 DEF Only, TagSets
  <2>3. {job.file} \in SUBSET File /\ server \in Metas
    BY <1>1 DEF AutotagInv, EditInv, Metas
  <2> QED
    BY <2>1, <2>2, <2>3, AddTagsDoes
<1>4. \A r \in refreshes' : IsRefresh(r)
  <2>1. IsRefresh(Refresh(0, {job.file}))
    BY <1>1 DEF IsRefresh, Refresh
  <2> QED
    BY <2>1 DEF AutotagInv, EditInv, BatchEdited, job
<1> QED
  BY <1>2, <1>3, <1>4 DEF AutotagInv, EditInv, BatchEdited, Metas

\* A finite set is listed by a sequence of its elements.
LEMMA SetToSeqIs ==
  ASSUME NEW S, IsFiniteSet(S)
  PROVE  SetToSeq(S) \in Seq(S)
<1> DEFINE n == Cardinality(S)
<1>1. n \in Nat /\ ExistsBijection(1 .. n, S)
  BY FS_CardinalityType
<1>2. PICK g : g \in Bijection(1 .. n, S)
  BY <1>1 DEF ExistsBijection
<1>3. g \in [1 .. n -> S] /\ IsInjective(g)
  BY <1>2 DEF Bijection, Injection, IsInjective
<1>4. SetToSeq(S) \in [1 .. n -> S]
  BY <1>3 DEF SetToSeq
<1> QED
  BY <1>1, <1>4

\* What the tab adds to the changes leaves one change at most of each tag:
\* every tag is added as a click on it would.
LEMMA AutotaggedKeeps ==
  ASSUME NEW job, job.service \in Service, NEW found \in Found,
         NEW pending \in Seq(Change), Once(pending)
  PROVE  Autotagged(job, pending, found) \in Seq(Change) /\ Once(Autotagged(job, pending, found))
<1> DEFINE new == TagsToMark(job, found)
           n == Len(new)
           T == {p \in Seq(Change) : Once(p)}
           Add(p, k) == HandleAddTag(p, new[k], job.service)
           step == [k \in 1 .. n |-> [p \in T |-> Add(p, k)]]
           Does(g) == g = [k \in 0 .. n |-> IF k = 0 THEN pending ELSE Add(g[k - 1], k)]
<1>1. new \in Seq(Tag) /\ n \in Nat /\ \A k \in 1 .. n : new[k] \in Tag
  <2>1. PICK S : S = {t \in found \ job.full : t \in Rating => ~job.rated}
    OBVIOUS
  <2>2. S \subseteq Tag /\ IsFiniteSet(S)
    BY <2>1, FS_Subset DEF Found
  <2>3. new \in Seq(S)
    BY <2>1, <2>2, SetToSeqIs DEF TagsToMark
  <2> HIDE DEF new
  <2> QED
    BY <2>2, <2>3
<1>2. ASSUME NEW k \in 1 .. n, NEW p \in T
      PROVE  Add(p, k) \in T
  <2>1. "ADD" \in Actions
    BY DEF Actions
  <2> HIDE DEF new
  <2> QED
    BY <1>1, <1>2, <2>1, ToggleKeepsOnce DEF HandleAddTag
<1> HIDE DEF new
<1>3. step \in [1 .. n -> [T -> T]] /\ \A k \in 1 .. n, p \in T : step[k][p] = Add(p, k)
  <2> HIDE DEF T, n, Add
  <2> QED
    BY <1>2
<1> HIDE DEF n, T, step, Add
<1>4. PICK g : Iterates(g, n, T, pending, step)
  <2>1. pending \in T
    BY DEF T
  <2> QED
    BY <1>1, <1>3, <2>1, Recursion
<1>5. \A k \in 0 .. n : k # 0 => k \in 1 .. n /\ k - 1 \in 0 .. n
  BY <1>1
<1>6. \A k \in 1 .. n : g[k - 1] \in T /\ g[k] = Add(g[k - 1], k)
  BY <1>1, <1>3, <1>4, <1>5 DEF Iterates
<1>7. \E h : Does(h)
  <2>1. g = [k \in 0 .. n |-> IF k = 0 THEN pending ELSE Add(g[k - 1], k)]
    BY <1>4, <1>5, <1>6 DEF Iterates
  <2> QED
    BY <2>1
<1> DEFINE h == CHOOSE x : Does(x)
<1>8. Autotagged(job, pending, found) = h[n]
  BY DEF Autotagged, Add, n, new
<1>9. Does(h)
  BY <1>7
<1> DEFINE Good == {k \in 0 .. n : h[k] \in T}
<1> HIDE DEF h
<1>10. h[0] = pending /\ \A k \in 1 .. n : h[k] = Add(h[k - 1], k)
  BY <1>1, <1>9
<1>11. ASSUME NEW k \in 0 .. n - 1, k \in Good
       PROVE  k + 1 \in Good
  <2>1. h[k] \in T /\ k + 1 \in 1 .. n /\ k + 1 \in 0 .. n /\ (k + 1) - 1 = k
    BY <1>1, <1>11
  <2>2. h[k + 1] = Add(h[k], k + 1)
    BY <1>10, <2>1
  <2> QED
    BY <1>2, <2>1, <2>2
<1>12. 0 \in Good
  BY <1>1, <1>10 DEF T
<1>13. n \in Good
  <2> HIDE DEF Good
  <2>1. 0 .. n \subseteq Good
    BY <1>1, <1>11, <1>12, UpTo
  <2> QED
    BY <1>1, <2>1
<1> QED
  BY <1>8, <1>13 DEF T

LEMMA AutotagDoneWorks ==
  ASSUME AutotagInv, NEW j \in Jobs, AutotagDone(j)
  PROVE  EditInv' /\ JobsInv' /\ UNCHANGED saves
<1> DEFINE job == jobs[j]
<1>1. job.service \in Service
  BY DEF AutotagInv, JobsInv, Working, Running, AutotagDone
<1>2. JobsInv'
  BY EndedWorks, OneWorks DEF AutotagInv, AutotagDone
<1> HIDE DEF job
<1>3. OnScreen(modal')
  <2>1. PICK found \in Found :
          modal' = IF modal.kind = "tags" /\ modal.number = job.number
                   THEN [modal EXCEPT !.edits.pending = Autotagged(job, @, found)]
                   ELSE modal
    BY DEF AutotagDone, job
  <2>2. CASE ~(modal.kind = "tags" /\ modal.number = job.number)
    BY <2>1, <2>2 DEF AutotagInv, EditInv
  <2>3. CASE modal.kind = "tags" /\ modal.number = job.number
    <3>1. IsModal(modal)
      BY <2>3 DEF AutotagInv, EditInv, OnScreen
    <3>2. modal.edits \in [pending : Seq(Change)] /\ Once(modal.edits.pending)
      BY <2>3, <3>1, KindFacts DEF IsModal
    <3>3. PICK next : /\ next = Autotagged(job, modal.edits.pending, found)
                      /\ next \in Seq(Change) /\ Once(next)
      BY <1>1, <3>2, AutotaggedKeeps
    <3>4. [pending |-> next] \in Edits("tags") /\ Consistent("tags", [pending |-> next])
      BY <3>3, KindFacts
    <3>5. [modal.edits EXCEPT !.pending = next] = [pending |-> next]
      BY <3>2
    <3>6. modal' = [modal EXCEPT !.edits = [pending |-> next]]
      BY <2>1, <2>3, <3>1, <3>3, <3>5 DEF IsModal
    <3> QED
      BY <2>3, <3>1, <3>4, <3>6, ModalWith DEF OnScreen
  <2> QED
    BY <2>2, <2>3
<1> QED
  BY <1>2, <1>3, ScreenOnly DEF AutotagInv, AutotagDone

LEMMA InitAutotags == AutotagInit => AutotagInv
BY InitEdits DEF AutotagInit, AutotagInv, JobsInv, NoJob, Working, Running

\* With the jobs too, only the answer to its request brings a save to its
\* refresh.
LEMMA NextAutotags ==
  ASSUME AutotagInv, [AutotagNext]_allVars
  PROVE  /\ AutotagInv'
         /\ \A i \in Modals : AppliedNow(i) => server' = Applied(saves[i])
<1>1. UNCHANGED saves => \A i \in Modals : ~AppliedNow(i)
  BY DEF AppliedNow, Editing
<1>2. CASE [Next]_vars /\ UNCHANGED jobs
  BY <1>2, NextEdits DEF AutotagInv, JobsInv, Working
<1>3. CASE StartBatch \/ StartAutotag
  <2>1. UNCHANGED vars
    BY <1>3 DEF StartBatch, StartAutotag
  <2> QED
    BY <1>3, <2>1, NextEdits, StartWorks DEF AutotagInv
<1>4. ASSUME NEW j \in Jobs, Load(j) \/ Downloaded(j) \/ Loaded(j) \/ JobFails(j) \/ Cancel(j)
      PROVE  AutotagInv' /\ UNCHANGED saves
  <2>1. UNCHANGED <<server, loaded, saves, refreshes>>
    BY <1>4 DEF Load, Downloaded, Loaded, JobFails, Cancel, vars
  <2>2. OnScreen(modal')
    BY <1>4, OnCloseKeeps DEF Load, Downloaded, Loaded, JobFails, Cancel, vars, AutotagInv, EditInv
  <2> QED
    BY <1>4, <2>1, <2>2, ScreenOnly, LoadWorks DEF AutotagInv
<1>5. ASSUME NEW j \in Jobs, Processed(j)
      PROVE  AutotagInv' /\ UNCHANGED saves
  <2>1. UNCHANGED vars
    BY <1>5 DEF Processed
  <2> QED
    BY <1>5, <2>1, NextEdits, ProcessedWorks DEF AutotagInv, vars
<1>6. ASSUME NEW j \in Jobs, BatchEdited(j) \/ AutotagDone(j)
      PROVE  AutotagInv' /\ UNCHANGED saves
  BY <1>6, BatchEditedWorks, AutotagDoneWorks DEF AutotagInv
<1> QED
  BY <1>1, <1>2, <1>3, <1>4, <1>5, <1>6
  DEF AutotagNext, JobAnswers, SettingsStart, SettingsReopened, SettingsEnd, allVars, vars

\* What a save does to the tags and the URLs of every file is what the modal
\* marked when it was pressed, the tags a model has found among them, however
\* many modals have been opened, closed and changed since, and whatever other
\* saves and jobs are under way
\* (EditTagsModal.tsx:322-364, EditUrlsModal.tsx:135-164).
THEOREM ModalsSaveAsShown == AutotagSpec => SavedAsShown
<1>1. AutotagInv /\ [AutotagNext]_allVars => AutotagInv'
  BY NextAutotags
<1>2. AutotagInv /\ [AutotagNext]_allVars =>
        [\A i \in Modals : AppliedNow(i) =>
          \A f \in saves[i].files :
            /\ saves[i].kind = "tags" => \A s \in Service, t \in Tag :
                 AsMarked(TagStatus(saves[i], s, t), t \in server[f].tags[s],
                          t \in server'[f].tags[s])
            /\ saves[i].kind = "urls" => \A u \in Url :
                 AsMarked(UrlStatus(saves[i], u), u \in server[f].urls, u \in server'[f].urls)]_vars
  <2> SUFFICES ASSUME AutotagInv, [AutotagNext]_allVars, NEW i \in Modals, AppliedNow(i),
                      NEW f \in saves[i].files
               PROVE  /\ saves[i].kind = "tags" => \A s \in Service, t \in Tag :
                           AsMarked(TagStatus(saves[i], s, t), t \in server[f].tags[s],
                                    t \in server'[f].tags[s])
                      /\ saves[i].kind = "urls" => \A u \in Url :
                           AsMarked(UrlStatus(saves[i], u), u \in server[f].urls,
                                    u \in server'[f].urls)
    OBVIOUS
  <2>1. PICK v : /\ v = saves[i] /\ IsSave(v)
                 /\ v.step \in {"editTags", "associateUrl", "deleteNotes", "addNotes"}
    BY DEF AutotagInv, EditInv, AppliedNow, Editing, NoSave
  <2>2. server' = Applied(v) /\ server \in Metas
    BY <2>1, NextAutotags DEF AutotagInv, EditInv, Metas
  <2>3. CASE v.kind = "tags"
    <3>1. ASSUME NEW s \in Service, NEW t \in Tag
          PROVE  AsMarked(TagStatus(v, s, t), t \in server[f].tags[s], t \in Applied(v)[f].tags[s])
      BY <2>1, <2>2, <2>3, AppliedDoes
    <3> QED
      BY <2>1, <2>2, <2>3, <3>1
  <2>4. CASE v.kind = "urls"
    <3>1. ASSUME NEW u \in Url
          PROVE  AsMarked(UrlStatus(v, u), u \in server[f].urls, u \in Applied(v)[f].urls)
      BY <2>1, <2>2, <2>4, AppliedDoes
    <3> QED
      BY <2>1, <2>2, <2>4, <3>1
  <2> QED
    BY <2>1, <2>3, <2>4
<1> QED
  BY <1>1, <1>2, InitAutotags, PTL DEF AutotagSpec, SavedAsShown
===============================================================================
