------------------------------- MODULE Autotag -------------------------------
(***************************************************************************)
(* Tagging by a model: the store of the models (store/modelMetaStore.ts),  *)
(* the page of the settings that manages them (SettingsModal.tsx,          *)
(* ModelsManager), the worker that runs one (utils/autotag) and the two    *)
(* users of it, composed with the modals of EditModals: the background job *)
(* of BatchAutoTagModal, which edits the files on the server, and the      *)
(* Autotag tab of EditTagsModal, which changes the modal.                  *)
(*                                                                         *)
(* Decoding an image and running the model on it are one step: nothing is  *)
(* tested or changed between them.  The files of a model are left out:     *)
(* whether its entry says that they are there is what the code tests.      *)
(***************************************************************************)
EXTENDS EditModals

CONSTANTS
  Model,           \* names of models
  InitialModels,   \* those the store starts with and is reset to
  Rating,          \* the tags of namespace "rating"
  MaxJobs,         \* bound: jobs started
  MaxSettings      \* bound: operations started in the settings

ASSUME ModelAssumption == InitialModels \subseteq Model /\ Rating \subseteq Tag
ASSUME JobsAssumption == MaxJobs \in Nat \ {0} /\ MaxSettings \in Nat

VARIABLES
  models,     \* tagModels: "known" by its URL, "cached" with its files too,
              \* "local" with files and no URL, "none"
  names,      \* tagModelNames: what the lists offer
  settings,   \* the operations of ModelsManager and AddTagModelModal, and
              \* the one for which the mounted ModelsManager isLoading, 0 if none
  jobs        \* the jobs that run a model

storeVars == <<models, names, settings>>
allVars == <<vars, storeVars, jobs>>

Jobs == 1..MaxJobs
NoJob == [step |-> "none"]
Operations == 1..MaxSettings
NoOperation == [op |-> "none"]

InitialEntries == [m \in Model |-> IF m \in InitialModels THEN "known" ELSE "none"]

AutotagInit ==
  /\ Init
  /\ models = InitialEntries
  /\ names = InitialModels
  /\ settings = [ops |-> [i \in Operations |-> NoOperation], loading |-> 0]
  /\ jobs = [j \in Jobs |-> NoJob]

----------------------------------------------------------------------------
(* The store, as the settings use it: the entry is read, files are fetched *)
(* or deleted, and then the entry is written, whatever has become of it in *)
(* between.                                                                *)

\* A button is pressed that isLoading does not disable. It is state of one
\* mount, and installing by URL sets that of AddTagModelModal instead, which
\* Escape closes at any time.
SettingsStart(op, m) ==
  /\ settings.loading = 0
  /\ CASE op = "clear"     -> m \in names /\ models[m] = "cached"
       [] op = "download"  -> m \in names /\ models[m] = "known"
       [] op = "uninstall" -> m \in names
       [] OTHER            -> TRUE
  /\ \E i \in Operations :
       /\ settings.ops[i].op = "none" /\ \A k \in 1..(i - 1) : settings.ops[k].op # "none"
       /\ settings' = [ops |-> [settings.ops EXCEPT ![i] = [op |-> op, model |-> m]],
                       loading |-> IF op = "fromUrl" THEN 0 ELSE i]
  /\ UNCHANGED <<vars, models, names, jobs>>

\* The settings are closed, or another tab is chosen, and the models shown
\* again: a new mount, while the operation goes on.
SettingsReopened ==
  /\ settings.loading # 0
  /\ settings' = [settings EXCEPT !.loading = 0]
  /\ UNCHANGED <<vars, models, names, jobs>>

AddTagModel(m, entry) == models' = [models EXCEPT ![m] = entry] /\ names' = names \cup {m}

ClearInstalledFiles(m) == models' = [models EXCEPT ![m] = "known"] /\ UNCHANGED names

\* An uninstall that leaves the name in the list.
UninstallKeepsName(m) == models' = [models EXCEPT ![m] = "none"] /\ UNCHANGED names

UninstallTagModel(m) == models' = [models EXCEPT ![m] = "none"] /\ names' = names \ {m}

ResetTagModels == models' = InitialEntries /\ names' = InitialModels

\* downloadTagModel writes the entry of a model it knew when it began.
DownloadTagModel(m) == models' = [models EXCEPT ![m] = "cached"] /\ UNCHANGED names

\* What an operation writes.
Written(op, m) ==
  \/ op = "clear" /\ ClearInstalledFiles(m)
  \/ op = "download" /\ DownloadTagModel(m)
  \/ op = "uninstall" /\ UninstallTagModel(m)
  \/ op = "reset" /\ ResetTagModels
  \/ op = "fromUrl" /\ AddTagModel(m, "known")
  \/ op = "fromBlob" /\ AddTagModel(m, "local")

\* Each of them may throw before it writes; the finally is for the mount that
\* the operation was started in.
SettingsEnd(i) ==
  /\ settings.ops[i].op \notin {"none", "ended"}
  /\ Written(settings.ops[i].op, settings.ops[i].model) \/ UNCHANGED <<models, names>>
  /\ settings' = [ops |-> [settings.ops EXCEPT ![i] = [op |-> "ended"]],
                  loading |-> IF settings.loading = i THEN 0 ELSE settings.loading]
  /\ UNCHANGED <<vars, jobs>>

----------------------------------------------------------------------------
(* Jobs: a model is loaded, its worker runs, the worker is released.       *)

\* Those that wait for an answer, and the two ways to end: "failed" when no
\* model could be loaded, "done" otherwise.
Running == {"load", "download", "loading", "process", "edit"}

Set(j, job) == jobs' = [jobs EXCEPT ![j] = job]

\* A job with further fields.
With(job, more) ==
  [x \in DOMAIN job \cup DOMAIN more |-> IF x \in DOMAIN job THEN job[x] ELSE more[x]]

StartJob(job) ==
  \E j \in Jobs :
    /\ jobs[j].step = "none" /\ \A k \in 1..(j - 1) : jobs[k].step # "none"
    /\ \E m \in names \cup {x \in Model : names = {}} :
         Set(j, With(job, [step |-> "load", model |-> m, toast |-> TRUE, worker |-> FALSE,
                           cancelled |-> FALSE]))

\* Process, in the modal of a batch. It can be pressed again until the model
\* is loaded.
StartBatch ==
  /\ modal.kind = "batch"
  /\ \E s \in Service :
       StartJob([kind |-> "batch", service |-> s, left |-> modal.files, was |-> modal.was])
  /\ UNCHANGED <<vars, storeVars>>

\* Process, in EditTagsModal. The callback keeps the service and the counts
\* it was drawn with.
StartAutotag ==
  /\ modal.kind = "tags" /\ ~modal.discard
  /\ \E s \in Service :
       LET full == {t \in Tag : TagCount(modal, s, t) = Cardinality(modal.files)}
           listed == {t \in Tag : InitialTagCount(modal, s, t) > 0 \/ t \in full}
       IN  StartJob([kind |-> "modal", service |-> s, number |-> modal.number,
                     full |-> full, rated |-> listed \cap Rating # {}])
  /\ UNCHANGED <<vars, storeVars>>

\* An end that keeps the worker.
EndedUnreleased(job) == [step |-> "done", toast |-> FALSE, worker |-> job.worker]

\* The finally blocks: the toast goes, and a worker that was loaded.
Ended(job) == [step |-> "done", toast |-> FALSE, worker |-> FALSE]

\* loadTagModel throws: the toast goes, the worker was never handed out.
LoadFailed(job) == [step |-> "failed", toast |-> FALSE, worker |-> job.worker]

\* loadTagModel looks the model up.
Load(j) ==
  /\ jobs[j].step = "load"
  /\ \/ models[jobs[j].model] = "none" /\ Set(j, LoadFailed(jobs[j]))
     \/ models[jobs[j].model] = "known" /\ Set(j, [jobs[j] EXCEPT !.step = "download"])
     \/ /\ models[jobs[j].model] \in {"cached", "local"}
        /\ Set(j, [jobs[j] EXCEPT !.step = "loading", !.worker = TRUE])
  /\ UNCHANGED <<vars, storeVars>>

Downloaded(j) ==
  /\ jobs[j].step = "download"
  /\ \/ /\ DownloadTagModel(jobs[j].model)
        /\ Set(j, [jobs[j] EXCEPT !.step = "loading", !.worker = TRUE])
     \/ Set(j, LoadFailed(jobs[j])) /\ UNCHANGED <<models, names>>
  /\ UNCHANGED <<vars, settings>>

\* The next file of a batch, unless it has been cancelled.
NextFile(job) ==
  IF job.cancelled \/ job.left = {} THEN Ended(job) ELSE [job EXCEPT !.step = "process"]

\* The worker has loaded the model; the batch closes its modal and begins.
Loaded(j) ==
  /\ jobs[j].step = "loading"
  /\ \/ Set(j, LoadFailed(jobs[j])) /\ UNCHANGED modal
     \/ /\ jobs[j].kind = "batch"
        /\ OnClose("batch") /\ Set(j, NextFile(jobs[j]))
     \/ /\ jobs[j].kind = "modal"
        /\ Set(j, [jobs[j] EXCEPT !.step = "process"]) /\ UNCHANGED modal
  /\ UNCHANGED <<server, loaded, saves, refreshes, storeVars>>

\* The tags a model finds in a picture: at most one of them a rating.
Found == {found \in SUBSET Tag : IsFiniteSet(found) /\ Cardinality(found \cap Rating) <= 1}

TagsToAdd(job, f, found) ==
  LET existing == job.was[f].tags[job.service]
  IN  {t \in found \ existing : t \in Rating => existing \cap Rating = {}}

\* The batch looks at the cancellation between files only.
ProcessedBlindly(j) ==
  /\ jobs[j].step = "process" /\ jobs[j].kind = "batch"
  /\ \E f \in jobs[j].left, found \in Found :
       LET toAdd == TagsToAdd(jobs[j], f, found)
           rest == [jobs[j] EXCEPT !.left = @ \ {f}]
       IN  IF toAdd = {} THEN Set(j, NextFile(rest))
           ELSE Set(j, With([rest EXCEPT !.step = "edit"], [file |-> f, toAdd |-> toAdd]))
  /\ UNCHANGED <<vars, storeVars>>

\* A batch goes through its files in an order that nothing depends on.
Processed(j) ==
  /\ jobs[j].step = "process" /\ jobs[j].kind = "batch"
  /\ \E f \in jobs[j].left, found \in Found :
       LET toAdd == TagsToAdd(jobs[j], f, found)
           rest == [jobs[j] EXCEPT !.left = @ \ {f}]
       IN  IF jobs[j].cancelled \/ toAdd = {} THEN Set(j, NextFile(rest))
           ELSE Set(j, With([rest EXCEPT !.step = "edit"], [file |-> f, toAdd |-> toAdd]))
  /\ UNCHANGED <<vars, storeVars>>

\* An error of the decoder, the model or the server ends the job.
JobFails(j) ==
  /\ jobs[j].step \in {"process", "edit"}
  /\ Set(j, Ended(jobs[j]))
  /\ UNCHANGED <<vars, storeVars>>

Only(service, tags) == [s \in Service |-> IF s = service THEN tags ELSE {}]

\* editTags of the batch; the refresh that follows is not waited for.
BatchEdited(j) ==
  /\ jobs[j].step = "edit"
  /\ server' = AddTags(server, {jobs[j].file}, Only(jobs[j].service, jobs[j].toAdd),
                       Only(jobs[j].service, {}))
  /\ refreshes' = refreshes \cup {Refresh(0, {jobs[j].file})}
  /\ Set(j, NextFile([f \in DOMAIN jobs[j] \ {"file", "toAdd"} |-> jobs[j][f]]))
  /\ UNCHANGED <<loaded, modal, saves, storeVars>>

\* What the Autotag tab adds to the changes of its modal, one by one: the
\* changes after each of the tags.
TagsToMark(job, found) == SetToSeq({t \in found \ job.full : t \in Rating => ~job.rated})

Autotagged(job, pending, found) ==
  LET new == TagsToMark(job, found)
      after[k \in 0 .. Len(new)] ==
        IF k = 0 THEN pending ELSE HandleAddTag(after[k - 1], new[k], job.service)
  IN  after[Len(new)]

AutotagDone(j) ==
  /\ jobs[j].step = "process" /\ jobs[j].kind = "modal"
  /\ \E found \in Found :
       modal' = IF modal.kind = "tags" /\ modal.number = jobs[j].number
                THEN [modal EXCEPT !.edits.pending = Autotagged(jobs[j], @, found)]
                ELSE modal
  /\ Set(j, Ended(jobs[j]))
  /\ UNCHANGED <<server, loaded, saves, refreshes, storeVars>>

\* The button of the toast of a batch.
Cancel(j) ==
  /\ jobs[j].step \in Running /\ jobs[j].kind = "batch" /\ ~jobs[j].cancelled
  /\ Set(j, [jobs[j] EXCEPT !.cancelled = TRUE])
  /\ UNCHANGED <<vars, storeVars>>

JobAnswers(j) ==
  \/ Load(j) \/ Downloaded(j) \/ Loaded(j)
  \/ Processed(j) \/ AutotagDone(j) \/ JobFails(j) \/ BatchEdited(j)

AutotagNext ==
  \/ Next /\ UNCHANGED <<storeVars, jobs>>
  \/ \E m \in Model :
       \E op \in {"clear", "download", "uninstall", "reset", "fromUrl", "fromBlob"} :
         SettingsStart(op, m)
  \/ SettingsReopened
  \/ \E i \in Operations : SettingsEnd(i)
  \/ StartBatch \/ StartAutotag
  \/ \E j \in Jobs : JobAnswers(j) \/ Cancel(j)

AutotagSpec == AutotagInit /\ [][AutotagNext]_allVars

\* Whatever a job or a save waits for is answered or fails.
AutotagFairSpec ==
  /\ AutotagSpec
  /\ \A j \in Jobs : WF_allVars(JobAnswers(j))
  /\ \A i \in Modals : WF_allVars(SaveAnswers(i) /\ UNCHANGED <<storeVars, jobs>>)

----------------------------------------------------------------------------
(* Properties.                                                             *)

\* A name that a list offers can be looked up, whatever the operations of the
\* settings, which may overlap and fail, and the downloads of the jobs do to
\* the store at the same time (modelMetaStore.ts:92-167; SettingsModal.tsx:798-809
\* draws by it).
ListedHasModel == \A m \in names : models[m] # "none"

\* Once a batch has been cancelled it begins no further edit, whatever it was
\* waiting for (BatchAutoTagModal.tsx:129-131 and 169-171).
CancelStopsEdits ==
  [][\A j \in Jobs :
       jobs[j].step \in Running /\ jobs[j].kind = "batch" /\ jobs[j].cancelled
         => (jobs'[j].step = "edit" => jobs[j].step = "edit")]_allVars

\* Every job that is started ends; its toast is gone, and its worker too unless
\* the model could not be loaded (BatchAutoTagModal.tsx:187-191,
\* EditTagsModal.tsx:408-427).
JobsEnd ==
  \A j \in Jobs :
    []<>(\/ jobs[j].step = "none"
         \/ jobs[j].step = "done" /\ ~jobs[j].toast /\ ~jobs[j].worker
         \/ jobs[j].step = "failed" /\ ~jobs[j].toast)
===============================================================================
