------------------------------ MODULE EditModals ------------------------------
(***************************************************************************)
(* The modals of PageView that edit files (web/hydrui-client/src/          *)
(* components/modals: EditTagsModal, EditUrlsModal, EditNotesModal,        *)
(* ImportUrlsModal) and the metadata they start from and refresh.          *)
(*                                                                         *)
(* A modal keeps the changes the user has made since it was opened. A save *)
(* sends those it was started with and closes the modal when the server    *)
(* has answered. Nothing stops the user from closing the modal, opening    *)
(* the next one or changing more in the meantime: saves are actors of      *)
(* their own, named by the number of the modal that started them.          *)
(*                                                                         *)
(* The files of a modal are those the page store has loaded when the menu  *)
(* entry is chosen. The reply to an edit is taken with the edit; that to a *)
(* refresh may be overtaken.                                               *)
(***************************************************************************)
EXTENDS DemoServer, Naturals, FiniteSets, Sequences, SequencesExt

CONSTANTS
  Kinds,       \* the modals of the instance, among AllKinds
  StartMeta,   \* the metadata the server starts with
  MaxOpens     \* bound: modals opened

AllKinds == {"tags", "urls", "notes", "import", "batch"}

ASSUME KindsAssumption == Kinds \subseteq AllKinds
ASSUME StartAssumption == StartMeta \in [File -> Meta]
ASSUME OpensAssumption == MaxOpens \in Nat \ {0}

VARIABLES
  server,     \* what the server keeps
  loaded,     \* loadedFiles of the page store
  modal,      \* the modal on the screen
  saves,      \* the saves, by the number of their modal
  refreshes   \* requests of refreshFileMetadata under way

vars == <<server, loaded, modal, saves, refreshes>>

Modals == 1..MaxOpens
Actions == {"ADD", "DELETE"}
Change == [tag : Tag, action : Actions, service : Service]

NoSave == [step |-> "none"]
NoNotes == [n \in Note |-> NoText]

\* The state of each component when it is mounted.
NoTagEdits == [pending |-> <<>>]
NoUrlEdits == [toAdd |-> {}, toRemove |-> {}]
NoNoteEdits(meta) ==
  [shown |-> meta.notes, toAdd |-> NoNotes, toEdit |-> NoNotes, toRemove |-> {}]
NoImport == [urls |-> {}]

NoEdits(kind, was, files) ==
  CASE kind = "tags"   -> NoTagEdits
    [] kind = "urls"   -> NoUrlEdits
    [] kind = "notes"  -> NoNoteEdits(was[CHOOSE f \in files : TRUE])
    [] kind = "import" -> NoImport
    [] kind = "batch"  -> [asked |-> FALSE]

\* Whether a modal has changes to lose or to save. ImportUrlsModal never asks
\* before it closes.
TagsChanged(edits) == edits.pending # <<>>
UrlsChanged(edits) == edits.toAdd \cup edits.toRemove # {}
NotesChanged(edits) ==
  edits.toAdd # NoNotes \/ edits.toEdit # NoNotes \/ edits.toRemove # {}
UrlsToImport(edits) == edits.urls # {}

Dirty(m) ==
  \/ m.kind = "tags" /\ TagsChanged(m.edits)
  \/ m.kind = "urls" /\ UrlsChanged(m.edits)
  \/ m.kind = "notes" /\ NotesChanged(m.edits)

----------------------------------------------------------------------------
(* What the modals show.                                                   *)

InitialTagCount(m, s, t) == Cardinality({f \in m.files : t \in m.was[f].tags[s]})

\* The place of the last change of a tag, 0 if there is none.
LastChange(pending, s, t) ==
  SelectLastInSeq(pending, LAMBDA c : c.tag = t /\ c.service = s)

\* The count beside a tag: of the last change, or else of the files.
TagCount(m, s, t) ==
  LET last == LastChange(m.edits.pending, s, t)
  IN  IF last = 0 THEN InitialTagCount(m, s, t)
      ELSE IF m.edits.pending[last].action = "ADD" THEN Cardinality(m.files) ELSE 0

InitialUrlCount(m, u) == Cardinality({f \in m.files : u \in m.was[f].urls})

UrlCount(m, u) ==
  IF u \in m.edits.toRemove THEN 0
  ELSE IF u \in m.edits.toAdd THEN Cardinality(m.files)
  ELSE InitialUrlCount(m, u)

\* The input field takes any tag or URL until a save begins; the plus button
\* stays beside those in the list that some file lacks, the minus button
\* beside those that some file has.
CanAddTag(m, s, t) ==
  \/ ~m.submitting
  \/ /\ TagCount(m, s, t) < Cardinality(m.files)
     /\ InitialTagCount(m, s, t) > 0
CanRemoveTag(m, s, t) == TagCount(m, s, t) > 0

CanAddUrl(m, u) == ~m.submitting \/ UrlCount(m, u) \in 1 .. Cardinality(m.files) - 1
CanRemoveUrl(m, u) == UrlCount(m, u) > 0

----------------------------------------------------------------------------
(* Changing.                                                               *)

Pending(pending, t, a, s) == [tag |-> t, action |-> a, service |-> s] \in Range(pending)

\* A change that forgets the opposite one.
ToggleAppends(pending, t, a, s) ==
  IF Pending(pending, t, a, s) THEN pending
  ELSE Append(pending, [tag |-> t, action |-> a, service |-> s])

\* One of the two halves of a toggle: nothing twice, and a change cancels
\* its opposite.
Toggle(pending, t, a, s) ==
  LET opposite == [tag |-> t, action |-> CHOOSE o \in Actions : o # a, service |-> s]
      at == SelectInSeq(pending, LAMBDA c : c = opposite)
  IN  IF Pending(pending, t, a, s) THEN pending
      ELSE IF at # 0 THEN RemoveAt(pending, at)
      ELSE Append(pending, [tag |-> t, action |-> a, service |-> s])

HandleAddTag(pending, t, s) == Toggle(pending, t, "ADD", s)
HandleRemoveTag(pending, t, s) == Toggle(pending, t, "DELETE", s)

HandleAddUrl(m, u) ==
  IF u \in m.edits.toRemove THEN [m.edits EXCEPT !.toRemove = @ \ {u}]
  ELSE IF InitialUrlCount(m, u) < Cardinality(m.files)
    THEN [m.edits EXCEPT !.toAdd = @ \cup {u}]
  ELSE m.edits

HandleRemoveUrl(m, u) ==
  IF u \in m.edits.toAdd THEN [m.edits EXCEPT !.toAdd = @ \ {u}]
  ELSE [m.edits EXCEPT !.toRemove = @ \cup {u}]

InitialNotes(m) == m.was[CHOOSE f \in m.files : TRUE].notes

HandleAddNote(m, n, text) ==
  LET initial == InitialNotes(m)[n]
      shown == [m.edits EXCEPT !.shown[n] = text]
  IN  IF initial = NoText THEN [shown EXCEPT !.toAdd[n] = text]
      ELSE [shown EXCEPT !.toRemove = @ \ {n},
                         !.toEdit[n] = IF initial # text THEN text ELSE @]

HandleRemoveNote(m, n) ==
  LET hidden == [m.edits EXCEPT !.shown[n] = NoText]
  IN  IF InitialNotes(m)[n] # NoText THEN [hidden EXCEPT !.toRemove = @ \cup {n}]
      ELSE [hidden EXCEPT !.toAdd[n] = NoText, !.toEdit[n] = NoText]

----------------------------------------------------------------------------
(* Opening and closing.                                                    *)

Init ==
  /\ server = StartMeta
  /\ loaded = StartMeta
  /\ modal = [kind |-> "none", number |-> 0]
  /\ saves = [i \in Modals |-> NoSave]
  /\ refreshes = {}

\* An entry of the context menu of the selected files, or of one of them.
Open(kind) ==
  /\ modal.kind = "none"
  /\ modal.number < MaxOpens
  /\ \E files \in (SUBSET File) \ {{}} :
       /\ kind \in {"notes", "import"} => Cardinality(files) = 1
       /\ LET was == GetFiles(loaded, files)
          IN  modal' = [kind |-> kind, number |-> modal.number + 1, files |-> files,
                        was |-> was, edits |-> NoEdits(kind, was, files),
                        submitting |-> FALSE, discard |-> FALSE]
  /\ UNCHANGED <<server, loaded, saves, refreshes>>

Closed == [kind |-> "none", number |-> modal.number]

\* onClose hides the modal of its kind, whichever instance is on the screen.
OnClose(kind) == modal' = IF modal.kind = kind THEN Closed ELSE modal

\* Escape, the backdrop, the cross and, unless it is disabled, Cancel.
HandleClose ==
  /\ modal.kind # "none" /\ ~modal.discard
  /\ modal' = IF Dirty(modal) THEN [modal EXCEPT !.discard = TRUE] ELSE Closed
  /\ UNCHANGED <<server, loaded, saves, refreshes>>

\* The question of ConfirmModal.
Discard ==
  /\ modal.kind # "none" /\ modal.discard
  /\ modal' \in {Closed, [modal EXCEPT !.discard = FALSE]}
  /\ UNCHANGED <<server, loaded, saves, refreshes>>

Edit(kind, edits) ==
  /\ modal.kind = kind /\ ~modal.discard
  /\ modal' = [modal EXCEPT !.edits = edits]
  /\ UNCHANGED <<server, loaded, saves, refreshes>>

EditTags ==
  /\ modal.kind = "tags"
  /\ \E s \in Service, t \in Tag :
       \/ /\ CanAddTag(modal, s, t)
          /\ Edit("tags", [pending |-> HandleAddTag(modal.edits.pending, t, s)])
       \/ /\ CanRemoveTag(modal, s, t)
          /\ Edit("tags", [pending |-> HandleRemoveTag(modal.edits.pending, t, s)])

EditUrls ==
  /\ modal.kind = "urls"
  /\ \E u \in Url :
       \/ CanAddUrl(modal, u) /\ Edit("urls", HandleAddUrl(modal, u))
       \/ CanRemoveUrl(modal, u) /\ Edit("urls", HandleRemoveUrl(modal, u))

\* A note is named in the input field, or chosen in the list, and then
\* written in EditNoteModal.
EditNotes ==
  /\ modal.kind = "notes"
  /\ \E n \in Note :
       \/ \E text \in Text :
            /\ modal.submitting => modal.edits.shown[n] # NoText
            /\ Edit("notes", HandleAddNote(modal, n, text))
       \/ /\ modal.edits.shown[n] # NoText
          /\ Edit("notes", HandleRemoveNote(modal, n))

EditImport ==
  /\ modal.kind = "import" /\ ~modal.submitting
  /\ \E urls \in SUBSET Url : Edit("import", [urls |-> urls])

----------------------------------------------------------------------------
(* Saving.                                                                 *)

FirstStep == [tags |-> "editTags", urls |-> "associateUrl",
              notes |-> "deleteNotes", import |-> "addUrl"]

\* handleSubmit and handleImport, up to their first request.
HandleSubmit ==
  /\ modal.kind # "none" /\ ~modal.submitting /\ ~modal.discard
  /\ Dirty(modal) \/ (modal.kind = "import" /\ UrlsToImport(modal.edits))
  /\ saves' = [saves EXCEPT ![modal.number] =
                 [step |-> FirstStep[modal.kind], kind |-> modal.kind,
                  files |-> modal.files, was |-> modal.was, edits |-> modal.edits]]
  /\ modal' = [modal EXCEPT !.submitting = TRUE]
  /\ UNCHANGED <<server, loaded, refreshes>>

TagsOf(save, a) ==
  [s \in Service |-> {t \in Tag : Pending(save.edits.pending, t, a, s)}]

\* The fields of toAdd with those of toEdit over them.
NotesOf(save) ==
  [n \in Note |-> IF save.edits.toEdit[n] # NoText THEN save.edits.toEdit[n]
                  ELSE save.edits.toAdd[n]]

\* What the request of a save makes of the server.
Applied(save) ==
  CASE save.step = "editTags"     -> AddTags(server, save.files, TagsOf(save, "ADD"),
                                             TagsOf(save, "DELETE"))
    [] save.step = "associateUrl" -> AssociateUrl(server, save.files, save.edits.toAdd,
                                                  save.edits.toRemove)
    [] save.step = "deleteNotes"  -> DeleteNotes(server, save.files, save.edits.toRemove)
    [] save.step = "addNotes"     -> AddNotes(server, save.files, NotesOf(save))

Editing(i) ==
  saves[i].step \in {"editTags", "associateUrl", "deleteNotes", "addNotes"}

Refresh(by, files) == [by |-> by, files |-> files, reply |-> <<>>]

\* The server has applied a request: the next one follows.
RequestDone(i) ==
  /\ Editing(i)
  /\ server' = Applied(saves[i])
  /\ IF saves[i].step = "deleteNotes"
     THEN saves' = [saves EXCEPT ![i].step = "addNotes"] /\ UNCHANGED refreshes
     ELSE /\ saves' = [saves EXCEPT ![i].step = "refresh"]
          /\ refreshes' = refreshes \cup {Refresh(i, saves[i].files)}
  /\ UNCHANGED <<loaded, modal>>

\* A failure that leaves the modal disabled.
RequestFailsQuietly(i) ==
  /\ Editing(i)
  /\ server' \in {server, Applied(saves[i])}
  /\ saves' = [saves EXCEPT ![i] = NoSave]
  /\ UNCHANGED <<loaded, modal, refreshes>>

\* It or its reply is lost, or the server refuses it: the modal, if it is
\* still there, shows the error and can be used again.
RequestFails(i) ==
  /\ Editing(i)
  /\ server' \in {server, Applied(saves[i])}
  /\ saves' = [saves EXCEPT ![i] = NoSave]
  /\ modal' = IF modal.kind # "none" /\ modal.number = i
              THEN [modal EXCEPT !.submitting = FALSE] ELSE modal
  /\ UNCHANGED <<loaded, refreshes>>

\* One of the requests of handleImport is answered, well or not; the last
\* one closes the modal.
ImportAnswered(i) ==
  /\ saves[i].step = "addUrl"
  /\ \E u \in saves[i].edits.urls :
       LET left == saves[i].edits.urls \ {u}
       IN  IF left # {}
           THEN saves' = [saves EXCEPT ![i].edits.urls = left] /\ UNCHANGED modal
           ELSE saves' = [saves EXCEPT ![i] = NoSave] /\ OnClose("import")
  /\ UNCHANGED <<server, loaded, refreshes>>

----------------------------------------------------------------------------
(* refreshFileMetadata.                                                    *)

RefreshServed(r) ==
  /\ r.reply = <<>>
  /\ refreshes' = (refreshes \ {r}) \cup {[r EXCEPT !.reply = GetFiles(server, r.files)]}
  /\ UNCHANGED <<server, loaded, modal, saves>>

\* The reply, or an error, which is logged; a save that waited for it closes
\* its modal.
RefreshTaken(r) ==
  /\ \/ loaded' = loaded
     \/ /\ r.reply # <<>>
        /\ loaded' = [f \in File |-> IF f \in r.files THEN r.reply[f] ELSE loaded[f]]
  /\ refreshes' = refreshes \ {r}
  /\ IF r.by = 0 THEN UNCHANGED <<modal, saves>>
     ELSE saves' = [saves EXCEPT ![r.by] = NoSave] /\ OnClose(saves[r.by].kind)
  /\ UNCHANGED server

UserStep ==
  \/ \E kind \in Kinds : Open(kind)
  \/ HandleClose \/ Discard \/ HandleSubmit
  \/ EditTags \/ EditUrls \/ EditNotes \/ EditImport

Answers ==
  \/ \E i \in Modals : RequestDone(i) \/ RequestFails(i) \/ ImportAnswered(i)
  \/ \E r \in refreshes : RefreshServed(r) \/ RefreshTaken(r)

Next == UserStep \/ Answers

Spec == Init /\ [][Next]_vars

\* What a save waits for: its requests, one after the other, and then the
\* refresh it has asked for.
SaveAnswers(i) ==
  \/ RequestDone(i) \/ RequestFails(i) \/ ImportAnswered(i)
  \/ \E r \in refreshes : r.by = i /\ (RefreshServed(r) \/ RefreshTaken(r))

\* Every request of a save is answered or fails; the user need not do anything.
Fairness == \A i \in Modals : WF_vars(SaveAnswers(i))

FairSpec == Spec /\ Fairness

----------------------------------------------------------------------------
(* Properties.                                                             *)

Edits(kind) ==
  CASE kind = "tags"   -> [pending : Seq(Change)]
    [] kind = "urls"   -> [toAdd : SUBSET Url, toRemove : SUBSET Url]
    [] kind = "notes"  -> [shown : [Note -> Text \cup {NoText}],
                           toAdd : [Note -> Text \cup {NoText}],
                           toEdit : [Note -> Text \cup {NoText}],
                           toRemove : SUBSET Note]
    [] kind = "import" -> [urls : SUBSET Url]
    [] kind = "batch"  -> [asked : BOOLEAN]

\* The changes of a modal never contradict one another: at most one for a
\* tag, and no URL both to be added and to be removed.
Consistent(kind, edits) ==
  CASE kind = "tags" ->
         \A j, k \in DOMAIN edits.pending :
           /\ edits.pending[j].tag = edits.pending[k].tag
           /\ edits.pending[j].service = edits.pending[k].service
           => j = k
    [] kind = "urls" -> edits.toAdd \cap edits.toRemove = {}
    [] OTHER -> TRUE

\* Types; and the changes of the modal and of the saves do not contradict
\* themselves (EditTagsModal.tsx:196-277, EditUrlsModal.tsx:90-132).
TypeOK ==
  /\ server \in [File -> Meta] /\ loaded \in [File -> Meta]
  /\ modal.kind \in Kinds \cup {"none"} /\ modal.number \in 0..MaxOpens
  /\ modal.kind # "none" =>
       /\ modal.submitting \in BOOLEAN /\ modal.discard \in BOOLEAN
       /\ modal.edits \in Edits(modal.kind)
       /\ Consistent(modal.kind, modal.edits)
  /\ \A i \in Modals : saves[i].step # "none" =>
       saves[i].edits \in Edits(saves[i].kind) /\ Consistent(saves[i].kind, saves[i].edits)

\* getTagStatus: the mark the modal puts on a tag, that of its last change.
TagStatus(m, s, t) ==
  LET last == LastChange(m.edits.pending, s, t)
  IN  IF last = 0 THEN "none" ELSE m.edits.pending[last].action

\* What one element of a file must be after an edit, by its mark.
AsMarked(status, before, after) ==
  CASE status = "ADD" -> after [] status = "DELETE" -> ~after [] OTHER -> after = before

UrlStatus(m, u) ==
  CASE u \in m.edits.toRemove -> "DELETE" [] u \in m.edits.toAdd -> "ADD" [] OTHER -> "none"

AppliedNow(i) == Editing(i) /\ saves'[i].step = "refresh"

\* A save does to every file exactly what the modal marked when it was
\* pressed, whatever the order of the clicks, and leaves the rest alone
\* (EditTagsModal.tsx:322-364, EditUrlsModal.tsx:135-164).
SavedAsShown ==
  [][\A i \in Modals : AppliedNow(i) =>
       \A f \in saves[i].files :
         /\ saves[i].kind = "tags" => \A s \in Service, t \in Tag :
              AsMarked(TagStatus(saves[i], s, t), t \in server[f].tags[s], t \in server'[f].tags[s])
         /\ saves[i].kind = "urls" => \A u \in Url :
              AsMarked(UrlStatus(saves[i], u), u \in server[f].urls, u \in server'[f].urls)]_vars

\* What a save of notes leaves on the server is what the modal showed when
\* it was pressed, if nobody else edits the file (EditNotesModal.tsx:133-147:
\* "First, remove notes that were removed." "Next, add new notes and edit
\* changed notes.").
NotesSavedAsShown ==
  [][\A i \in Modals : AppliedNow(i) /\ saves[i].kind = "notes" =>
       \A f \in saves[i].files, n \in Note : server'[f].notes[n] = saves[i].edits.shown[n]]_vars

\* A modal does not stay disabled: its save ends, well or not
\* (setIsSubmitting(false) in the catch, EditTagsModal.tsx:356-363).
SubmittingEnds ==
  \A i \in Modals : []<>~(modal.kind # "none" /\ modal.number = i /\ modal.submitting)
===============================================================================
