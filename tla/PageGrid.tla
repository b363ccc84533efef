------------------------------- MODULE PageGrid -------------------------------
(***************************************************************************)
(* The page on the screen (web/hydrui-client/src/components/widgets/       *)
(* PageView/PageView.tsx): the selection and the active file of each page, *)
(* the file viewer, the rectangle drawn with the mouse, the context menu,  *)
(* the question before a deletion, and the operations a menu starts, which *)
(* outlive the menu, the selection and the page they were started from;    *)
(* and the context menu of a tag in the list beside the page (TagList).    *)
(*                                                                         *)
(* What the page shows is that of PageView.tla: the store may start over   *)
(* with another list, or another page, at any time. The order of a         *)
(* selection is left out, and so are places on the screen: a rectangle is  *)
(* the set of the files it touches, an arrow key the file it leads to.     *)
(***************************************************************************)
EXTENDS Naturals, FiniteSets, Sequences, SequencesExt

CONSTANTS
  Key,       \* keys of pages
  File,      \* file IDs
  Lists,     \* the lists of files a page may show
  OpKinds,   \* the operations of the instance
  MaxOps,    \* bound: operations started
  MaxUploads \* bound: files dropped at once

NoFile == "none"

ASSUME ListsAssumption == <<>> \in Lists /\ Lists \subseteq Seq(File)
ASSUME NoFileAssumption == NoFile \notin File
ASSUME BoundsAssumption == MaxOps \in Nat /\ MaxUploads \in Nat \ {0}

VARIABLES
  page, fileIds,  \* what the store shows
  selected,       \* selectedFilesByPage
  active,         \* activeFileByPage
  viewer,         \* modalIndex + 1: 0 when no file is opened
  drag,           \* isDragging, dragStartSelectionRef, inverseSelection
  menu,           \* the context menu of a file or a tag: its closure
  asked,          \* deleteFileIds, while the question is shown
  ops             \* the operations started so far

gridVars == <<page, fileIds, selected, active, viewer, drag, menu, asked, ops>>
selection == <<selected, active>>
screen == <<page, fileIds>>

Store == INSTANCE PageView WITH list <- fileIds, shown <- <<>>

Shown == Range(fileIds)
IndexOf(f) == CHOOSE i \in DOMAIN fileIds : fileIds[i] = f

NoDrag == [on |-> FALSE]
NoMenu == [open |-> FALSE]
NotAsked == [open |-> FALSE]

GridInit ==
  /\ page \in Key /\ fileIds = <<>>
  /\ selected = [k \in Key |-> {}]
  /\ active = [k \in Key |-> NoFile]
  /\ viewer = 0
  /\ drag = NoDrag /\ menu = NoMenu /\ asked = NotAsked
  /\ ops = <<>>

\* A modal takes the shortcuts of the page.
InModal == viewer # 0 \/ asked.open

\* The store shows another list. The component stays, with its state.
ListChanges ==
  /\ fileIds' \in Lists /\ Store!StartOver
  /\ UNCHANGED <<selection, viewer, drag, menu, asked, ops>>

----------------------------------------------------------------------------
(* The selection.                                                          *)

SetSelectedFiles(files) == selected' = [selected EXCEPT ![page] = files]
SetActiveFileId(f) == active' = [active EXCEPT ![page] = f]
Here == selected[page]
ActiveFile == active[page]

\* A toggle that leaves the active file as it is.
ToggleFileOnly(f) ==
  /\ SetSelectedFiles(IF f \in Here THEN Here \ {f} ELSE Here \cup {f})
  /\ SetActiveFileId(IF ActiveFile = NoFile THEN f ELSE ActiveFile)

\* With Control: the file joins the selection or leaves it.
ToggleFile(f) ==
  IF f \in Here
  THEN /\ SetSelectedFiles(Here \ {f})
       /\ SetActiveFileId(IF ActiveFile = f THEN NoFile ELSE ActiveFile)
  ELSE /\ SetSelectedFiles(Here \cup {f})
       /\ SetActiveFileId(IF ActiveFile = NoFile THEN f ELSE ActiveFile)

\* With Shift: from the active file to this one, if both are on the page.
CanRange == Here # {} /\ ActiveFile # NoFile
SelectRange(f) ==
  /\ UNCHANGED active
  /\ IF ActiveFile \notin Shown THEN UNCHANGED selected
     ELSE LET ends == {IndexOf(f), IndexOf(ActiveFile)}
          IN  SetSelectedFiles({fileIds[i] : i \in {k \in DOMAIN fileIds :
                                 \E lo, hi \in ends : lo <= k /\ k <= hi}})

SelectOnly(f) == SetSelectedFiles({f}) /\ SetActiveFileId(f)

ClearSelection == SetSelectedFiles({}) /\ SetActiveFileId(NoFile)

\* A click, or Space, on a file of the grid. A key can reach it behind a
\* modal only through the focus, which the modals trap.
HandleFileClick ==
  /\ ~InModal /\ ~drag.on /\ ~menu.open
  /\ \E f \in Shown : ToggleFile(f) \/ (CanRange /\ SelectRange(f)) \/ SelectOnly(f)
  /\ UNCHANGED <<screen, viewer, drag, menu, asked, ops>>

\* Enter selects and opens; a double click opens what its clicks selected.
HandleFileOpen ==
  /\ ~InModal /\ ~drag.on /\ ~menu.open
  /\ \E f \in Shown : viewer' = IndexOf(f) /\ (SelectOnly(f) \/ UNCHANGED selection)
  /\ UNCHANGED <<screen, drag, menu, asked, ops>>

\* The whole page, by the menu or its key; the active file may have left it.
SelectAllFiles ==
  /\ ~InModal
  /\ SetSelectedFiles(Shown)
  /\ menu' \in {menu, NoMenu}
  /\ UNCHANGED <<screen, active, viewer, drag, asked, ops>>

HandleClickOutside ==
  /\ ~InModal /\ ~drag.on /\ ~menu.open
  /\ ClearSelection
  /\ UNCHANGED <<screen, viewer, drag, menu, asked, ops>>

----------------------------------------------------------------------------
(* The rectangle.                                                          *)

\* Pressing the button beside the files; without Shift or Control it clears
\* the selection.
HandleMouseDown ==
  /\ ~InModal /\ ~drag.on /\ ~menu.open
  /\ \E base \in {Here, {}}, inverse \in BOOLEAN :
       /\ inverse => base = Here
       /\ drag' = [on |-> TRUE, base |-> base, inverse |-> inverse]
       /\ IF base = Here THEN UNCHANGED selection ELSE ClearSelection
  /\ UNCHANGED <<screen, viewer, menu, asked, ops>>

\* The files to select: those of before, and those touched or without them.
\* If the active file is not one of them, their first is.
HandleMouseMove ==
  /\ drag.on
  /\ \E touched \in SUBSET Shown :
       LET files == IF drag.inverse THEN drag.base \ touched ELSE drag.base \cup touched
       IN  /\ SetSelectedFiles(files)
           /\ IF files = {} THEN SetActiveFileId(NoFile)
              ELSE IF ActiveFile \in files THEN UNCHANGED active
              ELSE \E f \in files : SetActiveFileId(f)
  /\ UNCHANGED <<screen, viewer, drag, menu, asked, ops>>

HandleMouseUp ==
  /\ drag.on /\ drag' = NoDrag
  /\ UNCHANGED <<screen, selection, viewer, menu, asked, ops>>

----------------------------------------------------------------------------
(* The viewer: an index into the list, whatever the list is by now. Its    *)
(* buttons exist while there is a file at the index.                       *)

ViewerFile == IF viewer \in DOMAIN fileIds THEN fileIds[viewer] ELSE NoFile

HandleModalClose ==
  /\ ViewerFile # NoFile /\ viewer' = 0
  /\ UNCHANGED <<screen, selection, drag, menu, asked, ops>>

HandleModalPreviousNext ==
  /\ ViewerFile # NoFile
  /\ viewer' \in {viewer - 1, viewer + 1} \cap DOMAIN fileIds
  /\ UNCHANGED <<screen, selection, drag, menu, asked, ops>>

----------------------------------------------------------------------------
(* Operations. They keep the page and the files of the closure they were   *)
(* started with. A toast without an end of its own tells that one is under *)
(* way: it must be taken away again. Of each kind: does it first wait for  *)
(* the metadata of the files, does it show such a toast, can the toast     *)
(* cancel it, does a failure take the toast away, does it end in a page of *)
(* its own, and how many files does it need.                               *)

Manage == [fetches |-> FALSE, toast |-> FALSE, cancels |-> FALSE,
           tidies |-> TRUE, opens |-> FALSE, least |-> 1]
FindSimilarFiles ==
  [Manage EXCEPT !.fetches = TRUE, !.toast = TRUE, !.cancels = TRUE,
                 !.tidies = FALSE, !.opens = TRUE]
OpenTags == [FindSimilarFiles EXCEPT !.fetches = FALSE]
OpenBest == [Manage EXCEPT !.fetches = TRUE, !.opens = TRUE]
MarkActiveFileAsBetter == [Manage EXCEPT !.fetches = TRUE, !.least = 2]
CopyImage == [Manage EXCEPT !.toast = TRUE]
Download == [Manage EXCEPT !.fetches = TRUE, !.toast = TRUE, !.cancels = TRUE, !.least = 2]
SauceNao == [Manage EXCEPT !.toast = TRUE]
Upload == [Manage EXCEPT !.toast = TRUE, !.cancels = TRUE]

About ==
  [manage |-> Manage, similar |-> FindSimilarFiles, tags |-> OpenTags, best |-> OpenBest,
   better |-> MarkActiveFileAsBetter, copy |-> CopyImage, zip |-> Download,
   sauce |-> SauceNao, upload |-> Upload]

Op(kind, uploads) ==
  [kind |-> kind, left |-> uploads,
   step |-> IF About[kind].fetches THEN "fetch" ELSE "work",
   toast |-> About[kind].toast /\ ~About[kind].fetches, cancelled |-> FALSE]

\* What is left of an operation when it has ended.
Over(op, toast) == [kind |-> op.kind, step |-> "over", toast |-> toast]

ASSUME KindsAssumption == OpKinds \subseteq DOMAIN About

Start(op) == op.kind \in OpKinds /\ Len(ops) < MaxOps /\ ops' = Append(ops, op)

\* A file outside the selection becomes the selection.
HandleFileContextMenu ==
  /\ ~InModal /\ ~drag.on
  /\ \E f \in Shown :
       LET files == IF f \in Here THEN Here ELSE {f}
       IN  /\ SetSelectedFiles(files)
           /\ SetActiveFileId(f)
           /\ menu' = [open |-> TRUE, of |-> "file", files |-> files]
  /\ UNCHANGED <<screen, viewer, drag, asked, ops>>

\* The menu of a tag keeps the page and which of its files have the tag.
TagContextMenu ==
  /\ ~InModal /\ ~drag.on
  /\ \E files \in SUBSET Shown :
       menu' = [open |-> TRUE, of |-> "tag", page |-> page, files |-> files]
  /\ UNCHANGED <<screen, selection, viewer, drag, asked, ops>>

MenuOf(what) == menu.open /\ menu.of = what

CloseMenu ==
  /\ menu.open /\ menu' = NoMenu
  /\ UNCHANGED <<screen, selection, viewer, drag, asked, ops>>

MenuStartsOp ==
  /\ \E kind \in OpKinds \ {"upload", "tags"} :
       /\ MenuOf("file") /\ Cardinality(menu.files) >= About[kind].least
       /\ Start(Op(kind, 1))
  /\ menu' = NoMenu
  /\ UNCHANGED <<screen, selection, viewer, drag, asked>>

\* Open tags in new tab: their files are searched for.
OpenTagsInNewPage ==
  /\ MenuOf("tag") /\ menu' = NoMenu /\ Start(Op("tags", 1))
  /\ UNCHANGED <<screen, selection, viewer, drag, asked>>

\* Select files with tag: the active file stays as it is.
SelectFilesWithTag ==
  /\ MenuOf("tag") /\ menu' = NoMenu
  /\ selected' = [selected EXCEPT ![menu.page] = menu.files]
  /\ UNCHANGED <<screen, active, viewer, drag, asked, ops>>

\* Open in New Page.
MenuOpensPage ==
  /\ MenuOf("file") /\ menu' = NoMenu
  /\ fileIds' \in Lists /\ Range(fileIds') \subseteq menu.files /\ Store!StartOver
  /\ UNCHANGED <<selection, viewer, drag, asked, ops>>

\* Delete, in the menu or by its key, is asked first; so it names the files
\* selected then.
DeleteFilesById ==
  /\ ~asked.open
  /\ \/ MenuOf("file") /\ asked' = [open |-> TRUE, files |-> menu.files]
     \/ ~InModal /\ asked' = [open |-> TRUE, files |-> Here]
  /\ menu' = NoMenu
  /\ UNCHANGED <<screen, selection, viewer, drag, ops>>

PerformDelete ==
  /\ asked.open /\ asked' = NotAsked
  /\ Start(Op("manage", 1)) \/ UNCHANGED ops
  /\ UNCHANGED <<screen, selection, viewer, drag, menu>>

\* F7: without a question.
ArchiveSelected ==
  /\ ~InModal
  /\ Start(Op("manage", 1))
  /\ UNCHANGED <<screen, selection, viewer, drag, menu, asked>>

\* Files dropped on the window are uploaded one after the other, each with a
\* toast of its own.
HandleDrop ==
  /\ \E n \in 1..MaxUploads : Start(Op("upload", n))
  /\ UNCHANGED <<screen, selection, viewer, drag, menu, asked>>

SetOp(o, op) == ops' = [ops EXCEPT ![o] = op]

\* The metadata is there; or the page has been loaded anew, which rejects.
MetadataFetched(o) ==
  /\ ops[o].step = "fetch"
  /\ \/ SetOp(o, [ops[o] EXCEPT !.step = "work", !.toast = About[ops[o].kind].toast])
     \/ SetOp(o, Over(ops[o], FALSE))
  /\ UNCHANGED <<screen, selection, viewer, drag, menu, asked>>

\* The requests of an operation have succeeded. The next upload begins, or
\* the page the operation is for is opened, unless it has been cancelled.
OpSucceeds(o) ==
  /\ ops[o].step = "work"
  /\ SetOp(o, IF ops[o].left > 1
              THEN [ops[o] EXCEPT !.left = @ - 1, !.toast = TRUE, !.cancelled = FALSE]
              ELSE Over(ops[o], FALSE))
  /\ IF About[ops[o].kind].opens /\ ~ops[o].cancelled
     THEN fileIds' \in Lists /\ Store!StartOver
     ELSE UNCHANGED screen
  /\ UNCHANGED <<selection, viewer, drag, menu, asked>>

\* A failure that leaves the toast of every operation.
OpFailsLoudly(o) ==
  /\ ops[o].step = "work"
  /\ SetOp(o, Over(ops[o], ops[o].toast))
  /\ UNCHANGED <<screen, selection, viewer, drag, menu, asked>>

\* One of them has failed. The finally blocks take the toast away; the
\* searches have none. Uploads that were to follow do not.
OpFails(o) ==
  /\ ops[o].step = "work"
  /\ SetOp(o, Over(ops[o], ops[o].toast /\ ~About[ops[o].kind].tidies))
  /\ UNCHANGED <<screen, selection, viewer, drag, menu, asked>>

\* The button of the toast.
CancelOp(o) ==
  /\ ops[o].toast /\ About[ops[o].kind].cancels
  /\ SetOp(o, IF ops[o].step = "over" THEN Over(ops[o], FALSE)
              ELSE [ops[o] EXCEPT !.toast = FALSE, !.cancelled = TRUE])
  /\ UNCHANGED <<screen, selection, viewer, drag, menu, asked>>

OpStep(o) == MetadataFetched(o) \/ OpSucceeds(o) \/ OpFails(o)

GridNext ==
  \/ ListChanges
  \/ HandleFileClick \/ HandleFileOpen \/ SelectAllFiles \/ HandleClickOutside
  \/ HandleMouseDown \/ HandleMouseMove \/ HandleMouseUp
  \/ HandleModalClose \/ HandleModalPreviousNext
  \/ HandleFileContextMenu \/ TagContextMenu \/ CloseMenu
  \/ MenuStartsOp \/ MenuOpensPage \/ OpenTagsInNewPage \/ SelectFilesWithTag
  \/ DeleteFilesById \/ PerformDelete \/ ArchiveSelected \/ HandleDrop
  \/ \E o \in DOMAIN ops : OpStep(o) \/ CancelOp(o)

GridSpec == GridInit /\ [][GridNext]_gridVars

\* Every request ends, well or not.
GridFairSpec == GridSpec /\ \A o \in 1..MaxOps : WF_gridVars(o \in DOMAIN ops /\ OpStep(o))

----------------------------------------------------------------------------
(* Properties.                                                             *)

\* Types; and an opened file is never past the longest list: the buttons of
\* the viewer stop at its ends (PageView.tsx:1250-1263).
GridTypeOK ==
  /\ page \in Key /\ fileIds \in Lists
  /\ selected \in [Key -> SUBSET File] /\ active \in [Key -> File \cup {NoFile}]
  /\ viewer = 0 \/ \E l \in Lists : viewer \in DOMAIN l
  /\ \A o \in DOMAIN ops : ops[o].kind \in OpKinds /\ ops[o].toast \in BOOLEAN

ActiveIsSelected == ActiveFile \in Shown => ActiveFile \in Here

\* Clicks, ranges, rectangles and menus, in any order, keep the active file
\* of the page inside its selection: it is the one that "This file is better
\* than all selected files" speaks of (PageView.tsx:600-643, 659-667,
\* 1313-1345, 1488-1502). Only another list may part them, and "Select files
\* with tag", which leaves the active file alone (TagList.tsx:356-382).
ActiveStaysSelected ==
  [][ActiveIsSelected /\ UNCHANGED screen /\ ~SelectFilesWithTag => ActiveIsSelected']_gridVars

\* The toast of an operation goes, however the operation ends; those of the
\* searches for similar files and for the files of tags stay when these fail
\* (PageView.tsx:237-251, TagList.tsx:332-336).
ToastsGo ==
  \A o \in 1..MaxOps :
    LET Shows == o \in DOMAIN ops /\ ops[o].toast /\ About[ops[o].kind].tidies
    IN  Shows ~> ~Shows
===============================================================================
