------------------------------ MODULE PSDViewer ------------------------------
(***************************************************************************)
(* The viewer of layered pictures (web/hydrui-client/src/file/psd/         *)
(* PSDViewer.tsx) with its panel of layers (components/panels/LayersPanel) *)
(* and the worker that reads a file and composes its layers                *)
(* (file/psd/renderWorker.ts, workers/psd.worker.ts, file/psd/render.ts),  *)
(* composed with RemoteFile, through which the worker reads.               *)
(*                                                                         *)
(* Page and worker exchange messages; the worker is terminated when the    *)
(* viewer goes on to another file. A canvas shows a file with the layers   *)
(* that were visible, from which Picture is the set of those drawn.        *)
(* Left out are pixels, opacity and blend modes, the progress of a load,   *)
(* files that are in memory (blob: URLs), and browsers without             *)
(* OffscreenCanvas, where the page does the work itself.                   *)
(***************************************************************************)
EXTENDS RemoteFile, SequencesExt

CONSTANTS
  Documents,           \* what the files contain: their layers, from the top
  Header, Section, Records, LayerData, \* where in a file: offset and size
  Reader, Prefetcher,  \* the calls of the parser, of which one is not awaited
  MaxOpened, MaxToggles, MaxThumbs \* bounds: files, toggles, thumbnails

Entry == [kind : {"layer", "open", "closed", "divider"},
          visible : BOOLEAN, clipping : BOOLEAN, pixels : BOOLEAN]

ASSUME DocumentsAssumption == Documents \subseteq Seq(Entry)
ASSUME PartsAssumption == Reader \in Call /\ Prefetcher \in Call /\ Reader # Prefetcher
ASSUME SpansAssumption ==
  /\ {Header, Section, Records} \subseteq [offset : Nat, size : Nat]
  /\ \A doc \in Documents : \A l \in DOMAIN doc : LayerData[l] \in [offset : Nat, size : Nat]
ASSUME PsdBoundsAssumption == MaxOpened \in Nat \ {0} /\ MaxToggles \in Nat /\ MaxThumbs \in Nat

VARIABLES
  viewer,  \* state of PSDViewer and of the items of the panel
  worker,  \* the load and layerData of the worker
  inbox,   \* messages to the worker
  outbox   \* messages from the worker

psdVars == <<viewer, worker, inbox, outbox>>
allVars == <<vars, psdVars>>

----------------------------------------------------------------------------
(* The layers of a document. The end of a group is an entry of its own.    *)

OpensGroup(e) == e.kind \in {"open", "closed"}
Visible(doc) == [l \in DOMAIN doc |-> doc[l].visible]

\* convertPSDLayers: an entry opens a group, or closes the last one.
Enter(doc, open, k) ==
  CASE OpensGroup(doc[k]) -> Append(open, k)
    [] doc[k].kind = "divider" /\ open # <<>> -> Front(open)
    [] OTHER -> open

\* The groups that are open after each entry, from the top.
OpenAfter(doc) ==
  LET open[k \in 0..Len(doc)] == IF k = 0 THEN <<>> ELSE Enter(doc, open[k - 1], k)
  IN  open

Groups(doc, l) == Range(OpenAfter(doc)[l - 1])

\* A canvas of the compositor: what is drawn on it, and whether there is
\* something to clip the next layer with.
Canvas == [drawn |-> {}, clip |-> FALSE]

DrawLayer(target, e, l, shown) ==
  CASE ~shown -> [target EXCEPT !.clip = FALSE]
    [] shown /\ (~e.pixels \/ (e.clipping /\ ~target.clip)) -> target
    [] OTHER -> [drawn |-> target.drawn \cup {l}, clip |-> TRUE]

DrawGroup(target, group, shown) ==
  IF shown THEN [drawn |-> target.drawn \cup group.drawn, clip |-> TRUE]
  ELSE [target EXCEPT !.clip = FALSE]

\* One entry on the stack of canvases: a divider begins a group, which the
\* entry of the group draws on the canvas below.
DrawOnStack(stack, e, l, shown) ==
  CASE e.kind = "divider" -> Append(stack, Canvas)
    [] OpensGroup(e) /\ Len(stack) > 1 ->
         LET below == Front(stack)
         IN  [below EXCEPT ![Len(below)] = DrawGroup(@, Last(stack), shown)]
    [] OpensGroup(e) /\ Len(stack) <= 1 -> stack
    [] OTHER -> [stack EXCEPT ![Len(stack)] = DrawLayer(@, e, l, shown)]

\* PSDRenderer.render: the canvases before each entry, from the bottom.
Canvases(doc, visible) ==
  LET stack[l \in 1..Len(doc) + 1] ==
        IF l > Len(doc) THEN <<Canvas>> ELSE DrawOnStack(stack[l + 1], doc[l], l, visible[l])
  IN  stack

Picture(doc, visible) == Canvases(doc, visible)[1][1].drawn

----------------------------------------------------------------------------
(* The page.                                                               *)

NoThumbs(doc) == [l \in DOMAIN doc |-> 0]

\* What createPSDRenderWorker makes, and the state the effect sets. The
\* canvas, the tree and the rendering flag are those of the file before.
Opened(doc, before) ==
  [before EXCEPT !.doc = doc, !.file = @ + 1, !.loading = TRUE,
                 !.wanted = Visible(doc), !.eyes = Visible(doc), !.thumbs = NoThumbs(doc)]

Blank ==
  [on |-> TRUE, file |-> 0, doc |-> <<>>, loading |-> FALSE, rendering |-> FALSE,
   tree |-> 0, canvas |-> [of |-> 0, visible |-> <<>>], wanted |-> <<>>, eyes |-> <<>>,
   thumbs |-> <<>>, toggles |-> 0, serial |-> 0]

Closed == [Blank EXCEPT !.on = FALSE]

NewWorker == [step |-> "opening", at |-> 0, visible |-> <<>>]
Load == [type |-> "load"]

PsdInit ==
  /\ Init /\ outbox = <<>>
  /\ \/ viewer = Closed /\ inbox = <<>>
     \/ \E doc \in Documents : viewer = Opened(doc, Blank) /\ inbox = <<Load>>
  /\ worker = NewWorker

\* Mutant of Terminated: the worker is only told to abort.
AbortOnly ==
  /\ inbox' = <<Load>> /\ UNCHANGED outbox

\* abort: what the worker has sent and was sent is lost with it.
Terminated ==
  /\ inbox' = <<Load>> /\ outbox' = <<>>

\* The viewer shows another file: cleanup and effect.
NextFile ==
  /\ viewer.on /\ viewer.file < MaxOpened
  /\ \E doc \in Documents : viewer' = Opened(doc, viewer)
  /\ worker' = NewWorker /\ Terminated
  /\ file' = "none" /\ fetched' = {} /\ fetching' = Nobody
  /\ call' = [c \in Calls |-> NotCalled]
  /\ UNCHANGED <<cursor, loader, aborted>>

PanelShown == viewer.on /\ ~viewer.loading /\ viewer.doc # <<>>

\* The panel, or a group in it, is closed and opened: its items start again.
ReopenPanel ==
  /\ PanelShown
  /\ \E part \in {DOMAIN viewer.doc}
                 \cup {{l \in DOMAIN viewer.doc : g \in Groups(viewer.doc, l)} :
                         g \in {k \in DOMAIN viewer.doc : OpensGroup(viewer.doc[k])}} :
       viewer' = [viewer EXCEPT
         !.eyes = [l \in DOMAIN @ |-> IF l \in part THEN viewer.doc[l].visible ELSE @[l]],
         !.thumbs = [l \in DOMAIN @ |-> IF l \in part THEN 0 ELSE @[l]]]
  /\ viewer' # viewer
  /\ UNCHANGED <<vars, worker, inbox, outbox>>

\* handleToggleVisibility and handleLayerVisibilityChange.
ToggleVisibility(l) ==
  /\ PanelShown /\ viewer.toggles < MaxToggles
  /\ l \in DOMAIN viewer.doc /\ viewer.doc[l].kind # "divider"
  /\ LET visible == ~viewer.eyes[l]
     IN  /\ viewer' = [viewer EXCEPT !.eyes[l] = visible, !.wanted[l] = visible,
                                     !.rendering = TRUE, !.toggles = @ + 1]
         /\ inbox' = Append(inbox, [type |-> "setLayerVisibility", layer |-> l, visible |-> visible])
  /\ UNCHANGED <<vars, worker, outbox>>

\* An item comes into view. A thumbnail is 0, the serial it was asked with,
\* or, once it is there, MaxThumbs + 1.
Shown == MaxThumbs + 1
AskThumbnail(l) ==
  /\ PanelShown /\ viewer.serial < MaxThumbs
  /\ l \in DOMAIN viewer.doc /\ viewer.doc[l].kind = "layer" /\ viewer.thumbs[l] = 0
  /\ LET serial == viewer.serial + 1
     IN  /\ viewer' = [viewer EXCEPT !.serial = serial, !.thumbs[l] = serial]
         /\ inbox' = Append(inbox, [type |-> "getLayerThumbnail", layer |-> l, serial |-> serial])
  /\ UNCHANGED <<vars, worker, outbox>>

\* handleWorkerMessage and the callbacks of the viewer.
OnMessage ==
  /\ viewer.on /\ outbox # <<>>
  /\ LET m == Head(outbox) IN
       viewer' =
         CASE m.type = "load" -> [viewer EXCEPT !.tree = viewer.file]
           [] m.type = "render" ->
                [viewer EXCEPT !.rendering = FALSE, !.loading = FALSE,
                               !.canvas = [of |-> m.of, visible |-> m.visible]]
           [] m.type = "layerThumbnail" ->
                [viewer EXCEPT !.thumbs =
                   [l \in DOMAIN @ |-> IF @[l] = m.serial /\ m.ok THEN Shown ELSE @[l]]]
  /\ outbox' = Tail(outbox)
  /\ UNCHANGED <<vars, worker, inbox>>

----------------------------------------------------------------------------
(* The worker. A load that fails rejects a promise of the worker, which    *)
(* nobody handles: the page is not told.                                   *)

Doc == viewer.doc
CanRead(c) == Ended(call[c].step)
Reads(c, op, span) ==
  /\ CanRead(c) /\ Begin(c, op, span.offset, span.size)
  /\ UNCHANGED <<file, fetched, cursor, loader, aborted>>
Goes(step) == worker' = [worker EXCEPT !.step = step]
Render(visible) ==
  [type |-> "render", of |-> viewer.file, visible |-> visible]

LoadMessage ==
  /\ inbox # <<>> /\ Head(inbox).type = "load"
  /\ CreateRemoteFile /\ file' # "remote"
  /\ inbox' = Tail(inbox)
  /\ UNCHANGED <<viewer, worker, outbox>>

ParseHeader ==
  /\ worker.step = "opening" /\ Open
  /\ Reads(Reader, "read", Header) /\ Goes("header")
  /\ UNCHANGED <<viewer, inbox, outbox>>

\* The layers are prefetched, which is not awaited.
PrefetchLayers ==
  /\ worker.step = "header" /\ call[Reader].step = "done"
  /\ Reads(Prefetcher, "prefetch", Section) /\ Goes("section")
  /\ UNCHANGED <<viewer, inbox, outbox>>

ParseLayers ==
  /\ worker.step = "section"
  /\ Reads(Reader, "read", Records) /\ Goes("records")
  /\ UNCHANGED <<viewer, inbox, outbox>>

\* The document is known to the page, and the layers come from the bottom.
Parsed ==
  /\ worker.step = "records" /\ call[Reader].step = "done"
  /\ worker' = [step |-> "layers", at |-> Len(Doc), visible |-> Visible(Doc)]
  /\ outbox' = Append(outbox, [type |-> "load"])
  /\ UNCHANGED <<vars, viewer, inbox>>

LoadLayer ==
  /\ worker.step = "layers" /\ worker.at > 0 /\ Doc[worker.at].pixels
  /\ Reads(Reader, "read", LayerData[worker.at]) /\ Goes("reading")
  /\ UNCHANGED <<viewer, inbox, outbox>>

LayerLoaded ==
  /\ \/ worker.step = "reading" /\ call[Reader].step = "done"
     \/ worker.step = "layers" /\ worker.at > 0 /\ ~Doc[worker.at].pixels
  /\ worker' = [worker EXCEPT !.step = "layers", !.at = @ - 1]
  /\ UNCHANGED <<vars, viewer, inbox, outbox>>

\* A document without layers is not rendered.
FirstRender ==
  /\ worker.step = "layers" /\ worker.at = 0
  /\ Goes("ready")
  /\ outbox' = IF Doc = <<>> THEN outbox ELSE Append(outbox, Render(worker.visible))
  /\ UNCHANGED <<vars, viewer, inbox>>

\* A read failed, or the file is not understood.
LoadFails ==
  /\ \/ worker.step = "opening" /\ file = "failed"
     \/ worker.step \in {"header", "records", "reading"} /\ call[Reader].step \in {"done", "failed"}
  /\ Goes("failed")
  /\ UNCHANGED <<vars, viewer, inbox, outbox>>

SetLayerVisibility ==
  /\ inbox # <<>> /\ Head(inbox).type = "setLayerVisibility"
  /\ LET m == Head(inbox)
         visible == [worker.visible EXCEPT ![m.layer] = m.visible]
     IN  /\ worker' = [worker EXCEPT !.visible = visible]
         /\ outbox' = Append(outbox, Render(visible))
  /\ inbox' = Tail(inbox)
  /\ UNCHANGED <<vars, viewer>>

\* What the thumbnail is made of has been read with the layers.
GetLayerThumbnail ==
  /\ inbox # <<>> /\ Head(inbox).type = "getLayerThumbnail"
  /\ LET m == Head(inbox)
     IN  outbox' = Append(outbox, [type |-> "layerThumbnail", serial |-> m.serial,
                                   ok |-> Doc[m.layer].pixels])
  /\ inbox' = Tail(inbox)
  /\ UNCHANGED <<vars, viewer, worker>>

----------------------------------------------------------------------------
FileStep ==
  /\ HeadAnswered \/ FileFetched \/ \E c \in Call : CallStep(c)
  /\ UNCHANGED psdVars

WorkerStep ==
  \/ LoadMessage \/ ParseHeader \/ PrefetchLayers \/ ParseLayers \/ Parsed
  \/ LoadLayer \/ LayerLoaded \/ FirstRender \/ LoadFails
  \/ SetLayerVisibility \/ GetLayerThumbnail

\* Another viewer, whose calls RemoteFile has; only a parser prefetches more.
OtherViewer == Next /\ call'[Prefetcher] = call[Prefetcher] /\ UNCHANGED psdVars

PsdNext ==
  \/ ~viewer.on /\ OtherViewer
  \/ viewer.on /\ (FileStep \/ WorkerStep)
  \/ NextFile \/ ReopenPanel \/ OnMessage
  \/ \E doc \in Documents : \E l \in DOMAIN doc : ToggleVisibility(l) \/ AskThumbnail(l)

PsdSpec == PsdInit /\ [][PsdNext]_allVars

\* As in RemoteFile; the worker runs, and messages are delivered.
PsdFairSpec ==
  /\ PsdSpec
  /\ \A c \in Calls : WF_allVars(CallStep(c) /\ UNCHANGED psdVars)
  /\ WF_allVars(~viewer.on /\ LoaderPrefetches /\ loader.step = "loading" /\ UNCHANGED psdVars)
  /\ WF_allVars(LoaderAdvances /\ UNCHANGED psdVars) /\ WF_allVars(LoaderEnds /\ UNCHANGED psdVars)
  /\ WF_allVars(viewer.on /\ (HeadAnswered \/ FileFetched) /\ UNCHANGED psdVars)
  /\ WF_allVars(viewer.on /\ WorkerStep) /\ WF_allVars(OnMessage)

----------------------------------------------------------------------------
(* Properties.                                                             *)

\* Nothing is under way between the page and the worker.
Quiet == viewer.on /\ ~viewer.loading /\ inbox = <<>> /\ outbox = <<>>

\* A layer that is to be seen, by the tree of the panel and what was asked.
Seen(doc, visible, l) == visible[l] /\ \A g \in Groups(doc, l) : visible[g]

\* The picture is that of the layers to be seen: one that is not clipped is
\* drawn if and only if it is to be seen, a clipped one only then.
Depicts(drawn, doc, visible) ==
  /\ \A l \in drawn : Seen(doc, visible, l)
  /\ \A l \in DOMAIN doc :
       doc[l].kind = "layer" /\ doc[l].pixels /\ ~doc[l].clipping /\ Seen(doc, visible, l)
       => l \in drawn

\* Every divider ends a group, and every group is ended.
Nests(doc) ==
  /\ \A k \in DOMAIN doc : doc[k].kind = "divider" => OpenAfter(doc)[k - 1] # <<>>
  /\ OpenAfter(doc)[Len(doc)] = <<>>

\* What the compositor draws of documents, whatever is visible, is what the
\* panel says is to be seen.
CompositorAgrees(docs) ==
  \A doc \in docs : \A visible \in [DOMAIN doc -> BOOLEAN] :
    Depicts(Picture(doc, visible), doc, visible)

\* When all messages have been taken, the canvas shows the file of the
\* viewer and no other, and on it the layers that were last asked for. So
\* the worker of a file that was left draws nothing, toggles are not lost or
\* swapped, and the compositor and the panel agree on the groups
\* (renderWorker.ts:66-73, psd.worker.ts:128-143, render.ts:170-214,
\* layerUtils.ts:9-58).
ShowsWhatWasAsked ==
  Quiet =>
    /\ viewer.canvas.of = viewer.file /\ viewer.tree = viewer.file /\ ~viewer.rendering
    /\ Depicts(Picture(Doc, viewer.canvas.visible), Doc, viewer.wanted)

Busy == viewer.on /\ (viewer.loading \/ viewer.rendering)

\* Every call of a file ends, and so does every wait of the viewer: the
\* spinners of a load and of toggles go, unless the load failed or there is
\* nothing to draw, of which the page is never told (PSDViewer.tsx:68-86,
\* psd.worker.ts:95-132).
ViewersSettle ==
  /\ CallsEnd
  /\ Busy ~> (~Busy \/ worker.step = "failed" \/ Doc = <<>>)

\* layersPanel: the eye of a layer says whether it is drawn. It does not
\* after the panel has been closed and opened (LayersPanel.tsx:162, "TODO:
\* Layer visibility falls out of sync when collapsing/expanding panel").
EyesTellWhatIsShown ==
  Quiet => \A l \in DOMAIN viewer.doc : viewer.eyes[l] = viewer.wanted[l]
===============================================================================
