----------------------------- MODULE FrameTable -----------------------------
(***************************************************************************)
(* The frame table of one tab (CFrameTable, CFrame, FrameTable.cpp) under  *)
(* the events of CUpgradrBHO: which documents of the tab are managed, by   *)
(* which frames, and how the frames are linked.                            *)
(*                                                                         *)
(* All of it runs on the browser thread of the tab.  But creating a frame  *)
(* runs the scripts of its document, before its id is set and it is        *)
(* inserted, and a script that shows a dialog dispatches messages: then    *)
(* IE goes on loading and calls the BHO again, inside the handler under    *)
(* way.  todo is the stack of what the handlers have left to do.           *)
(*                                                                         *)
(* External: IE, which loads and unloads documents as it likes, one top    *)
(* document and the documents of its frames and subframes.  The id of a    *)
(* document is a variable of its window, so it goes with the document.     *)
(***************************************************************************)
EXTENDS Naturals, Sequences

CONSTANTS
    Docs,       \* documents IE loads into the tab
    NoDoc,      \* the parent of a top document
    MaxFrames,  \* bound: no event once this many frame ids are generated
    MaxNesting  \* bound: scripts under way in which IE may call the BHO again

ASSUME DocsAssumption == NoDoc \notin Docs

NULL_FRAME == 0

VARIABLES
    born,       \* documents IE has loaded so far
    shown,      \* documents that are in the tab now
    parent,     \* document -> the document it is embedded in
    frameId,    \* document -> window.UpgradrFrameId
    m_NextId,   \* CFrameManager: the last id generated
    table,      \* frame id -> m_Document, m_ChildFrames
    m_RequestReload,
    m_DownloadInProgress,
    m_HookedDoc,\* document whose commands come to the BHO (Exec)
    todo,       \* what the handlers have left to do, the innermost one first
    expected    \* auxiliary: documents seen by the last OnRefreshEnd, less
                \* those released since

ie == <<born, shown, parent>>
frames == <<frameId, table>>
flags == <<m_RequestReload, m_DownloadInProgress, m_HookedDoc>>
vars == <<ie, frames, m_NextId, flags, todo, expected>>

Create(d) == [do |-> "create", doc |-> d]
Insert(d, id) == [do |-> "insert", doc |-> d, id |-> id]
SetupEnvironment == [do |-> "setup"]
Missing(docs) == [do |-> "missing", docs |-> docs]
CreateTop == [do |-> "create top"]
UpdateLinks == [do |-> "update links"]

Init ==
    /\ born = {} /\ shown = {}
    /\ parent = [d \in Docs |-> NoDoc]
    /\ frameId = [d \in Docs |-> NULL_FRAME]
    /\ m_NextId = 0
    /\ table = [id \in {} |-> [doc |-> NoDoc, links |-> {}]]
    /\ m_RequestReload = FALSE /\ m_DownloadInProgress = FALSE
    /\ m_HookedDoc = NoDoc
    /\ todo = <<>>
    /\ expected = {}

IsManaged(d) == frameId[d] # NULL_FRAME
IsTop(d) == d \in shown /\ parent[d] = NoDoc
Embedded(d) == {c \in shown : parent[c] = d}

\* What start and its successors lead to.
Reachable(start, next) ==
    {y \in DOMAIN next : \A S \in SUBSET DOMAIN next :
        start \in S /\ (\A x \in S : next[x] \subseteq S) => y \in S}

Subtree(d) == Reachable(d, [c \in shown |-> Embedded(c)])

Doing(do) == todo # <<>> /\ Head(todo).do = do

\* Scripts under way.
Nesting == Len(SelectSeq(todo, LAMBDA step : step.do = "insert"))

\* IE may load documents and call the BHO: no handler runs, or a script does.
Dispatching == todo = <<>> \/ (Doing("insert") /\ Nesting <= MaxNesting)

----------------------------------------------------------------------------
\* IE.

Load(d, p) ==
    /\ Dispatching
    /\ d \in Docs \ born /\ p \in shown
    /\ born' = born \cup {d}
    /\ shown' = shown \cup {d}
    /\ parent' = [parent EXCEPT ![d] = p]
    /\ UNCHANGED <<frames, m_NextId, flags, todo, expected>>

\* A new top document takes the place of the old one and all its frames.
LoadTop(d) ==
    /\ Dispatching
    /\ d \in Docs \ born
    /\ born' = born \cup {d}
    /\ shown' = {d}
    /\ UNCHANGED <<parent, frames, m_NextId, flags, todo, expected>>

\* A frame goes, with or without an event: a script may remove it.
Unload(d) ==
    /\ Dispatching
    /\ d \in shown /\ ~IsTop(d)
    /\ shown' = shown \ Subtree(d)
    /\ UNCHANGED <<born, parent, frames, m_NextId, flags, todo, expected>>

----------------------------------------------------------------------------
\* CFrameTable.

\* Mutant: a frame that is destroyed leaves its id in the document.
RemoveFrames_KeepIds(ids) ==
    /\ UNCHANGED frameId
    /\ table' = [id \in DOMAIN table \ ids |->
                   [table[id] EXCEPT !.links = @ \ ids]]

\* Mutant: the links to a frame stay when it is removed.
RemoveFrames_KeepLinks(ids) ==
    /\ frameId' = [d \in Docs |->
                     IF \E id \in ids \cap DOMAIN table : table[id].doc = d
                     THEN NULL_FRAME ELSE frameId[d]]
    /\ table' = [id \in DOMAIN table \ ids |-> table[id]]

\* Remove of each: the frame is deleted, its document marked as not managed (a
\* document that denies it reads as not managed anyway), its links cleared.
RemoveFrames(ids) ==
    /\ frameId' = [d \in Docs |->
                     IF \E id \in ids \cap DOMAIN table : table[id].doc = d
                     THEN NULL_FRAME ELSE frameId[d]]
    /\ table' = [id \in DOMAIN table \ ids |->
                   [table[id] EXCEPT !.links = @ \ ids]]

\* Destroy: the frame of d and those its links lead to (GetListRecursive).
Destroy(d) ==
    /\ RemoveFrames(Reachable(frameId[d], [id \in DOMAIN table |-> table[id].links]))
    /\ expected' = expected \ Subtree(d)

Clear == RemoveFrames(DOMAIN table)

\* Mutant: the id is taken from the table, not from the frame manager.
GenerateFrameId_Reused ==
    m_NextId' = CHOOSE id \in 1 .. m_NextId + 1 : id \notin DOMAIN table

GenerateFrameId == m_NextId' = m_NextId + 1

\* Create, as far as the scripts of the document: the constructor of CFrame up to
\* Attach, with a new id; or nothing for a document that is managed.
CreateStep ==
    /\ Doing("create")
    /\ LET d == Head(todo).doc IN
          IF IsManaged(d)
          THEN todo' = Tail(todo) /\ UNCHANGED m_NextId
          ELSE /\ GenerateFrameId
               /\ todo' = <<Insert(d, m_NextId')>> \o Tail(todo)
    /\ UNCHANGED <<ie, frames, flags, expected>>

\* The scripts have run: SetFrameId, Insert.
InsertStep ==
    /\ Doing("insert")
    /\ LET d == Head(todo).doc
           new == Head(todo).id
       IN /\ frameId' = [frameId EXCEPT ![d] = new]
          /\ table' = [id \in DOMAIN table \cup {new} |->
                         IF id = new THEN [doc |-> d, links |-> {}] ELSE table[id]]
    /\ todo' = Tail(todo)
    /\ UNCHANGED <<ie, m_NextId, flags, expected>>

\* Mutant: documents that are not managed are not left out.
UpdateLinksStep_Null ==
    /\ Doing("update links")
    /\ table' = [id \in DOMAIN table |->
                   [table[id] EXCEPT !.links =
                      {frameId[c] : c \in Embedded(table[id].doc)}]]
    /\ todo' = Tail(todo)
    /\ UNCHANGED <<ie, frameId, m_NextId, flags, expected>>

\* Mutant: a frame is linked to the frames of every document of the tab.
UpdateLinksStep_All ==
    /\ Doing("update links")
    /\ table' = [id \in DOMAIN table |->
                   [table[id] EXCEPT !.links =
                      {frameId[c] : c \in shown} \ {NULL_FRAME, id}]]
    /\ todo' = Tail(todo)
    /\ UNCHANGED <<ie, frameId, m_NextId, flags, expected>>

\* The frames of the documents embedded in that of a frame, those that are not
\* managed left out.
ChildFrames(id) == {frameId[c] : c \in Embedded(table[id].doc)} \ {NULL_FRAME}

\* UpdateLinks of each frame.
UpdateLinksStep ==
    /\ Doing("update links")
    /\ table' = [id \in DOMAIN table |-> [table[id] EXCEPT !.links = ChildFrames(id)]]
    /\ todo' = Tail(todo)
    /\ UNCHANGED <<ie, frameId, m_NextId, flags, expected>>

----------------------------------------------------------------------------
\* CUpgradrBHO.

\* Mutant: only the frames of the top document are looked at, not their frames.
FindMissingLinks_Shallow ==
    {d \in shown : ~IsTop(d) /\ IsTop(parent[d]) /\ ~IsManaged(d)}

FindMissingLinks == {d \in shown : ~IsTop(d) /\ ~IsManaged(d)}

\* OnRefreshEnd, and rest after it.
OnRefreshEnd(rest) ==
    /\ m_RequestReload' = FALSE
    /\ expected' = shown
    /\ todo' = <<Missing(FindMissingLinks), CreateTop, UpdateLinks>> \o rest

SetupStep ==
    /\ Doing("setup")
    /\ \E d \in shown : IsTop(d) /\ m_HookedDoc' = d
    /\ OnRefreshEnd(Tail(todo))
    /\ UNCHANGED <<ie, frames, m_NextId, m_DownloadInProgress>>

\* ProcessDocumentRefresh of one missing document, parents first.  It may be gone
\* by now, and may be managed.
MissingStep ==
    /\ Doing("missing")
    /\ LET docs == Head(todo).docs IN
          \/ docs = {} /\ todo' = Tail(todo)
          \/ \E d \in docs :
                /\ parent[d] \notin docs
                /\ todo' = (IF IsManaged(d) THEN <<>> ELSE <<Create(d)>>)
                             \o <<Missing(docs \ {d})>> \o Tail(todo)
    /\ UNCHANGED <<ie, frames, m_NextId, flags, expected>>

CreateTopStep ==
    /\ Doing("create top")
    /\ \E d \in shown : IsTop(d) /\ todo' = <<Create(d)>> \o Tail(todo)
    /\ UNCHANGED <<ie, frames, m_NextId, flags, expected>>

----------------------------------------------------------------------------
\* Exceptions (CHECK_COM): a document fails a call or denies the frame id.

\* Mutant: the exception leaves only the step that fails.
Unwind_OneStep == todo' = Tail(todo) /\ UNCHANGED expected

\* No handler catches it: the one under way ends there, as far as IE called it, and
\* a script inside which IE called it goes on.  A refresh that ends so has no
\* documents to find.
Unwind ==
    \E n \in DOMAIN todo :
        /\ \A i \in 2 .. n : todo[i].do # "insert"
        /\ n < Len(todo) => todo[n + 1].do = "insert"
        /\ todo' = SubSeq(todo, n + 1, Len(todo))
        /\ expected' = IF \E i \in 1 .. n : todo[i].do = "update links"
                       THEN {} ELSE expected

\* A new frame whose constructor is left so is not inserted, its id is used up.
\* SetupEnvironment has taken its hook away by then.
Throw ==
    /\ todo # <<>> /\ ~Doing("update links")
    /\ Unwind
    /\ m_HookedDoc' = IF Doing("setup") THEN NoDoc ELSE m_HookedDoc
    /\ UNCHANGED <<ie, frames, m_NextId, m_RequestReload, m_DownloadInProgress>>

\* The links of a frame are half made, those of the frames behind it as before.
UpdateLinksFails ==
    /\ Doing("update links")
    /\ \E bad \in DOMAIN table : \E made \in SUBSET ChildFrames(bad) :
          table' = [id \in DOMAIN table |->
                      IF id > bad THEN table[id]
                      ELSE [table[id] EXCEPT !.links =
                              IF id = bad THEN made ELSE ChildFrames(id)]]
    /\ Unwind
    /\ UNCHANGED <<ie, frameId, m_NextId, flags>>

----------------------------------------------------------------------------
\* Events.

Calls == Dispatching /\ m_NextId < MaxFrames

\* ProcessDocument: a document that is managed already is released first.
OnDocumentComplete(d) ==
    /\ Calls
    /\ d \in shown /\ ~m_DownloadInProgress
    /\ IF IsManaged(d) THEN Destroy(d) ELSE UNCHANGED <<frames, expected>>
    /\ todo' = <<Create(d)>>
                 \o (IF IsTop(d) THEN <<SetupEnvironment>> ELSE <<>>) \o todo
    /\ UNCHANGED <<ie, m_NextId, flags>>

OnBeforeNavigate2(d) ==
    /\ Calls
    /\ d \in shown /\ IsManaged(d)
    /\ Destroy(d)
    /\ UNCHANGED <<ie, m_NextId, flags, todo>>

\* Exec with a refresh command, OnRefreshStart.
OnRefreshStart ==
    /\ Calls
    /\ \E d \in shown : IsTop(d) /\ m_HookedDoc = d
    /\ m_RequestReload' = TRUE
    /\ Clear
    /\ expected' = {}
    /\ UNCHANGED <<ie, m_NextId, m_DownloadInProgress, m_HookedDoc, todo>>

\* OnProgressChange(0, 0): the refresh has ended.
OnProgressChange ==
    /\ Calls
    /\ m_RequestReload
    /\ OnRefreshEnd(todo)
    /\ UNCHANGED <<ie, frames, m_NextId, m_DownloadInProgress, m_HookedDoc>>

\* OnDownloadBegin, OnDownloadComplete, which come in turn.
OnDownload ==
    /\ Dispatching
    /\ m_DownloadInProgress' = ~m_DownloadInProgress
    /\ UNCHANGED <<ie, frames, m_NextId, m_RequestReload, m_HookedDoc, todo, expected>>

----------------------------------------------------------------------------
IEStep == \E d \in Docs : LoadTop(d) \/ Unload(d) \/ \E p \in Docs : Load(d, p)

HandlerStep ==
    \/ CreateStep \/ InsertStep \/ UpdateLinksStep
    \/ SetupStep \/ MissingStep \/ CreateTopStep
    \/ Throw \/ UpdateLinksFails

Event ==
    \/ \E d \in Docs : OnDocumentComplete(d) \/ OnBeforeNavigate2(d)
    \/ OnRefreshStart \/ OnProgressChange \/ OnDownload

Next == IEStep \/ HandlerStep \/ Event

Spec == Init /\ [][Next]_vars

----------------------------------------------------------------------------
TypeOK ==
    /\ born \subseteq Docs /\ shown \subseteq born
    /\ parent \in [Docs -> Docs \cup {NoDoc}]
    /\ frameId \in [Docs -> Nat]
    /\ m_NextId \in Nat
    /\ DOMAIN table \subseteq 1 .. m_NextId
    /\ table \in [DOMAIN table -> [doc : born, links : SUBSET (1 .. m_NextId)]]
    /\ m_HookedDoc \in Docs \cup {NoDoc}
    /\ expected \subseteq Docs

\* A document that says it is managed has a frame, and that frame wraps it: what
\* Destroy asserts (FrameTable.cpp:51) and OnBeforeNavigate2 reports as "this
\* should never happen" (UpgradrBHO.cpp:258), whatever handlers run inside the
\* creation of a frame, and though one document may have had several frames.
ManagedHasFrame ==
    \A d \in Docs : IsManaged(d) =>
        frameId[d] \in DOMAIN table /\ table[frameId[d]].doc = d

\* A frame is linked to frames of the table only, so GetListRecursive, which
\* follows links while Destroy removes frames, never meets a frame that is gone
\* (RemoveLink, FrameTable.cpp:134-140).
LinksInTable ==
    \A id \in DOMAIN table : table[id].links \subseteq DOMAIN table

\* Links run from a document to a document embedded in it, also between frames
\* of documents that are gone: there is no circle, so GetListRecursive
\* (FrameTable.cpp:152) returns.
LinksFollowTree ==
    \A id \in DOMAIN table : \A link \in table[id].links \cap DOMAIN table :
        parent[table[link].doc] = table[id].doc

PendingIds == {todo[i].id : i \in {j \in DOMAIN todo : todo[j].do = "insert"}}

\* A frame whose scripts are running finds its place in the table free, and no
\* other such frame has its id ("ATLASSERT(find(id)==end())", FrameTable.cpp:99).
InsertFindsRoom ==
    /\ PendingIds \cap DOMAIN table = {}
    /\ \A i, j \in DOMAIN todo :
          todo[i].do = "insert" /\ todo[j].do = "insert" /\ todo[i].id = todo[j].id
              => i = j

\* When OnRefreshEnd comes to update the links, every document it found in the
\* tab, and that is still there and was not released meanwhile, is managed:
\* documents that were missing are created whatever IE and the scripts of the
\* other documents do in between, and whatever fails in a handler that runs inside
\* such a script (UpgradrBHO.cpp:192-215).
RefreshFindsAll ==
    Doing("update links") => \A d \in expected \cap shown : IsManaged(d)

\* "it tracks a tree of IHTMLDocument2 for open tabs and their frames"
\* (README.markdown:11): a document has one frame at most.
OneFramePerDocument ==
    \A f, g \in DOMAIN table : table[f].doc = table[g].doc => f = g

=============================================================================
