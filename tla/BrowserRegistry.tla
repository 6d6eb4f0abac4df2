--------------------------- MODULE BrowserRegistry ---------------------------
(***************************************************************************)
(* CBrowserManager, and the objects of a browser that register in it: the  *)
(* BHO, the helperbar and the workspace window of the helperbar, whose     *)
(* panes CWindowManager keeps by the id of the browser.                    *)
(*                                                                         *)
(* The objects of one browser live on its thread, and every method of the  *)
(* manager runs under BROWSERMANAGER, so a call of SetSite is one step.    *)
(* While the UI thread asks for a DOM the thread of that browser waits for *)
(* its reply (LockClients), so InitializeDefaultPanes is one step as well. *)
(***************************************************************************)
EXTENDS Naturals, FiniteSets, Functions

CONSTANTS
    Browsers,   \* IUnknown pointers of top-level browsers; not add-ref'd
    MaxId,      \* bound on the ids handed out
    MaxObjects, \* bound on the BHO objects made
    MaxLost     \* bound on helperbars released after a failed SetSite

ASSUME BrowserBoundsAssumption == MaxId \in Nat /\ MaxObjects \in Nat /\ MaxLost \in Nat

NULL_BROWSER == 0
NoBHO == 0

VARIABLES
    m_Browsers, \* id -> CBrowserMessageWindow, for the ids in the map
    m_NextId,
    bho,        \* browser -> its BHO with a site, and m_BrowserId of that BHO
    unregistered, \* browsers whose BHO was left by SetSite before it had an id
    bar,        \* browser -> state and m_BrowserId of its helperbar
    workspace,  \* browser -> m_BrowserId of the workspace window, UM_POSTCREATE posted
    panes,      \* ids of the browsers that have their panes in m_WindowsMap
    objects,    \* BHO objects made so far; they are named by their number
    lost,       \* id -> references of helperbars released without SetSite(NULL)
    fault       \* what ended the process

vars == <<m_Browsers, m_NextId, bho, unregistered, bar, workspace, panes, objects, lost, fault>>

Ids == 1 .. MaxId
BHOs == 1 .. MaxObjects
NoSite == [object |-> NoBHO, m_BrowserId |-> NULL_BROWSER]
NoBar == [state |-> "none", m_BrowserId |-> NULL_BROWSER]
NoWindow == [m_BrowserId |-> NULL_BROWSER, posted |-> FALSE]

Init ==
    /\ m_Browsers = [id \in {} |-> NoSite]
    /\ m_NextId = NULL_BROWSER
    /\ bho = [b \in Browsers |-> NoSite]
    /\ unregistered = {}
    /\ bar = [b \in Browsers |-> NoBar]
    /\ workspace = [b \in Browsers |-> NoWindow]
    /\ panes = {}
    /\ objects = 0
    /\ lost = [id \in Ids |-> 0]
    /\ fault = "none"

----------------------------------------------------------------------------
\* CBrowserManager

\* FindBrowserId: the entries whose interface is the given pointer
Entries(b) == {id \in DOMAIN m_Browsers : m_Browsers[id].m_BrowserInterface = b}

\* CBrowserMessageWindow(browserInterface, pBHO); no caller names a helperbar here.
NewEntry(b, object) ==
    [m_RefCount |-> 1, m_BrowserInterface |-> b, m_BHO |-> object]

\* Mutant: an existing entry keeps the BHO it has.
Shared_NotFilled(entry, object) == [entry EXCEPT !.m_RefCount = @ + 1]

\* Mutant: the new holder is not counted.
Shared_NotCounted(entry, object) ==
    [entry EXCEPT !.m_BHO = IF object = NoBHO THEN @ ELSE object]

\* AddRef, "fill missing data"
Shared(entry, object) ==
    [m_RefCount |-> entry.m_RefCount + 1,
     m_BrowserInterface |-> entry.m_BrowserInterface,
     m_BHO |-> IF object = NoBHO THEN entry.m_BHO ELSE object]

\* Mutant: every registration makes an entry of its own.
AllocBrowserId_Fresh(b, object, id) ==
    /\ m_NextId < MaxId
    /\ id = m_NextId + 1
    /\ m_NextId' = id
    /\ m_Browsers' = [i \in DOMAIN m_Browsers \cup {id} |->
                         IF i = id THEN NewEntry(b, object) ELSE m_Browsers[i]]

\* Hands out id to an object of browser b; object is its BHO, or NoBHO.
AllocBrowserId(b, object, id) ==
    IF Entries(b) # {}
    THEN /\ id \in Entries(b)
         /\ m_Browsers' = [m_Browsers EXCEPT ![id] = Shared(@, object)]
         /\ UNCHANGED m_NextId
    ELSE /\ m_NextId < MaxId
         /\ id = m_NextId + 1
         /\ m_NextId' = id
         /\ m_Browsers' = [i \in DOMAIN m_Browsers \cup {id} |->
                              IF i = id THEN NewEntry(b, object) ELSE m_Browsers[i]]

\* Release
OneLess(entry) ==
    [m_RefCount |-> entry.m_RefCount - 1,
     m_BrowserInterface |-> entry.m_BrowserInterface,
     m_BHO |-> entry.m_BHO]

\* Mutant: the entry goes with the first object that leaves.
ReleaseBrowserId_First(id) ==
    m_Browsers' = Restrict(m_Browsers, DOMAIN m_Browsers \ {id})

\* Mutant: an entry without references stays in the map.
ReleaseBrowserId_Kept(id) == m_Browsers' = [m_Browsers EXCEPT ![id] = OneLess(@)]

\* An id that is not in the map is an ATLASSERT, and undefined behaviour.
ReleaseBrowserId(id) ==
    m_Browsers' =
        IF m_Browsers[id].m_RefCount = 1
        THEN Restrict(m_Browsers, DOMAIN m_Browsers \ {id})
        ELSE [m_Browsers EXCEPT ![id] = OneLess(@)]

\* Calls RefreshDOMExplorer of the BHO of the entry: through a NULL pointer if no
\* BHO has registered, through a stale one if the BHO has lost its site since.
RequestDOM(id) ==
    fault' =
        IF id \notin DOMAIN m_Browsers THEN fault
        ELSE IF m_Browsers[id].m_BHO = NoBHO THEN "no BHO"
        ELSE IF \E b \in Browsers : bho[b].object = m_Browsers[id].m_BHO THEN fault
        ELSE "stale BHO"

----------------------------------------------------------------------------
\* The objects of browser b.

\* CUpgradrBHO::SetSite(pUnkSite) of a new BHO
BHOSetSite(b) ==
    /\ bho[b] = NoSite /\ b \notin unregistered
    /\ objects < MaxObjects
    /\ objects' = objects + 1
    /\ \E id \in Ids :
          /\ AllocBrowserId(b, objects + 1, id)
          /\ bho' = [bho EXCEPT ![b] = [object |-> objects + 1, m_BrowserId |-> id]]
    /\ UNCHANGED <<unregistered, bar, workspace, panes, lost, fault>>

\* CWindowManager::RemoveBrowserWindows
RemoveBrowserWindows(id) == panes' = panes \ {id}

\* CUpgradrBHO::SetSite(NULL); IE releases the BHO afterwards.
BHOClearSite(b) ==
    /\ bho[b] # NoSite
    /\ RemoveBrowserWindows(bho[b].m_BrowserId)
    /\ ReleaseBrowserId(bho[b].m_BrowserId)
    /\ bho' = [bho EXCEPT ![b] = NoSite]
    /\ UNCHANGED <<m_NextId, unregistered, bar, workspace, objects, lost, fault>>

\* A CHECK of SetSite throws before AllocBrowserId: the browser has no IWebBrowser2 or
\* takes no sink.  The BHO has no id.
BHOSetSiteFails(b) ==
    /\ bho[b] = NoSite /\ b \notin unregistered
    /\ objects < MaxObjects
    /\ objects' = objects + 1
    /\ unregistered' = unregistered \cup {b}
    /\ UNCHANGED <<m_Browsers, m_NextId, bho, bar, workspace, panes, lost, fault>>

\* IE releases such a BHO at once ...
BHORelease(b) ==
    /\ b \in unregistered
    /\ unregistered' = unregistered \ {b}
    /\ UNCHANGED <<m_Browsers, m_NextId, bho, bar, workspace, panes, objects, lost, fault>>

\* ... or calls SetSite(NULL) before: ReleaseBrowserId(NULL_BROWSER) goes through end().
BHOClearUnregistered(b) ==
    /\ b \in unregistered
    /\ unregistered' = unregistered \ {b}
    /\ fault' = "no entry"
    /\ UNCHANGED <<m_Browsers, m_NextId, bho, bar, workspace, panes, objects, lost>>

\* CUpgradrHelperbar::SetSite(pUnkSite).  Without a base window it fails after it
\* has registered, else CreateMainWindow makes the windows unless they exist: those
\* of a helperbar that gets a site again keep their id.
BarSetSite(b) ==
    /\ bar[b].state \in {"none", "unsited"}
    /\ \E id \in Ids, state \in {"sited", "failed"} :
          /\ AllocBrowserId(b, NoBHO, id)
          /\ bar' = [bar EXCEPT ![b] = [state |-> state, m_BrowserId |-> id]]
          /\ workspace' =
                IF state = "sited" /\ workspace[b] = NoWindow
                THEN [workspace EXCEPT ![b] = [m_BrowserId |-> id, posted |-> TRUE]]
                ELSE workspace
    /\ UNCHANGED <<bho, unregistered, panes, objects, lost, fault>>

\* CUpgradrHelperbar::SetSite(NULL); the windows live on with the object.
BarClearSite(b) ==
    /\ bar[b].state \in {"sited", "failed"}
    /\ ReleaseBrowserId(bar[b].m_BrowserId)
    /\ bar' = [bar EXCEPT ![b] = [state |-> "unsited", m_BrowserId |-> NULL_BROWSER]]
    /\ UNCHANGED <<m_NextId, bho, unregistered, workspace, panes, objects, lost, fault>>

\* A helperbar whose SetSite failed is released without another call.
BarAbandon(b) ==
    /\ bar[b].state = "failed"
    /\ lost[bar[b].m_BrowserId] < MaxLost
    /\ lost' = [lost EXCEPT ![bar[b].m_BrowserId] = @ + 1]
    /\ bar' = [bar EXCEPT ![b] = NoBar]
    /\ workspace' = [workspace EXCEPT ![b] = NoWindow]
    /\ UNCHANGED <<m_Browsers, m_NextId, bho, unregistered, panes, objects, fault>>

\* The helperbar is destroyed, and its windows with it.
BarDestroy(b) ==
    /\ bar[b].state = "unsited"
    /\ bar' = [bar EXCEPT ![b] = NoBar]
    /\ workspace' = [workspace EXCEPT ![b] = NoWindow]
    /\ UNCHANGED <<m_Browsers, m_NextId, bho, unregistered, panes, objects, lost, fault>>

\* CWorkspaceWindow::OnPostCreate, InitializeDefaultPanes: the panes the browser id
\* has not got are created, and a new DOM explorer asks for its DOM.
InitializeDefaultPanes(b) ==
    /\ workspace[b].posted
    /\ LET id == workspace[b].m_BrowserId IN
          /\ panes' = panes \cup {id}
          /\ IF id \in panes THEN UNCHANGED fault ELSE RequestDOM(id)
    /\ workspace' = [workspace EXCEPT ![b].posted = FALSE]
    /\ UNCHANGED <<m_Browsers, m_NextId, bho, unregistered, bar, objects, lost>>

Next ==
    /\ fault = "none"
    /\ \E b \in Browsers :
          \/ BHOSetSite(b) \/ BHOClearSite(b)
          \/ BHOSetSiteFails(b) \/ BHORelease(b) \/ BHOClearUnregistered(b)
          \/ BarSetSite(b) \/ BarClearSite(b)
          \/ BarAbandon(b) \/ BarDestroy(b)
          \/ InitializeDefaultPanes(b)

Spec == Init /\ [][Next]_vars

----------------------------------------------------------------------------
Entry == [m_RefCount : Nat \ {0}, m_BrowserInterface : Browsers, m_BHO : BHOs \cup {NoBHO}]
Site == [object : BHOs, m_BrowserId : Ids] \cup {NoSite}
Bar == [state : {"sited", "failed"}, m_BrowserId : Ids]
           \cup [state : {"none", "unsited"}, m_BrowserId : {NULL_BROWSER}]
Window == [m_BrowserId : Ids, posted : BOOLEAN] \cup {NoWindow}

TypeOK ==
    /\ DOMAIN m_Browsers \subseteq 1 .. m_NextId
    /\ m_Browsers \in [DOMAIN m_Browsers -> Entry]
    /\ m_NextId \in Ids \cup {NULL_BROWSER}
    /\ bho \in [Browsers -> Site]
    /\ unregistered \subseteq Browsers
    /\ bar \in [Browsers -> Bar]
    /\ workspace \in [Browsers -> Window]
    /\ panes \subseteq Ids
    /\ objects \in BHOs \cup {0}
    /\ lost \in [Ids -> 0 .. MaxLost]
    /\ fault \in {"none", "no BHO", "stale BHO", "no entry"}

IdsOf(b) == {bho[b].m_BrowserId, bar[b].m_BrowserId} \ {NULL_BROWSER}
One(holds) == IF holds THEN 1 ELSE 0

\* The id an object was given is in the map until that object gives it back, and belongs
\* to its browser, in whatever order BHO and helperbar come, go, fail and come again: the
\* assertion of ReleaseBrowserId (BrowserManager.cpp:130) holds for each object that has
\* registered (a BHO that has not gives NULL_BROWSER back, BHOClearUnregistered).
HolderIsRegistered ==
    \A b \in Browsers : \A id \in IdsOf(b) :
        id \in DOMAIN m_Browsers /\ m_Browsers[id].m_BrowserInterface = b

\* The reference count of an entry is the number of the objects that hold its id,
\* and of those that were released after a failed SetSite: no entry is deleted under
\* an object, none stays without one (AllocBrowserId, ReleaseBrowserId).
RefsCountHolders ==
    \A id \in DOMAIN m_Browsers :
        LET b == m_Browsers[id].m_BrowserInterface IN
            m_Browsers[id].m_RefCount =
                One(bho[b].m_BrowserId = id) + One(bar[b].m_BrowserId = id) + lost[id]

\* An id stands for one browser: the objects of a browser share it, and no other
\* browser has it, not even one whose interface has the address of an older one.
IdNamesBrowser ==
    \A b, c \in Browsers : \A i \in IdsOf(b), j \in IdsOf(c) : i = j <=> b = c

\* While a BHO has a site, its browser's DOM explorer asks that BHO, although the
\* helperbar may have made the entry (BrowserManager.cpp:108 "fill missing data").
SitedBHOIsAsked ==
    \A b \in Browsers : bho[b] # NoSite =>
        m_Browsers[bho[b].m_BrowserId].m_BHO = bho[b].object

\* RequestDOM goes wrong only for a browser whose BHO has no site: a workspace that
\* outlived a change of the ids does not reach another browser's entry.
FaultNeedsUnsitedBHO ==
    [][\A b \in Browsers :
          workspace[b].posted /\ ~workspace'[b].posted /\ bho[b] # NoSite =>
              fault' = fault]_vars

=============================================================================
