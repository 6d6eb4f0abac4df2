------------------------ MODULE BrowserRegistryProofs ------------------------
(***************************************************************************)
(* The browser registry, for every number of browsers and every bound.     *)
(*                                                                         *)
(* The invariants of BrowserRegistry are not inductive by themselves: that *)
(* a released entry has no other holder follows from its reference count,  *)
(* that the count is right from there being one entry for a browser, and   *)
(* that a new id is held by nobody from the references that were lost, and *)
(* the ids that windows keep, being of ids handed out before.              *)
(***************************************************************************)
EXTENDS BrowserRegistry, TLAPS

OneEntryPerBrowser ==
    \A i, j \in DOMAIN m_Browsers :
        m_Browsers[i].m_BrowserInterface = m_Browsers[j].m_BrowserInterface => i = j

LostAreCounted == \A i \in Ids : i \notin DOMAIN m_Browsers => lost[i] = 0

WindowKeepsOwnId ==
    \A b \in Browsers :
        /\ workspace[b].m_BrowserId \in 0 .. m_NextId
        /\ workspace[b].m_BrowserId \in DOMAIN m_Browsers =>
              m_Browsers[workspace[b].m_BrowserId].m_BrowserInterface = b

IInv ==
    /\ TypeOK /\ HolderIsRegistered /\ RefsCountHolders
    /\ OneEntryPerBrowser /\ LostAreCounted /\ SitedBHOIsAsked /\ WindowKeepsOwnId

----------------------------------------------------------------------------
\* The ids in the map were handed out.
LEMMA NextIdInRange ==
    ASSUME TypeOK
    PROVE  MaxId \in Nat /\ m_NextId \in 0 .. MaxId /\ DOMAIN m_Browsers \subseteq 1 .. m_NextId
<1>1. m_NextId \in Ids \cup {NULL_BROWSER} /\ DOMAIN m_Browsers \subseteq 1 .. m_NextId
  BY DEF TypeOK
<1> QED
  BY <1>1, BrowserBoundsAssumption DEF Ids, NULL_BROWSER

\* What the map is after id was handed out to an object of browser b.
HandedOut(b, object, id) ==
    /\ id \in Ids /\ id \in 1 .. m_NextId'
    /\ m_NextId' \in Ids /\ m_NextId <= m_NextId'
    /\ DOMAIN m_Browsers' = DOMAIN m_Browsers \cup {id}
    /\ m_Browsers' \in [DOMAIN m_Browsers' -> Entry]
    /\ \A i \in DOMAIN m_Browsers : i # id => m_Browsers'[i] = m_Browsers[i]
    /\ m_Browsers'[id].m_BrowserInterface = b
    /\ object # NoBHO => m_Browsers'[id].m_BHO = object
    /\ id \in DOMAIN m_Browsers =>
          /\ m_Browsers[id].m_BrowserInterface = b
          /\ m_Browsers'[id].m_RefCount = m_Browsers[id].m_RefCount + 1
          /\ object = NoBHO => m_Browsers'[id].m_BHO = m_Browsers[id].m_BHO
    /\ id \notin DOMAIN m_Browsers =>
          /\ m_Browsers'[id].m_RefCount = 1
          /\ m_NextId < id
          /\ \A i \in DOMAIN m_Browsers : m_Browsers[i].m_BrowserInterface # b

\* AllocBrowserId hands the id out, under a new entry or the browser's own.
LEMMA AllocHandsOut ==
    ASSUME TypeOK, NEW b \in Browsers, NEW object \in BHOs \cup {NoBHO}, NEW id \in Ids,
           AllocBrowserId(b, object, id)
    PROVE  HandedOut(b, object, id)
<1>0. MaxId \in Nat /\ m_NextId \in 0 .. MaxId /\ DOMAIN m_Browsers \subseteq 1 .. m_NextId
  BY NextIdInRange
<1>1. CASE Entries(b) # {}
  <2>1. /\ id \in DOMAIN m_Browsers /\ m_Browsers[id].m_BrowserInterface = b
        /\ m_Browsers' = [m_Browsers EXCEPT ![id] = Shared(@, object)]
        /\ m_NextId' = m_NextId
    BY <1>1 DEF AllocBrowserId, Entries
  <2>2. m_Browsers[id] \in Entry
    BY <2>1 DEF TypeOK
  <2>3. /\ Shared(m_Browsers[id], object) \in Entry
        /\ Shared(m_Browsers[id], object).m_RefCount = m_Browsers[id].m_RefCount + 1
        /\ Shared(m_Browsers[id], object).m_BrowserInterface = b
        /\ Shared(m_Browsers[id], object).m_BHO =
              IF object = NoBHO THEN m_Browsers[id].m_BHO ELSE object
    BY <2>1, <2>2 DEF Shared, Entry, BHOs, NoBHO
  <2>4. /\ DOMAIN m_Browsers' = DOMAIN m_Browsers
        /\ m_Browsers'[id] = Shared(m_Browsers[id], object)
        /\ \A i \in DOMAIN m_Browsers : i # id => m_Browsers'[i] = m_Browsers[i]
    BY <2>1
  <2>5. m_Browsers' \in [DOMAIN m_Browsers' -> Entry]
    BY <2>1, <2>3 DEF TypeOK
  <2>6. id \in 1 .. m_NextId /\ m_NextId \in Ids /\ m_NextId \in Nat
    BY <1>0, <2>1 DEF Ids
  <2>7. DOMAIN m_Browsers' = DOMAIN m_Browsers \cup {id}
    BY <2>1, <2>4
  <2> QED
    BY <2>1, <2>3, <2>4, <2>5, <2>6, <2>7 DEF HandedOut
<1>2. CASE Entries(b) = {}
  <2>1. /\ m_NextId < MaxId /\ id = m_NextId + 1 /\ m_NextId' = id
        /\ m_Browsers' = [i \in DOMAIN m_Browsers \cup {id} |->
                             IF i = id THEN NewEntry(b, object) ELSE m_Browsers[i]]
    BY <1>2 DEF AllocBrowserId
  <2>2. m_NextId \in Nat /\ id \notin DOMAIN m_Browsers
    BY <1>0, <2>1
  <2>3. NewEntry(b, object) \in Entry
    BY DEF NewEntry, Entry
  <2>4. /\ DOMAIN m_Browsers' = DOMAIN m_Browsers \cup {id}
        /\ m_Browsers'[id] = NewEntry(b, object)
        /\ \A i \in DOMAIN m_Browsers : i # id => m_Browsers'[i] = m_Browsers[i]
    BY <2>1
  <2>5. m_Browsers' \in [DOMAIN m_Browsers' -> Entry]
    BY <2>1, <2>3 DEF TypeOK
  <2>6. \A i \in DOMAIN m_Browsers : m_Browsers[i].m_BrowserInterface # b
    BY <1>2 DEF Entries
  <2>7. /\ NewEntry(b, object).m_RefCount = 1
        /\ NewEntry(b, object).m_BrowserInterface = b
        /\ NewEntry(b, object).m_BHO = object
    BY DEF NewEntry
  <2> QED
    BY <2>1, <2>2, <2>4, <2>5, <2>6, <2>7 DEF HandedOut, Ids
<1> QED
  BY <1>1, <1>2

\* What the map is after one holder has given id back.
GivenBack(id) ==
    /\ DOMAIN m_Browsers' = IF m_Browsers[id].m_RefCount = 1
                            THEN DOMAIN m_Browsers \ {id} ELSE DOMAIN m_Browsers
    /\ m_Browsers' \in [DOMAIN m_Browsers' -> Entry]
    /\ \A i \in DOMAIN m_Browsers' : i # id => m_Browsers'[i] = m_Browsers[i]
    /\ id \in DOMAIN m_Browsers' =>
          /\ m_Browsers'[id].m_RefCount = m_Browsers[id].m_RefCount - 1
          /\ m_Browsers'[id].m_BrowserInterface = m_Browsers[id].m_BrowserInterface
          /\ m_Browsers'[id].m_BHO = m_Browsers[id].m_BHO

\* ReleaseBrowserId gives one reference of the id back.
LEMMA ReleaseGivesBack ==
    ASSUME TypeOK, NEW id \in DOMAIN m_Browsers, ReleaseBrowserId(id)
    PROVE  GivenBack(id)
<1>1. m_Browsers[id] \in Entry
  BY DEF TypeOK
<1>2. CASE m_Browsers[id].m_RefCount = 1
  <2>1. m_Browsers' = [i \in DOMAIN m_Browsers \ {id} |-> m_Browsers[i]]
    BY <1>2 DEF ReleaseBrowserId, Restrict
  <2> QED
    BY <1>2, <2>1 DEF GivenBack, TypeOK
<1>3. CASE m_Browsers[id].m_RefCount # 1
  <2>1. m_Browsers' = [m_Browsers EXCEPT ![id] = OneLess(m_Browsers[id])]
    BY <1>3 DEF ReleaseBrowserId
  <2>2. /\ OneLess(m_Browsers[id]) \in Entry
        /\ OneLess(m_Browsers[id]).m_RefCount = m_Browsers[id].m_RefCount - 1
        /\ OneLess(m_Browsers[id]).m_BrowserInterface = m_Browsers[id].m_BrowserInterface
        /\ OneLess(m_Browsers[id]).m_BHO = m_Browsers[id].m_BHO
    BY <1>1, <1>3 DEF Entry, OneLess
  <2>4. /\ DOMAIN m_Browsers' = DOMAIN m_Browsers
        /\ m_Browsers'[id] = OneLess(m_Browsers[id])
        /\ \A i \in DOMAIN m_Browsers : i # id => m_Browsers'[i] = m_Browsers[i]
        /\ m_Browsers' \in [DOMAIN m_Browsers' -> Entry]
    BY <2>1, <2>2 DEF TypeOK
  <2> QED
    BY <1>3, <2>2, <2>4 DEF GivenBack
<1> QED
  BY <1>2, <1>3

----------------------------------------------------------------------------
\* Lost references are counted in the naturals.
LEMMA LostIsNat == TypeOK => \A i \in Ids : lost[i] \in Nat
<1>1. TypeOK => lost \in [Ids -> 0 .. MaxLost]
  BY DEF TypeOK
<1> QED
  BY <1>1, BrowserBoundsAssumption

\* A workspace window that is not there has the null id.
LEMMA NoWindowIsWindow == NoWindow \in Window /\ NoWindow.m_BrowserId = 0
  BY Zenon DEF NoWindow, Window, NULL_BROWSER

\* What the types say of the objects of one browser.
LEMMA Points ==
    ASSUME TypeOK, NEW b \in Browsers
    PROVE  /\ bho[b] = NoSite => bho[b].m_BrowserId = 0 /\ bho[b].object = 0
           /\ bho[b] # NoSite => bho[b].m_BrowserId \in Ids /\ bho[b].object \in BHOs
           /\ bar[b].state \in {"sited", "failed"} => bar[b].m_BrowserId \in Ids
           /\ bar[b].state \in {"none", "unsited"} => bar[b].m_BrowserId = 0
           /\ bar[b].state \in {"none", "unsited", "sited", "failed"}
           /\ workspace[b] # NoWindow => workspace[b].m_BrowserId \in Ids
           /\ workspace[b] = NoWindow => workspace[b].m_BrowserId = 0
<1>1. bho[b] \in Site /\ bar[b] \in Bar /\ workspace[b] \in Window
  BY DEF TypeOK
<1>2. /\ bho[b] = NoSite => bho[b].m_BrowserId = 0 /\ bho[b].object = 0
      /\ bho[b] # NoSite => bho[b].m_BrowserId \in Ids /\ bho[b].object \in BHOs
  BY <1>1 DEF Site, NoSite, NoBHO, NULL_BROWSER
<1>3. /\ bar[b].state \in {"sited", "failed"} => bar[b].m_BrowserId \in Ids
      /\ bar[b].state \in {"none", "unsited"} => bar[b].m_BrowserId = 0
      /\ bar[b].state \in {"none", "unsited", "sited", "failed"}
  BY <1>1 DEF Bar, NULL_BROWSER
<1>4. /\ workspace[b] # NoWindow => workspace[b].m_BrowserId \in Ids
      /\ workspace[b] = NoWindow => workspace[b].m_BrowserId = 0
  <2>1. NoWindow.m_BrowserId = 0
    BY Zenon DEF NoWindow, NULL_BROWSER
  <2>2. workspace[b] # NoWindow => workspace[b] \in [m_BrowserId : Ids, posted : BOOLEAN]
    BY <1>1, Zenon DEF Window
  <2>3. workspace[b] \in [m_BrowserId : Ids, posted : BOOLEAN] => workspace[b].m_BrowserId \in Ids
    BY Zenon
  <2> QED
    BY <2>1, <2>2, <2>3
<1> QED
  BY <1>2, <1>3, <1>4

----------------------------------------------------------------------------
\* The conjuncts about the map alone, after an id was handed out or given back.
MapTyped ==
    /\ DOMAIN m_Browsers \subseteq 1 .. m_NextId
    /\ m_Browsers \in [DOMAIN m_Browsers -> Entry]
    /\ m_NextId \in Ids \cup {NULL_BROWSER}

\* What an id handed out leaves true of the map and of the workspace windows.
LEMMA HandedOutMap ==
    ASSUME IInv, NEW b \in Browsers, NEW object, NEW id, HandedOut(b, object, id),
           lost' = lost
    PROVE  /\ MapTyped' /\ OneEntryPerBrowser' /\ LostAreCounted'
           /\ \A c \in Browsers :
                 /\ workspace[c].m_BrowserId \in 0 .. m_NextId'
                 /\ workspace[c].m_BrowserId \in DOMAIN m_Browsers' =>
                       m_Browsers'[workspace[c].m_BrowserId].m_BrowserInterface = c
<1>1. /\ id \in Ids /\ id \in 1 .. m_NextId'
      /\ m_NextId' \in Ids /\ m_NextId <= m_NextId'
      /\ DOMAIN m_Browsers' = DOMAIN m_Browsers \cup {id}
      /\ m_Browsers' \in [DOMAIN m_Browsers' -> Entry]
      /\ \A i \in DOMAIN m_Browsers : i # id => m_Browsers'[i] = m_Browsers[i]
      /\ m_Browsers'[id].m_BrowserInterface = b
      /\ id \in DOMAIN m_Browsers => m_Browsers[id].m_BrowserInterface = b
      /\ id \notin DOMAIN m_Browsers =>
            m_NextId < id /\ \A i \in DOMAIN m_Browsers : m_Browsers[i].m_BrowserInterface # b
  BY DEF HandedOut
<1>2. MaxId \in Nat /\ m_NextId \in 0 .. MaxId /\ DOMAIN m_Browsers \subseteq 1 .. m_NextId
  BY NextIdInRange DEF IInv
<1>3. MapTyped'
  <2>1. DOMAIN m_Browsers' \subseteq 1 .. m_NextId'
    BY <1>1, <1>2 DEF Ids
  <2> QED
    BY <1>1, <2>1 DEF MapTyped
<1>4. OneEntryPerBrowser'
  BY <1>1 DEF IInv, OneEntryPerBrowser
<1>5. LostAreCounted'
  BY <1>1 DEF IInv, LostAreCounted, Ids
<1>6. ASSUME NEW c \in Browsers
      PROVE  /\ workspace[c].m_BrowserId \in 0 .. m_NextId'
             /\ workspace[c].m_BrowserId \in DOMAIN m_Browsers' =>
                   m_Browsers'[workspace[c].m_BrowserId].m_BrowserInterface = c
  <2>1. /\ workspace[c].m_BrowserId \in 0 .. m_NextId
        /\ workspace[c].m_BrowserId \in DOMAIN m_Browsers =>
              m_Browsers[workspace[c].m_BrowserId].m_BrowserInterface = c
    BY DEF IInv, WindowKeepsOwnId
  <2> QED
    BY <1>1, <1>2, <2>1 DEF Ids
<1> QED
  BY <1>3, <1>4, <1>5, <1>6

\* What an id given back leaves true of them, if it was not the last reference while
\* some are lost.
LEMMA GivenBackMap ==
    ASSUME IInv, NEW id \in DOMAIN m_Browsers, GivenBack(id), lost' = lost,
           m_NextId' = m_NextId, m_Browsers[id].m_RefCount = 1 => lost[id] = 0
    PROVE  /\ MapTyped' /\ OneEntryPerBrowser' /\ LostAreCounted'
           /\ \A c \in Browsers :
                 /\ workspace[c].m_BrowserId \in 0 .. m_NextId'
                 /\ workspace[c].m_BrowserId \in DOMAIN m_Browsers' =>
                       m_Browsers'[workspace[c].m_BrowserId].m_BrowserInterface = c
<1>1. /\ DOMAIN m_Browsers' = IF m_Browsers[id].m_RefCount = 1
                              THEN DOMAIN m_Browsers \ {id} ELSE DOMAIN m_Browsers
      /\ m_Browsers' \in [DOMAIN m_Browsers' -> Entry]
      /\ \A i \in DOMAIN m_Browsers' :
            m_Browsers'[i].m_BrowserInterface = m_Browsers[i].m_BrowserInterface
  BY DEF GivenBack
<1>2. DOMAIN m_Browsers' \subseteq DOMAIN m_Browsers
  BY <1>1
<1>3. MapTyped'
  BY <1>1, <1>2 DEF MapTyped, IInv, TypeOK
<1>4. OneEntryPerBrowser'
  BY <1>1, <1>2 DEF IInv, OneEntryPerBrowser
<1>5. LostAreCounted'
  BY <1>1 DEF IInv, LostAreCounted
<1>6. \A c \in Browsers :
         /\ workspace[c].m_BrowserId \in 0 .. m_NextId'
         /\ workspace[c].m_BrowserId \in DOMAIN m_Browsers' =>
               m_Browsers'[workspace[c].m_BrowserId].m_BrowserInterface = c
  BY <1>1, <1>2 DEF IInv, WindowKeepsOwnId
<1> QED
  BY <1>3, <1>4, <1>5, <1>6

----------------------------------------------------------------------------
\* One lemma for each action.
LEMMA BHOSetSiteKeeps ==
    ASSUME IInv, NEW b \in Browsers, BHOSetSite(b)
    PROVE  IInv'
<1> DEFINE new(id) == [object |-> objects + 1, m_BrowserId |-> id]
<1>1. PICK id \in Ids : /\ AllocBrowserId(b, objects + 1, id)
                        /\ bho' = [bho EXCEPT ![b] = new(id)]
  BY DEF BHOSetSite
<1>2. /\ bho[b] = NoSite /\ objects < MaxObjects /\ objects' = objects + 1
      /\ bar' = bar /\ workspace' = workspace /\ panes' = panes
      /\ lost' = lost /\ unregistered' = unregistered /\ fault' = fault
  BY DEF BHOSetSite
<1>3. objects + 1 \in BHOs /\ objects + 1 # NoBHO
  <2>1. objects \in BHOs \cup {0}
    BY DEF IInv, TypeOK
  <2> QED
    BY <1>2, <2>1, BrowserBoundsAssumption DEF BHOs, NoBHO
<1>4. HandedOut(b, objects + 1, id)
  BY <1>1, <1>3, AllocHandsOut DEF IInv
<1>5. /\ new(id) \in Site /\ new(id).m_BrowserId = id /\ new(id).object = objects + 1
      /\ bho[b].m_BrowserId = 0
  BY <1>2, <1>3 DEF Site, NoSite, NULL_BROWSER
<1> HIDE DEF new
<1>6. /\ bho' \in [Browsers -> Site]
      /\ bho'[b].m_BrowserId = id /\ bho'[b].object = objects + 1
      /\ \A c \in Browsers : c # b => bho'[c] = bho[c]
  BY <1>1, <1>5 DEF IInv, TypeOK
<1>7. /\ MapTyped' /\ OneEntryPerBrowser' /\ LostAreCounted' /\ WindowKeepsOwnId'
  BY <1>2, <1>4, HandedOutMap DEF WindowKeepsOwnId
<1>8. TypeOK'
  BY <1>2, <1>3, <1>6, <1>7 DEF IInv, TypeOK, MapTyped
<1>9. /\ id \in Ids
      /\ DOMAIN m_Browsers' = DOMAIN m_Browsers \cup {id}
      /\ \A i \in DOMAIN m_Browsers : i # id => m_Browsers'[i] = m_Browsers[i]
      /\ m_Browsers'[id].m_BrowserInterface = b
      /\ m_Browsers'[id].m_BHO = objects + 1
      /\ id \in DOMAIN m_Browsers =>
            /\ m_Browsers[id].m_BrowserInterface = b
            /\ m_Browsers'[id].m_RefCount = m_Browsers[id].m_RefCount + 1
      /\ id \notin DOMAIN m_Browsers => m_Browsers'[id].m_RefCount = 1
  BY <1>3, <1>4 DEF HandedOut
<1>10. id # 0 /\ 0 \notin DOMAIN m_Browsers
  BY <1>9, NextIdInRange DEF IInv, Ids
<1>11. HolderIsRegistered'
  BY <1>2, <1>5, <1>6, <1>9, <1>10 DEF IInv, HolderIsRegistered, IdsOf, NULL_BROWSER
<1>12. RefsCountHolders'
  <2> SUFFICES ASSUME NEW i \in DOMAIN m_Browsers'
               PROVE  LET c == m_Browsers'[i].m_BrowserInterface IN
                         m_Browsers'[i].m_RefCount =
                            One(bho'[c].m_BrowserId = i) + One(bar'[c].m_BrowserId = i) + lost'[i]
    BY DEF RefsCountHolders, One
  <2>1. CASE i # id
    <3>1. m_Browsers'[i] = m_Browsers[i] /\ i \in DOMAIN m_Browsers
      BY <1>9, <2>1
    <3>2. m_Browsers[i].m_BrowserInterface \in Browsers
      BY <3>1 DEF IInv, TypeOK, Entry
    <3> QED
      BY <1>2, <1>5, <1>6, <1>10, <2>1, <3>1, <3>2 DEF IInv, RefsCountHolders, One
  <2>2. CASE i = id /\ id \in DOMAIN m_Browsers
    <3>1. m_Browsers[id].m_RefCount = 0 + One(bar[b].m_BrowserId = id) + lost[id]
      BY <1>5, <1>9, <1>10, <2>2 DEF IInv, RefsCountHolders, One
    <3>2. lost[id] \in Nat
      BY <1>9, LostIsNat DEF IInv
    <3> QED
      BY <1>2, <1>6, <1>9, <2>2, <3>1, <3>2 DEF One
  <2>3. CASE i = id /\ id \notin DOMAIN m_Browsers
    <3>1. bar[b].m_BrowserId # id
      BY <1>10, <2>3 DEF IInv, HolderIsRegistered, IdsOf, NULL_BROWSER
    <3>2. lost[id] = 0
      BY <1>9, <2>3 DEF IInv, LostAreCounted
    <3> QED
      BY <1>2, <1>6, <1>9, <2>3, <3>1, <3>2 DEF One
  <2> QED
    BY <2>1, <2>2, <2>3
<1>13. SitedBHOIsAsked'
  <2> SUFFICES ASSUME NEW c \in Browsers, bho'[c] # NoSite
               PROVE  m_Browsers'[bho'[c].m_BrowserId].m_BHO = bho'[c].object
    BY DEF SitedBHOIsAsked
  <2>1. CASE c = b
    BY <1>6, <1>9, <2>1
  <2>2. CASE c # b
    <3>1. bho'[c] = bho[c] /\ bho[c].m_BrowserId \in Ids
      BY <1>6, <2>2, Points DEF IInv
    <3>2. /\ bho[c].m_BrowserId \in DOMAIN m_Browsers
          /\ m_Browsers[bho[c].m_BrowserId].m_BrowserInterface = c
      BY <3>1 DEF IInv, HolderIsRegistered, IdsOf, NULL_BROWSER, Ids
    <3> QED
      BY <1>9, <2>2, <3>1, <3>2 DEF IInv, SitedBHOIsAsked
  <2> QED
    BY <2>1, <2>2
<1> QED
  BY <1>7, <1>8, <1>11, <1>12, <1>13 DEF IInv

\* The BHO that loses its site holds no id any more.
LEMMA BHOClearSiteKeeps ==
    ASSUME IInv, NEW b \in Browsers, BHOClearSite(b)
    PROVE  IInv'
<1> DEFINE id == bho[b].m_BrowserId
<1>1. /\ bho[b] # NoSite /\ ReleaseBrowserId(id) /\ bho' = [bho EXCEPT ![b] = NoSite]
      /\ m_NextId' = m_NextId /\ bar' = bar /\ workspace' = workspace
      /\ panes' = panes \ {id} /\ objects' = objects /\ lost' = lost /\ unregistered' = unregistered /\ fault' = fault
  BY DEF BHOClearSite, RemoveBrowserWindows
<1>2. id \in Ids
  BY <1>1, Points DEF IInv
<1> HIDE DEF id
<1>3. id # 0 /\ id = bho[b].m_BrowserId
  BY <1>2 DEF Ids, id
<1>4. id \in DOMAIN m_Browsers /\ m_Browsers[id].m_BrowserInterface = b
  BY <1>3 DEF IInv, HolderIsRegistered, IdsOf, NULL_BROWSER
<1>5. GivenBack(id)
  BY <1>1, <1>4, ReleaseGivesBack DEF IInv
<1>6. lost[id] \in Nat
  BY <1>2, LostIsNat DEF IInv
<1>7. m_Browsers[id].m_RefCount = 1 + One(bar[b].m_BrowserId = id) + lost[id]
  BY <1>3, <1>4 DEF IInv, RefsCountHolders, One
<1>8. m_Browsers[id].m_RefCount = 1 => lost[id] = 0 /\ bar[b].m_BrowserId # id
  BY <1>6, <1>7 DEF One
<1>9. /\ NoSite \in Site /\ NoSite.m_BrowserId = 0
      /\ bho' \in [Browsers -> Site] /\ bho'[b] = NoSite
      /\ \A c \in Browsers : c # b => bho'[c] = bho[c]
  BY <1>1 DEF IInv, TypeOK, Site, NoSite, NULL_BROWSER
<1>10. /\ MapTyped' /\ OneEntryPerBrowser' /\ LostAreCounted' /\ WindowKeepsOwnId'
  BY <1>1, <1>4, <1>5, <1>8, GivenBackMap DEF WindowKeepsOwnId
<1>11. TypeOK'
  BY <1>1, <1>9, <1>10 DEF IInv, TypeOK, MapTyped
<1>12. /\ DOMAIN m_Browsers' = IF m_Browsers[id].m_RefCount = 1
                               THEN DOMAIN m_Browsers \ {id} ELSE DOMAIN m_Browsers
       /\ \A i \in DOMAIN m_Browsers' : i # id => m_Browsers'[i] = m_Browsers[i]
       /\ id \in DOMAIN m_Browsers' =>
             /\ m_Browsers'[id].m_RefCount = m_Browsers[id].m_RefCount - 1
             /\ m_Browsers'[id].m_BrowserInterface = b
             /\ m_Browsers'[id].m_BHO = m_Browsers[id].m_BHO
  BY <1>4, <1>5 DEF GivenBack
<1>13. HolderIsRegistered'
  <2> SUFFICES ASSUME NEW c \in Browsers, NEW i \in IdsOf(c)'
               PROVE  i \in DOMAIN m_Browsers' /\ m_Browsers'[i].m_BrowserInterface = c
    BY DEF HolderIsRegistered
  <2>1. /\ i \in IdsOf(c) /\ i \in DOMAIN m_Browsers /\ m_Browsers[i].m_BrowserInterface = c
        /\ c = b => i = bar[b].m_BrowserId
    BY <1>1, <1>9 DEF IInv, HolderIsRegistered, IdsOf, NULL_BROWSER
  <2>2. i = id => m_Browsers[id].m_RefCount # 1 /\ c = b
    BY <1>4, <1>8, <2>1
  <2> QED
    BY <1>12, <2>1, <2>2
<1>14. RefsCountHolders'
  <2> SUFFICES ASSUME NEW i \in DOMAIN m_Browsers'
               PROVE  LET c == m_Browsers'[i].m_BrowserInterface IN
                         m_Browsers'[i].m_RefCount =
                            One(bho'[c].m_BrowserId = i) + One(bar'[c].m_BrowserId = i) + lost'[i]
    BY DEF RefsCountHolders, One
  <2>1. CASE i = id
    BY <1>1, <1>3, <1>6, <1>7, <1>9, <1>12, <2>1 DEF One
  <2>2. CASE i # id
    <3>1. m_Browsers'[i] = m_Browsers[i] /\ i \in DOMAIN m_Browsers
      BY <1>12, <2>2
    <3>2. m_Browsers[i].m_BrowserInterface \in Browsers
      BY <3>1 DEF IInv, TypeOK, Entry
    <3>3. i # 0
      BY <3>1, NextIdInRange DEF IInv
    <3> QED
      BY <1>1, <1>3, <1>9, <2>2, <3>1, <3>2, <3>3 DEF IInv, RefsCountHolders, One
  <2> QED
    BY <2>1, <2>2
<1>15. SitedBHOIsAsked'
  <2> SUFFICES ASSUME NEW c \in Browsers, bho'[c] # NoSite
               PROVE  m_Browsers'[bho'[c].m_BrowserId].m_BHO = bho'[c].object
    BY DEF SitedBHOIsAsked
  <2>1. c # b /\ bho'[c] = bho[c] /\ bho[c].m_BrowserId \in Ids
    BY <1>9, Points DEF IInv
  <2>2. /\ bho[c].m_BrowserId \in DOMAIN m_Browsers
        /\ m_Browsers[bho[c].m_BrowserId].m_BrowserInterface = c
    BY <2>1 DEF IInv, HolderIsRegistered, IdsOf, NULL_BROWSER, Ids
  <2> QED
    BY <1>4, <1>12, <2>1, <2>2 DEF IInv, SitedBHOIsAsked
<1> QED
  BY <1>10, <1>11, <1>13, <1>14, <1>15 DEF IInv

\* The helperbar holds its browser's id from now on, even if it fails afterwards.
LEMMA BarSetSiteKeeps ==
    ASSUME IInv, NEW b \in Browsers, BarSetSite(b)
    PROVE  IInv'
<1> DEFINE new(id, state) == [state |-> state, m_BrowserId |-> id]
           window(id) == [m_BrowserId |-> id, posted |-> TRUE]
<1>1. PICK id \in Ids, state \in {"sited", "failed"} :
         /\ AllocBrowserId(b, NoBHO, id)
         /\ bar' = [bar EXCEPT ![b] = new(id, state)]
         /\ workspace' = [workspace EXCEPT ![b] = window(id)] \/ workspace' = workspace
  BY DEF BarSetSite
<1>2. /\ bar[b].state \in {"none", "unsited"} /\ bho' = bho /\ panes' = panes
      /\ objects' = objects /\ lost' = lost /\ unregistered' = unregistered /\ fault' = fault
  BY DEF BarSetSite
<1>3. HandedOut(b, NoBHO, id)
  BY <1>1, AllocHandsOut DEF IInv
<1>4. new(id, state) \in Bar /\ new(id, state).m_BrowserId = id
  BY <1>1 DEF Bar
<1>5. window(id) \in Window /\ window(id).m_BrowserId = id
  BY Zenon DEF Window
<1>6. bar[b].m_BrowserId = 0
  BY <1>2, Points DEF IInv
<1> HIDE DEF new, window
<1>7. /\ bar' \in [Browsers -> Bar] /\ bar'[b].m_BrowserId = id
      /\ \A c \in Browsers : c # b => bar'[c] = bar[c]
  BY <1>1, <1>4 DEF IInv, TypeOK
<1>8. /\ workspace' \in [Browsers -> Window]
      /\ \A c \in Browsers : \/ workspace'[c] = workspace[c]
                              \/ (c = b /\ workspace'[c].m_BrowserId = id)
  <2>1. workspace \in [Browsers -> Window]
    BY DEF IInv, TypeOK
  <2>2. CASE workspace' = workspace
    BY <2>1, <2>2
  <2>3. CASE workspace' = [workspace EXCEPT ![b] = window(id)]
    <3>1. /\ workspace' \in [Browsers -> Window]
          /\ workspace'[b] = window(id)
          /\ \A c \in Browsers : c # b => workspace'[c] = workspace[c]
      BY <1>5, <2>1, <2>3
    <3> QED
      BY <1>5, <3>1
  <2> QED
    BY <1>1, <2>2, <2>3
<1>9. /\ id \in Ids /\ id \in 1 .. m_NextId'
      /\ DOMAIN m_Browsers' = DOMAIN m_Browsers \cup {id}
      /\ \A i \in DOMAIN m_Browsers : i # id => m_Browsers'[i] = m_Browsers[i]
      /\ m_Browsers'[id].m_BrowserInterface = b
      /\ id \in DOMAIN m_Browsers =>
            /\ m_Browsers[id].m_BrowserInterface = b
            /\ m_Browsers'[id].m_RefCount = m_Browsers[id].m_RefCount + 1
            /\ m_Browsers'[id].m_BHO = m_Browsers[id].m_BHO
      /\ id \notin DOMAIN m_Browsers => m_Browsers'[id].m_RefCount = 1
  BY <1>3 DEF HandedOut
<1>10. /\ MapTyped' /\ OneEntryPerBrowser' /\ LostAreCounted'
       /\ \A c \in Browsers :
             /\ workspace[c].m_BrowserId \in 0 .. m_NextId'
             /\ workspace[c].m_BrowserId \in DOMAIN m_Browsers' =>
                   m_Browsers'[workspace[c].m_BrowserId].m_BrowserInterface = c
  BY <1>2, <1>3, HandedOutMap
<1>11. WindowKeepsOwnId'
  BY <1>8, <1>9, <1>10 DEF WindowKeepsOwnId
<1>12. TypeOK'
  BY <1>2, <1>7, <1>8, <1>10 DEF IInv, TypeOK, MapTyped
<1>13. id # 0 /\ 0 \notin DOMAIN m_Browsers
  BY <1>9, NextIdInRange DEF IInv, Ids
<1>14. HolderIsRegistered'
  BY <1>2, <1>6, <1>7, <1>9, <1>13 DEF IInv, HolderIsRegistered, IdsOf, NULL_BROWSER
<1>15. RefsCountHolders'
  <2> SUFFICES ASSUME NEW i \in DOMAIN m_Browsers'
               PROVE  LET c == m_Browsers'[i].m_BrowserInterface IN
                         m_Browsers'[i].m_RefCount =
                            One(bho'[c].m_BrowserId = i) + One(bar'[c].m_BrowserId = i) + lost'[i]
    BY DEF RefsCountHolders, One
  <2>1. CASE i # id
    <3>1. m_Browsers'[i] = m_Browsers[i] /\ i \in DOMAIN m_Browsers
      BY <1>9, <2>1
    <3>2. m_Browsers[i].m_BrowserInterface \in Browsers
      BY <3>1 DEF IInv, TypeOK, Entry
    <3> QED
      BY <1>2, <1>6, <1>7, <1>13, <2>1, <3>1, <3>2 DEF IInv, RefsCountHolders, One
  <2>2. CASE i = id /\ id \in DOMAIN m_Browsers
    <3>1. m_Browsers[id].m_RefCount = One(bho[b].m_BrowserId = id) + 0 + lost[id]
      BY <1>6, <1>9, <1>13, <2>2 DEF IInv, RefsCountHolders, One
    <3>2. lost[id] \in Nat
      BY <1>9, LostIsNat DEF IInv
    <3> QED
      BY <1>2, <1>7, <1>9, <2>2, <3>1, <3>2 DEF One
  <2>3. CASE i = id /\ id \notin DOMAIN m_Browsers
    <3>1. bho[b].m_BrowserId # id
      BY <1>13, <2>3 DEF IInv, HolderIsRegistered, IdsOf, NULL_BROWSER
    <3>2. lost[id] = 0
      BY <1>9, <2>3 DEF IInv, LostAreCounted
    <3> QED
      BY <1>2, <1>7, <1>9, <2>3, <3>1, <3>2 DEF One
  <2> QED
    BY <2>1, <2>2, <2>3
<1>16. SitedBHOIsAsked'
  <2> SUFFICES ASSUME NEW c \in Browsers, bho[c] # NoSite
               PROVE  m_Browsers'[bho[c].m_BrowserId].m_BHO = bho[c].object
    BY <1>2 DEF SitedBHOIsAsked
  <2>1. bho[c].m_BrowserId \in Ids
    BY Points DEF IInv
  <2>2. bho[c].m_BrowserId \in DOMAIN m_Browsers
    BY <2>1 DEF IInv, HolderIsRegistered, IdsOf, NULL_BROWSER, Ids
  <2> QED
    BY <1>9, <2>2 DEF IInv, SitedBHOIsAsked
<1> QED
  BY <1>10, <1>11, <1>12, <1>14, <1>15, <1>16 DEF IInv

\* The helperbar that loses its site gives its reference back.
LEMMA BarClearSiteKeeps ==
    ASSUME IInv, NEW b \in Browsers, BarClearSite(b)
    PROVE  IInv'
<1> DEFINE id == bar[b].m_BrowserId
           unsited == [state |-> "unsited", m_BrowserId |-> NULL_BROWSER]
<1>1. /\ bar[b].state \in {"sited", "failed"} /\ ReleaseBrowserId(id)
      /\ bar' = [bar EXCEPT ![b] = unsited]
      /\ m_NextId' = m_NextId /\ bho' = bho /\ workspace' = workspace
      /\ panes' = panes /\ objects' = objects /\ lost' = lost /\ unregistered' = unregistered /\ fault' = fault
  BY DEF BarClearSite
<1>2. id \in Ids
  BY <1>1, Points DEF IInv
<1>3. unsited \in Bar /\ unsited.m_BrowserId = 0
  BY DEF Bar, NULL_BROWSER
<1> HIDE DEF id, unsited
<1>4. id # 0 /\ id = bar[b].m_BrowserId
  BY <1>2 DEF Ids, id
<1>5. id \in DOMAIN m_Browsers /\ m_Browsers[id].m_BrowserInterface = b
  BY <1>4 DEF IInv, HolderIsRegistered, IdsOf, NULL_BROWSER
<1>6. GivenBack(id)
  BY <1>1, <1>5, ReleaseGivesBack DEF IInv
<1>7. lost[id] \in Nat
  BY <1>2, LostIsNat DEF IInv
<1>8. m_Browsers[id].m_RefCount = One(bho[b].m_BrowserId = id) + 1 + lost[id]
  BY <1>4, <1>5 DEF IInv, RefsCountHolders, One
<1>9. m_Browsers[id].m_RefCount = 1 => lost[id] = 0 /\ bho[b].m_BrowserId # id
  BY <1>7, <1>8 DEF One
<1>10. /\ bar' \in [Browsers -> Bar] /\ bar'[b].m_BrowserId = 0
       /\ \A c \in Browsers : c # b => bar'[c] = bar[c]
  BY <1>1, <1>3 DEF IInv, TypeOK
<1>11. /\ MapTyped' /\ OneEntryPerBrowser' /\ LostAreCounted' /\ WindowKeepsOwnId'
  BY <1>1, <1>5, <1>6, <1>9, GivenBackMap DEF WindowKeepsOwnId
<1>12. TypeOK'
  BY <1>1, <1>10, <1>11 DEF IInv, TypeOK, MapTyped
<1>13. /\ DOMAIN m_Browsers' = IF m_Browsers[id].m_RefCount = 1
                               THEN DOMAIN m_Browsers \ {id} ELSE DOMAIN m_Browsers
       /\ \A i \in DOMAIN m_Browsers' : i # id => m_Browsers'[i] = m_Browsers[i]
       /\ id \in DOMAIN m_Browsers' =>
             /\ m_Browsers'[id].m_RefCount = m_Browsers[id].m_RefCount - 1
             /\ m_Browsers'[id].m_BrowserInterface = b
             /\ m_Browsers'[id].m_BHO = m_Browsers[id].m_BHO
  BY <1>5, <1>6 DEF GivenBack
<1>14. HolderIsRegistered'
  <2> SUFFICES ASSUME NEW c \in Browsers, NEW i \in IdsOf(c)'
               PROVE  i \in DOMAIN m_Browsers' /\ m_Browsers'[i].m_BrowserInterface = c
    BY DEF HolderIsRegistered
  <2>1. /\ i \in IdsOf(c) /\ i \in DOMAIN m_Browsers /\ m_Browsers[i].m_BrowserInterface = c
        /\ c = b => i = bho[b].m_BrowserId
    BY <1>1, <1>10 DEF IInv, HolderIsRegistered, IdsOf, NULL_BROWSER
  <2>2. i = id => m_Browsers[id].m_RefCount # 1 /\ c = b
    BY <1>5, <1>9, <2>1
  <2> QED
    BY <1>13, <2>1, <2>2
<1>15. RefsCountHolders'
  <2> SUFFICES ASSUME NEW i \in DOMAIN m_Browsers'
               PROVE  LET c == m_Browsers'[i].m_BrowserInterface IN
                         m_Browsers'[i].m_RefCount =
                            One(bho'[c].m_BrowserId = i) + One(bar'[c].m_BrowserId = i) + lost'[i]
    BY DEF RefsCountHolders, One
  <2>1. CASE i = id
    BY <1>1, <1>4, <1>7, <1>8, <1>10, <1>13, <2>1 DEF One
  <2>2. CASE i # id
    <3>1. m_Browsers'[i] = m_Browsers[i] /\ i \in DOMAIN m_Browsers
      BY <1>13, <2>2
    <3>2. m_Browsers[i].m_BrowserInterface \in Browsers
      BY <3>1 DEF IInv, TypeOK, Entry
    <3>3. i # 0
      BY <3>1, NextIdInRange DEF IInv
    <3> QED
      BY <1>1, <1>4, <1>10, <2>2, <3>1, <3>2, <3>3 DEF IInv, RefsCountHolders, One
  <2> QED
    BY <2>1, <2>2
<1>16. SitedBHOIsAsked'
  <2> SUFFICES ASSUME NEW c \in Browsers, bho[c] # NoSite
               PROVE  m_Browsers'[bho[c].m_BrowserId].m_BHO = bho[c].object
    BY <1>1 DEF SitedBHOIsAsked
  <2>1. bho[c].m_BrowserId \in Ids
    BY Points DEF IInv
  <2>2. bho[c].m_BrowserId \in DOMAIN m_Browsers /\ bho[c].m_BrowserId \in DOMAIN m_Browsers'
    <3>1. /\ bho[c].m_BrowserId \in DOMAIN m_Browsers
          /\ m_Browsers[bho[c].m_BrowserId].m_BrowserInterface = c
      BY <2>1 DEF IInv, HolderIsRegistered, IdsOf, NULL_BROWSER, Ids
    <3> QED
      BY <1>5, <1>9, <1>13, <3>1
  <2> QED
    BY <1>13, <2>2 DEF IInv, SitedBHOIsAsked
<1> QED
  BY <1>11, <1>12, <1>14, <1>15, <1>16 DEF IInv

\* A BHO that is left without an id comes and goes beside the registry, and so does the
\* process that releases no entry.
LEMMA UnregisteredKeeps ==
    ASSUME IInv, NEW b \in Browsers,
           BHOSetSiteFails(b) \/ BHORelease(b) \/ BHOClearUnregistered(b)
    PROVE  IInv'
<1>1. /\ m_Browsers' = m_Browsers /\ m_NextId' = m_NextId /\ bho' = bho /\ bar' = bar
      /\ workspace' = workspace /\ panes' = panes /\ lost' = lost
      /\ unregistered' \subseteq Browsers
      /\ fault' \in {"none", "no BHO", "stale BHO", "no entry"}
  BY DEF BHOSetSiteFails, BHORelease, BHOClearUnregistered, IInv, TypeOK
<1>2. objects' \in BHOs \cup {0}
  <2>1. objects \in BHOs \cup {0}
    BY DEF IInv, TypeOK
  <2>2. objects' = objects \/ (objects < MaxObjects /\ objects' = objects + 1)
    BY DEF BHOSetSiteFails, BHORelease, BHOClearUnregistered
  <2> QED
    BY <2>1, <2>2, BrowserBoundsAssumption DEF BHOs
<1>3. TypeOK'
  BY <1>1, <1>2 DEF IInv, TypeOK
<1>4. HolderIsRegistered' /\ RefsCountHolders'
  BY <1>1 DEF IInv, HolderIsRegistered, RefsCountHolders, IdsOf, One
<1>5. OneEntryPerBrowser' /\ LostAreCounted' /\ SitedBHOIsAsked' /\ WindowKeepsOwnId'
  BY <1>1 DEF IInv, OneEntryPerBrowser, LostAreCounted, SitedBHOIsAsked, WindowKeepsOwnId
<1> QED
  BY <1>3, <1>4, <1>5 DEF IInv

\* The reference of a failed helperbar is lost, and keeps its entry.
LEMMA BarAbandonKeeps ==
    ASSUME IInv, NEW b \in Browsers, BarAbandon(b)
    PROVE  IInv'
<1> DEFINE id == bar[b].m_BrowserId
<1>1. /\ bar[b].state = "failed" /\ lost[id] < MaxLost
      /\ lost' = [lost EXCEPT ![id] = @ + 1]
      /\ bar' = [bar EXCEPT ![b] = NoBar] /\ workspace' = [workspace EXCEPT ![b] = NoWindow]
      /\ m_Browsers' = m_Browsers /\ m_NextId' = m_NextId /\ bho' = bho
      /\ panes' = panes /\ objects' = objects /\ fault' = fault /\ unregistered' = unregistered
  BY DEF BarAbandon
<1>2. id \in Ids
  BY <1>1, Points DEF IInv
<1> HIDE DEF id
<1>3. id # 0 /\ id = bar[b].m_BrowserId
  BY <1>2 DEF Ids, id
<1>4. id \in DOMAIN m_Browsers /\ m_Browsers[id].m_BrowserInterface = b
  BY <1>3 DEF IInv, HolderIsRegistered, IdsOf, NULL_BROWSER
<1>5. /\ bar' \in [Browsers -> Bar] /\ bar'[b].m_BrowserId = 0
      /\ \A c \in Browsers : c # b => bar'[c] = bar[c]
  <2>1. NoBar \in Bar /\ NoBar.m_BrowserId = 0
    BY DEF NoBar, Bar, NULL_BROWSER
  <2> QED
    BY <1>1, <2>1 DEF IInv, TypeOK
<1>6. /\ workspace' \in [Browsers -> Window] /\ workspace'[b].m_BrowserId = 0
      /\ \A c \in Browsers : c # b => workspace'[c] = workspace[c]
  BY <1>1, NoWindowIsWindow DEF IInv, TypeOK
<1>7. /\ lost' \in [Ids -> 0 .. MaxLost] /\ lost'[id] = lost[id] + 1 /\ lost[id] \in Nat
      /\ \A i \in Ids : i # id => lost'[i] = lost[i]
  <2>1. lost \in [Ids -> 0 .. MaxLost] /\ lost[id] \in Nat
    BY <1>2, LostIsNat DEF IInv, TypeOK
  <2> QED
    BY <1>1, <1>2, <2>1, BrowserBoundsAssumption
<1>8. TypeOK'
  BY <1>1, <1>5, <1>6, <1>7 DEF IInv, TypeOK
<1>9. HolderIsRegistered'
  BY <1>1, <1>5 DEF IInv, HolderIsRegistered, IdsOf, NULL_BROWSER
<1>10. RefsCountHolders'
  <2> SUFFICES ASSUME NEW i \in DOMAIN m_Browsers
               PROVE  LET c == m_Browsers[i].m_BrowserInterface IN
                         m_Browsers[i].m_RefCount =
                            One(bho[c].m_BrowserId = i) + One(bar'[c].m_BrowserId = i) + lost'[i]
    BY <1>1 DEF RefsCountHolders, One
  <2>1. m_Browsers[i].m_BrowserInterface \in Browsers
    BY DEF IInv, TypeOK, Entry
  <2>2. i # 0 /\ i \in Ids
    BY NextIdInRange DEF IInv, Ids
  <2>3. CASE i = id
    <3>1. m_Browsers[id].m_RefCount = One(bho[b].m_BrowserId = id) + 1 + lost[id]
      BY <1>3, <1>4 DEF IInv, RefsCountHolders, One
    <3> QED
      BY <1>3, <1>4, <1>5, <1>7, <2>3, <3>1 DEF One
  <2>4. CASE i # id
    BY <1>3, <1>5, <1>7, <2>1, <2>2, <2>4 DEF IInv, RefsCountHolders, One
  <2> QED
    BY <2>3, <2>4
<1>11. OneEntryPerBrowser' /\ SitedBHOIsAsked'
  BY <1>1 DEF IInv, OneEntryPerBrowser, SitedBHOIsAsked
<1>12. LostAreCounted'
  BY <1>1, <1>4, <1>7 DEF IInv, LostAreCounted
<1>13. WindowKeepsOwnId'
  BY <1>1, <1>6, NextIdInRange DEF IInv, WindowKeepsOwnId
<1> QED
  BY <1>8, <1>9, <1>10, <1>11, <1>12, <1>13 DEF IInv

\* A helperbar that is destroyed held no reference.
LEMMA BarDestroyKeeps ==
    ASSUME IInv, NEW b \in Browsers, BarDestroy(b)
    PROVE  IInv'
<1>1. /\ bar[b].state = "unsited"
      /\ bar' = [bar EXCEPT ![b] = NoBar] /\ workspace' = [workspace EXCEPT ![b] = NoWindow]
      /\ m_Browsers' = m_Browsers /\ m_NextId' = m_NextId /\ bho' = bho
      /\ panes' = panes /\ objects' = objects /\ lost' = lost /\ unregistered' = unregistered /\ fault' = fault
  BY DEF BarDestroy
<1>2. /\ bar' \in [Browsers -> Bar]
      /\ \A c \in Browsers : bar'[c].m_BrowserId = bar[c].m_BrowserId
  <2>1. NoBar \in Bar /\ NoBar.m_BrowserId = 0
    BY DEF NoBar, Bar, NULL_BROWSER
  <2>2. bar[b].m_BrowserId = 0
    BY <1>1, Points DEF IInv
  <2> QED
    BY <1>1, <2>1, <2>2 DEF IInv, TypeOK
<1>3. /\ workspace' \in [Browsers -> Window] /\ workspace'[b].m_BrowserId = 0
      /\ \A c \in Browsers : c # b => workspace'[c] = workspace[c]
  BY <1>1, NoWindowIsWindow DEF IInv, TypeOK
<1>4. TypeOK'
  BY <1>1, <1>2, <1>3 DEF IInv, TypeOK
<1>5. HolderIsRegistered'
  BY <1>1, <1>2 DEF IInv, HolderIsRegistered, IdsOf
<1>6. RefsCountHolders'
  <2>1. \A i \in DOMAIN m_Browsers : m_Browsers[i].m_BrowserInterface \in Browsers
    BY DEF IInv, TypeOK, Entry
  <2> QED
    BY <1>1, <1>2, <2>1 DEF IInv, RefsCountHolders, One
<1>7. OneEntryPerBrowser' /\ LostAreCounted' /\ SitedBHOIsAsked'
  BY <1>1 DEF IInv, OneEntryPerBrowser, LostAreCounted, SitedBHOIsAsked
<1>8. WindowKeepsOwnId'
  BY <1>1, <1>3, NextIdInRange DEF IInv, WindowKeepsOwnId
<1> QED
  BY <1>4, <1>5, <1>6, <1>7, <1>8 DEF IInv

\* The message of the workspace window asks for the entry of its own browser, if any.
LEMMA InitializeDefaultPanesKeeps ==
    ASSUME IInv, NEW b \in Browsers, InitializeDefaultPanes(b)
    PROVE  IInv'
<1> DEFINE id == workspace[b].m_BrowserId
           done == [workspace[b] EXCEPT !.posted = FALSE]
<1>1. /\ workspace[b].posted /\ panes' = panes \cup {id}
      /\ RequestDOM(id) \/ fault' = fault
      /\ workspace' = [workspace EXCEPT ![b] = done]
      /\ m_Browsers' = m_Browsers /\ m_NextId' = m_NextId /\ bho' = bho /\ bar' = bar
      /\ objects' = objects /\ lost' = lost /\ unregistered' = unregistered
  BY DEF InitializeDefaultPanes
<1>2. workspace \in [Browsers -> Window] /\ workspace[b] \in Window
  BY DEF IInv, TypeOK
<1>3. id \in Ids /\ done \in Window /\ done.m_BrowserId = id
  <2>1. workspace[b] # NoWindow
    <3>1. NoWindow.posted = FALSE
      BY Zenon DEF NoWindow
    <3> QED
      BY <1>1, <3>1, Zenon
  <2>2. workspace[b] \in [m_BrowserId : Ids, posted : BOOLEAN]
    BY <1>2, <2>1, Zenon DEF Window
  <2>3. /\ id \in Ids /\ done.m_BrowserId = id
        /\ done \in [m_BrowserId : Ids, posted : BOOLEAN]
    BY <2>2
  <2> QED
    BY <2>3, Zenon DEF Window
<1> HIDE DEF id, done
<1>4. /\ workspace' \in [Browsers -> Window]
      /\ \A c \in Browsers : workspace'[c].m_BrowserId = workspace[c].m_BrowserId
  BY <1>1, <1>2, <1>3 DEF id
<1>5. fault' \in {"none", "no BHO", "stale BHO", "no entry"}
  BY <1>1 DEF IInv, TypeOK, RequestDOM
<1>6. TypeOK'
  BY <1>1, <1>3, <1>4, <1>5 DEF IInv, TypeOK
<1>7. HolderIsRegistered' /\ OneEntryPerBrowser' /\ LostAreCounted' /\ SitedBHOIsAsked'
  BY <1>1 DEF IInv, HolderIsRegistered, IdsOf, OneEntryPerBrowser, LostAreCounted,
              SitedBHOIsAsked
<1>8. RefsCountHolders'
  BY <1>1 DEF IInv, RefsCountHolders, One
<1>9. WindowKeepsOwnId'
  BY <1>1, <1>4 DEF IInv, WindowKeepsOwnId
<1> QED
  BY <1>6, <1>7, <1>8, <1>9 DEF IInv

----------------------------------------------------------------------------
\* Nothing is registered at first.
LEMMA InitInvariant == Init => IInv
<1> SUFFICES ASSUME Init PROVE IInv
  OBVIOUS
<1>1. DOMAIN m_Browsers = {}
  BY DEF Init
<1>2. NoSite \in Site /\ NoBar \in Bar /\ NoSite.m_BrowserId = 0 /\ NoBar.m_BrowserId = 0
  BY DEF NoSite, Site, NoBar, Bar, NULL_BROWSER
<1>3. NoWindow \in Window /\ NoWindow.m_BrowserId = 0
  BY NoWindowIsWindow
<1>4. m_Browsers \in [DOMAIN m_Browsers -> Entry]
  BY DEF Init
<1>5. lost \in [Ids -> 0 .. MaxLost]
  BY BrowserBoundsAssumption DEF Init
<1>6. TypeOK
  BY <1>1, <1>2, <1>3, <1>4, <1>5 DEF Init, TypeOK
<1>7. HolderIsRegistered
  BY <1>2 DEF Init, HolderIsRegistered, IdsOf, NULL_BROWSER
<1>8. RefsCountHolders /\ OneEntryPerBrowser /\ SitedBHOIsAsked
  BY <1>1 DEF Init, RefsCountHolders, OneEntryPerBrowser, SitedBHOIsAsked
<1>9. LostAreCounted
  BY DEF Init, LostAreCounted
<1>10. WindowKeepsOwnId
  BY <1>1, <1>3 DEF Init, WindowKeepsOwnId, NULL_BROWSER
<1> QED
  BY <1>6, <1>7, <1>8, <1>9, <1>10 DEF IInv

\* Every call of IE keeps the invariant.
LEMMA NextInvariant == IInv /\ [Next]_vars => IInv'
<1> SUFFICES ASSUME IInv, [Next]_vars PROVE IInv'
  OBVIOUS
<1>1. CASE UNCHANGED vars
  BY <1>1, Zenon DEF IInv, vars, TypeOK, HolderIsRegistered, RefsCountHolders, IdsOf, One,
                     OneEntryPerBrowser, LostAreCounted, SitedBHOIsAsked, WindowKeepsOwnId
<1>2. CASE Next
  BY <1>2, BHOSetSiteKeeps, BHOClearSiteKeeps, UnregisteredKeeps, BarSetSiteKeeps, BarClearSiteKeeps,
     BarAbandonKeeps, BarDestroyKeeps, InitializeDefaultPanesKeeps DEF Next
<1> QED
  BY <1>1, <1>2

\* The registry keeps the inductive invariant: each entry is counted right, is held by
\* objects of its own browser only, and asks the BHO its browser has.
THEOREM Invariance == Spec => []IInv
  BY InitInvariant, NextInvariant, PTL DEF Spec

\* Every variable keeps its type, and the ids handed out are never above m_NextId.
THEOREM TypeCorrect == Spec => []TypeOK
<1>1. IInv => TypeOK
  BY DEF IInv
<1> QED
  BY <1>1, Invariance, PTL

\* The assertion of ReleaseBrowserId holds for the objects that have registered, for any
\* number of browsers whose objects come and go in any order.
THEOREM HoldersAreRegistered == Spec => []HolderIsRegistered
<1>1. IInv => HolderIsRegistered
  BY DEF IInv
<1> QED
  BY <1>1, Invariance, PTL

\* No entry is deleted under an object that holds its id, none outlives its objects
\* except by the references that were lost.
THEOREM RefsAreCounted == Spec => []RefsCountHolders
<1>1. IInv => RefsCountHolders
  BY DEF IInv
<1> QED
  BY <1>1, Invariance, PTL

\* The objects of one browser share its id, and no other browser has it.
THEOREM IdsNameBrowsers == Spec => []IdNamesBrowser
<1>1. IInv => IdNamesBrowser
  <2> SUFFICES ASSUME IInv, NEW b \in Browsers, NEW c \in Browsers,
                      NEW i \in IdsOf(b), NEW j \in IdsOf(c)
               PROVE  i = j <=> b = c
    BY DEF IdNamesBrowser
  <2>1. /\ i \in DOMAIN m_Browsers /\ m_Browsers[i].m_BrowserInterface = b
        /\ j \in DOMAIN m_Browsers /\ m_Browsers[j].m_BrowserInterface = c
    BY DEF IInv, HolderIsRegistered
  <2> QED
    BY <2>1 DEF IInv, OneEntryPerBrowser
<1> QED
  BY <1>1, Invariance, PTL

\* The entry of a browser whose BHO has a site names that BHO, not an older one.
THEOREM SitedBHOsAreAsked == Spec => []SitedBHOIsAsked
<1>1. IInv => SitedBHOIsAsked
  BY DEF IInv
<1> QED
  BY <1>1, Invariance, PTL

\* RequestDOM follows a NULL or a stale pointer only for a browser whose BHO has no
\* site: the id a workspace window keeps is its own browser's or nobody's.
THEOREM FaultsNeedUnsitedBHO == Spec => FaultNeedsUnsitedBHO
<1> DEFINE Harmless == \A b \in Browsers :
              workspace[b].posted /\ ~workspace'[b].posted /\ bho[b] # NoSite =>
                  fault' = fault
<1>1. IInv /\ [Next]_vars => [Harmless]_vars
  <2> SUFFICES ASSUME IInv, Next, NEW b \in Browsers,
                      workspace[b].posted, ~workspace'[b].posted, bho[b] # NoSite
               PROVE  fault' = fault
    BY Zenon DEF vars
  <2>1. PICK c \in Browsers : \/ BHOSetSite(c) \/ BHOClearSite(c)
                              \/ BHOSetSiteFails(c) \/ BHORelease(c)
                              \/ BHOClearUnregistered(c)
                              \/ BarSetSite(c) \/ BarClearSite(c)
                              \/ BarAbandon(c) \/ BarDestroy(c)
                              \/ InitializeDefaultPanes(c)
    BY DEF Next
  <2>2. CASE ~InitializeDefaultPanes(c)
    BY <2>1, <2>2 DEF BHOSetSite, BHOClearSite, BHOSetSiteFails, BHORelease,
                      BHOClearUnregistered, BarSetSite, BarClearSite, BarAbandon,
                      BarDestroy
  <2>3. CASE InitializeDefaultPanes(c)
    <3>1. workspace \in [Browsers -> Window]
      BY DEF IInv, TypeOK
    <3>2. workspace' = [workspace EXCEPT ![c].posted = FALSE]
      BY <2>3 DEF InitializeDefaultPanes
    <3>3. c = b
      BY <3>1, <3>2
    <3> DEFINE id == workspace[b].m_BrowserId
    <3>4. RequestDOM(id) \/ fault' = fault
      BY <2>3, <3>3 DEF InitializeDefaultPanes
    <3>5. bho[b].m_BrowserId \in Ids
      BY Points DEF IInv
    <3>6. /\ bho[b].m_BrowserId \in DOMAIN m_Browsers
          /\ m_Browsers[bho[b].m_BrowserId].m_BrowserInterface = b
      BY <3>5 DEF IInv, HolderIsRegistered, IdsOf, NULL_BROWSER, Ids
    <3>7. id \in DOMAIN m_Browsers => id = bho[b].m_BrowserId
      BY <3>6 DEF IInv, WindowKeepsOwnId, OneEntryPerBrowser
    <3>8. id \in DOMAIN m_Browsers => m_Browsers[id].m_BHO = bho[b].object
      BY <3>7 DEF IInv, SitedBHOIsAsked
    <3>9. bho[b].object # NoBHO
      BY Points, BrowserBoundsAssumption DEF IInv, BHOs, NoBHO
    <3> QED
      BY <3>4, <3>8, <3>9 DEF RequestDOM
  <2> QED
    BY <2>2, <2>3
<1>2. Spec => [][Harmless]_vars
  BY <1>1, Invariance, PTL DEF Spec
<1> QED
  BY <1>2 DEF FaultNeedsUnsitedBHO

=============================================================================
