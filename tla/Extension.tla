----------------------------- MODULE Extension ------------------------------
(***************************************************************************)
(* The browser extension: content script (content-overlay/index.ts),       *)
(* service worker (background.ts) and side panels (sidepanel/main.tsx) over*)
(* the allowlist.  A message is delivered, after any delay, to the contexts*)
(* that exist when it is sent; messages of different senders mix.          *)
(***************************************************************************)
EXTENDS AllowlistEditor

CONSTANTS
  Tabs,
  Home,        \* tab -> its window
  OriginOf,    \* tab -> the origin of its page
  MaxRequests, \* bound: wallet requests the pages make
  NoOrigin

ASSUME ExtensionAssumption ==
  /\ Home \in [Tabs -> Windows] /\ \A w \in Windows : \E t \in Tabs : Home[t] = w
  /\ OriginOf \in [Tabs -> Origins]
  /\ MaxRequests \in Nat /\ NoOrigin \notin Origins

VARIABLES
  requests,    \* history: wallet requests so far
  checking,    \* tab -> handleIntercept calls that wait for isAllowed
  overlay,     \* tab -> the holding overlay is in its page
  background,  \* origin -> intercepts on their way to the service worker
  active,      \* window -> its active tab
  panel,       \* window -> its side panel is open
  mail,        \* window -> origin -> intercepts on their way to its panel
  pending,     \* window -> origin the panel asks about, or NoOrigin
  deciding,    \* window -> decide() waits for tabs.query
  decision,    \* tab -> decisions on their way to it
  attended     \* history: tab -> "yes" when its overlay came with the tab active
               \* and the panel open, "late" with the panel closed, and "no" once
               \* the user has left the tab or closed the panel

pageVars == <<requests, checking, overlay>>
panelVars == <<panel, pending, deciding>>
extensionVars ==
  <<editorVars, pageVars, panelVars, background, active, mail, decision, attended>>

-----------------------------------------------------------------------------
(* Content script *)

\* The page emits atlas:wallet-intercept.
Intercept(t) ==
  /\ requests < MaxRequests
  /\ requests' = requests + 1
  /\ checking' = [checking EXCEPT ![t] = @ + 1]
  /\ UNCHANGED <<editorVars, overlay, panelVars, background, active, mail, decision, attended>>

Broadcast(o) ==
  mail' = [w \in Windows |-> IF panel[w] THEN [mail[w] EXCEPT ![o] = @ + 1] ELSE mail[w]]

\* isAllowed has answered: nothing on other origins, else tell the worker and
\* the panels, and show the overlay unless it is there.
Check(t) ==
  LET o == OriginOf[t] IN
  /\ checking[t] > 0
  /\ checking' = [checking EXCEPT ![t] = @ - 1]
  /\ IF Allowed(o)
     THEN /\ background' = [background EXCEPT ![o] = @ + 1]
          /\ Broadcast(o)
          /\ overlay' = [overlay EXCEPT ![t] = TRUE]
          /\ attended' = [attended EXCEPT ![t] =
               CASE overlay[t]            -> @
                 [] active[Home[t]] # t   -> "no"
                 [] panel[Home[t]]        -> "yes"
                 [] OTHER                 -> "late"]
     ELSE UNCHANGED <<background, mail, overlay, attended>>
  /\ UNCHANGED <<editorVars, requests, panelVars, active, decision>>

\* isAllowed fails as the storage does: the request is let through in silence.
CheckFails(t) ==
  /\ checking[t] > 0
  /\ checking' = [checking EXCEPT ![t] = @ - 1]
  /\ UNCHANGED <<editorVars, requests, overlay, panelVars, background, active, mail, decision,
                 attended>>

\* A decision reaches the page; what it decides is not compared.
Receive(t) ==
  /\ decision[t] > 0
  /\ decision' = [decision EXCEPT ![t] = @ - 1]
  /\ overlay' = [overlay EXCEPT ![t] = FALSE]
  /\ UNCHANGED <<editorVars, requests, checking, panelVars, background, active, mail, attended>>

\* The user reloads the page or follows a link on it.
Reload(t) ==
  /\ checking' = [checking EXCEPT ![t] = 0]
  /\ overlay' = [overlay EXCEPT ![t] = FALSE]
  /\ decision' = [decision EXCEPT ![t] = 0]
  /\ UNCHANGED <<editorVars, requests, panelVars, background, active, mail, attended>>

-----------------------------------------------------------------------------
(* Service worker *)

\* The worker sends on an intercept that the panels have been sent already.
Forward(o) ==
  /\ background[o] > 0
  /\ background' = [background EXCEPT ![o] = @ - 1]
  /\ Broadcast(o)
  /\ UNCHANGED <<editorVars, pageVars, panelVars, active, decision, attended>>

-----------------------------------------------------------------------------
(* Side panel *)

Open(w) ==
  /\ ~panel[w]
  /\ panel' = [panel EXCEPT ![w] = TRUE]
  /\ UNCHANGED <<editorVars, pageVars, pending, deciding, background, active, mail,
                 decision, attended>>

Neglect(tabs) == attended' = [t \in Tabs |-> IF t \in tabs THEN "no" ELSE attended[t]]

\* Closing a panel forgets what it asked and what is on its way to it.
Close(w) ==
  /\ panel[w]
  /\ panel' = [panel EXCEPT ![w] = FALSE]
  /\ pending' = [pending EXCEPT ![w] = NoOrigin]
  /\ deciding' = [deciding EXCEPT ![w] = FALSE]
  /\ mail' = [mail EXCEPT ![w] = [o \in Origins |-> 0]]
  /\ Unmount(w)
  /\ Neglect({t \in Tabs : Home[t] = w})
  /\ UNCHANGED <<allowlist, list, writes, edits, overlapped, pageVars, background,
                 active, decision>>

\* onMessage: a later request takes the place of an earlier one.
Deliver(w, o) ==
  /\ mail[w][o] > 0
  /\ mail' = [mail EXCEPT ![w][o] = @ - 1]
  /\ pending' = [pending EXCEPT ![w] = o]
  /\ UNCHANGED <<editorVars, pageVars, panel, deciding, background, active, decision, attended>>

\* decide(), up to its query for the active tab of the window; the buttons are
\* there on the Inspect view, where no editor is mounted.
Decide(w) ==
  /\ pending[w] # NoOrigin /\ ~deciding[w] /\ editor[w] = "none"
  /\ deciding' = [deciding EXCEPT ![w] = TRUE]
  /\ UNCHANGED <<editorVars, pageVars, panel, pending, background, active, mail,
                 decision, attended>>

\* Answer taking the first tab of the window, active or not.
AnswerAnyTab(w) ==
  /\ deciding[w]
  /\ deciding' = [deciding EXCEPT ![w] = FALSE]
  /\ pending' = [pending EXCEPT ![w] = NoOrigin]
  /\ LET first == CHOOSE t \in Tabs : Home[t] = w IN
     decision' = [decision EXCEPT ![first] = @ + 1]
  /\ UNCHANGED <<editorVars, pageVars, panel, background, active, mail, attended>>

\* The query answers: the decision goes to that tab, whichever tab had asked,
\* and whatever is pending by now is cleared.
Answer(w) ==
  /\ deciding[w]
  /\ deciding' = [deciding EXCEPT ![w] = FALSE]
  /\ pending' = [pending EXCEPT ![w] = NoOrigin]
  /\ decision' = [decision EXCEPT ![active[w]] = @ + 1]
  /\ UNCHANGED <<editorVars, pageVars, panel, background, active, mail, attended>>

\* The user goes to another tab of the window.
Activate(t) ==
  LET w == Home[t] IN
  /\ active[w] # t
  /\ active' = [active EXCEPT ![w] = t]
  /\ Neglect({u \in Tabs : Home[u] = w} \ {t})
  /\ UNCHANGED <<editorVars, pageVars, panelVars, background, mail, decision>>

\* The panel's Allowlist and Inspect buttons mount and unmount the editor.
ShowAllowlist(w) ==
  /\ panel[w] /\ Mount(w)
  /\ UNCHANGED <<pageVars, panelVars, background, active, mail, decision, attended>>
ShowInspect(w) ==
  /\ editor[w] # "none" /\ Unmount(w)
  /\ UNCHANGED <<allowlist, list, writes, edits, overlapped, pageVars, panelVars, background,
                 active, mail, decision, attended>>

Editing(w) ==
  /\ \/ ListLoaded(w) \/ Written(w) \/ WriteLost(w)
     \/ \E o \in Origins : Edit(w, o)
  /\ UNCHANGED <<pageVars, panelVars, background, active, mail, decision, attended>>

-----------------------------------------------------------------------------
ExtensionInit ==
  /\ EditorInit
  /\ requests = 0
  /\ checking = [t \in Tabs |-> 0] /\ overlay = [t \in Tabs |-> FALSE]
  /\ background = [o \in Origins |-> 0]
  /\ active \in {a \in [Windows -> Tabs] : \A w \in Windows : Home[a[w]] = w}
  /\ panel = [w \in Windows |-> FALSE]
  /\ mail = [w \in Windows |-> [o \in Origins |-> 0]]
  /\ pending = [w \in Windows |-> NoOrigin] /\ deciding = [w \in Windows |-> FALSE]
  /\ decision = [t \in Tabs |-> 0] /\ attended = [t \in Tabs |-> "no"]

ExtensionNext ==
  \/ \E t \in Tabs : \/ Intercept(t) \/ Check(t) \/ CheckFails(t)
                     \/ Receive(t) \/ Reload(t) \/ Activate(t)
  \/ \E o \in Origins : Forward(o)
  \/ \E w \in Windows :
       \/ Open(w) \/ Close(w) \/ Decide(w) \/ Answer(w)
       \/ ShowAllowlist(w) \/ ShowInspect(w) \/ Editing(w)
       \/ \E o \in Origins : Deliver(w, o)

\* The browser delivers and answers.  The user opens the panel, comes back to
\* its Inspect view, and decides what it keeps asking.
ExtensionFairness ==
  /\ \A t \in Tabs : WF_extensionVars(Check(t)) /\ WF_extensionVars(Receive(t))
  /\ \A o \in Origins : WF_extensionVars(Forward(o))
  /\ \A w \in Windows :
       /\ WF_extensionVars(Open(w)) /\ WF_extensionVars(ShowInspect(w))
       /\ SF_extensionVars(Decide(w)) /\ WF_extensionVars(Answer(w))
       /\ \A o \in Origins : WF_extensionVars(Deliver(w, o))

ExtensionSpec == ExtensionInit /\ [][ExtensionNext]_extensionVars /\ ExtensionFairness

-----------------------------------------------------------------------------
(* Properties *)

\* As long as no edit was made before the list had loaded or beside another
\* editor, the list an editor shows is the one the content scripts read, but for
\* the writes still under way: "Atlas inspects pre-sign payloads only on the
\* origins listed below" (AllowlistEditor.tsx:50).  A failed write breaks this
\* until the editor writes or loads the list again, and no longer.
ListShownIsStored ==
  ~overlapped => \A w \in Windows :
    /\ editor[w] = "ready" /\ writes[w] # <<>> => list[w] = writes[w][Len(writes[w])]
    /\ editor[w] = "ready" /\ writes[w] = <<>> /\ ~lost[w] => list[w] = allowlist

\* A page behind the overlay is released when its panel stays open and its tab
\* active: the panel asks, the user decides, and the decision finds it, even
\* when requests pile up, come twice, or come from another tab
\* (sidepanel/main.tsx:41-50).
AttendedIsReleased ==
  \A t \in Tabs :
    overlay[t] /\ attended[t] = "yes" ~> ~overlay[t] \/ attended[t] # "yes"

\* "this overlay only blocks the page until user decides"
\* (content-overlay/index.ts:57), and tells the user to "open the Atlas side
\* panel to approve" (:76): a user who does so, and leaves neither tab nor
\* panel, gets the page back.
OverlayIsReleased ==
  \A t \in Tabs :
    overlay[t] /\ attended[t] # "no" ~> ~overlay[t] \/ attended[t] = "no"
=============================================================================
