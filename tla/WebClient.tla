------------------------------ MODULE WebClient ------------------------------
(***************************************************************************)
(* The search page (web: pages/SearchPage.tsx): the box and its controls   *)
(* over the search hook, a final list that settles when it was committed   *)
(* or left alone for a while, results that are seen and opened, a tab that *)
(* is hidden and a page that is left, perhaps to come back from the        *)
(* browser's cache, and the consent switch of the footer (App.tsx).        *)
(*                                                                         *)
(* React runs the effects of a render in their order; the page's settle    *)
(* effect runs when finality, request id or committed query have changed.  *)
(* The URL, suggestions, rendering and focus are left out.                 *)
(***************************************************************************)
EXTENDS SearchHook, Interactions

CONSTANTS
    MaxConsents,   \* bound: changes of the consent
    MaxStory       \* bound: events of one list before another click

ASSUME PageAssumption == MaxConsents \in Nat /\ MaxStory \in Nat

VARIABLES
    committed,   \* committedQuery
    settling,    \* the list whose settle timer runs
    settledId,
    view,        \* "results", or a passage in their place
    page,        \* "visible", "hidden", "gone"
    client       \* the tracker and the logger

pageVars == <<committed, settling, settledId, view, page>>
webVars == <<hookVars, pageVars, client>>

WebInit ==
    /\ HookInit
    /\ committed = NoText /\ settling = NoOne /\ settledId = NoOne
    /\ view = "results" /\ page = "visible"
    /\ client = NewClient(Ids)

-----------------------------------------------------------------------------
(* The settle effect, on p = [settling, settledId, client]. *)

Page == [settling |-> settling, settledId |-> settledId, client |-> client]

SettleNow(p, id) == [settling |-> NoOne, settledId |-> id, client |-> Settled(p.client, id)]

Deps(s, text) == <<s.phase = "final", s.list.id, text>>

\* A render with hook state s and committed query `text`, after one with s0, text0.
Rendered(p, s0, text0, s, text) ==
    IF Deps(s, text) = Deps(s0, text0) THEN p
    ELSE IF s.phase # "final" THEN [p EXCEPT !.settling = NoOne]
    ELSE IF s.list.text = text THEN SettleNow(p, s.list.id)
    ELSE [p EXCEPT !.settling = s.list.id]

Becomes(p) == settling' = p.settling /\ settledId' = p.settledId /\ client' = p.client

\* The hook's state has changed.
Follow == Becomes(Rendered(Page, shown, committed, shown', committed))

-----------------------------------------------------------------------------
(* The user. *)

Params == IF queries = <<>> THEN [text |-> NoText, mode |-> CHOOSE m \in Modes : TRUE] ELSE Last(queries)

AtTheBox == page = "visible" /\ view = "results"

\* onChange of the box.
TypeText(text) ==
    /\ AtTheBox /\ text # Params.text
    /\ Ask([Params EXCEPT !.text = text])
    /\ Follow
    /\ UNCHANGED <<committed, view, page>>

\* commit, changeMode, changeRerank: the render that commits the query still has
\* the hook's old state; the hook's own effect makes the second one.
CommitQuery(p) ==
    /\ AtTheBox /\ p.text # NoText
    /\ committed' = p.text
    /\ IF p = Params THEN UNCHANGED hookVars ELSE Ask(p)
    /\ Becomes(Rendered(Rendered(Page, shown, committed, shown, p.text),
                        shown, p.text, shown', p.text))
    /\ UNCHANGED <<view, page>>

\* SETTLE_MS have passed.
SettleTimer ==
    /\ page # "gone" /\ settling # NoOne
    /\ Becomes(SettleNow(Page, settling))
    /\ UNCHANGED <<hookVars, committed, view, page>>

\* The result of the settled list has been in view for IMPRESSION_MS.
See ==
    /\ AtTheBox /\ shown.list # NoList
    /\ shown.phase # "lexical" /\ settledId = shown.list.id
    /\ client' = Impression(client, shown.list.id)
    /\ UNCHANGED <<hookVars, pageVars>>

\* A result is opened, in place of the results or in another tab.
Open(inPlace) ==
    /\ AtTheBox /\ shown.list # NoList
    /\ Len(client.told[shown.list.id]) < MaxStory
    /\ client' = Click(client, shown.list.id)
    /\ view' = IF inPlace THEN "passage" ELSE view
    /\ UNCHANGED <<hookVars, committed, settling, settledId, page>>

Back ==
    /\ page = "visible" /\ view = "passage"
    /\ view' = "results"
    /\ client' = EndDwell(client)
    /\ UNCHANGED <<hookVars, committed, settling, settledId, page>>

SwitchConsent ==
    /\ page = "visible" /\ client.consent < MaxConsents
    /\ client' = IF client.enabled THEN OptOut(client) ELSE OptIn(client)
    /\ UNCHANGED <<hookVars, pageVars>>

-----------------------------------------------------------------------------
(* The browser. *)

Arrive ==
    /\ page # "gone"
    /\ \E g \in 1 .. generation : Served(g)
    /\ Follow
    /\ UNCHANGED <<committed, view, page>>

FlushTimer ==
    /\ page # "gone" /\ client.timer
    /\ client' = Flush(client, FALSE)
    /\ UNCHANGED <<hookVars, pageVars>>

PostReturns ==
    /\ page # "gone"
    /\ \E rest \in client.posts : client' = Posted(client, rest)
    /\ UNCHANGED <<hookVars, pageVars>>

\* visibilitychange: the tracker's listener, then the logger's.
Hide(beacon) ==
    /\ page = "visible"
    /\ page' = "hidden"
    /\ client' = Flush(Hidden(client), beacon)
    /\ UNCHANGED <<hookVars, committed, settling, settledId, view>>

Show ==
    /\ page = "hidden"
    /\ page' = "visible"
    /\ client' = Visible(client, view = "results")
    /\ UNCHANGED <<hookVars, committed, settling, settledId, view>>

\* Faulty variant of Leave: the logger's listener comes first.
LeaveLoggerFirst(beacon) ==
    /\ page # "gone"
    /\ page' = "gone"
    /\ client' = Unloading(Flush(client, beacon))
    /\ UNCHANGED <<hookVars, committed, settling, settledId, view>>

\* pagehide: the tracker's listener is attached before the logger's.
Leave(beacon) ==
    /\ page # "gone"
    /\ page' = "gone"
    /\ client' = Flush(Unloading(client), beacon)
    /\ UNCHANGED <<hookVars, committed, settling, settledId, view>>

\* The page comes back as it was from the back/forward cache.
Return ==
    /\ page = "gone"
    /\ page' = "visible"
    /\ client' = Visible(client, view = "results")
    /\ UNCHANGED <<hookVars, committed, settling, settledId, view>>

\* A user at the page, ...
UsePage ==
    \/ \E text \in Texts \cup {NoText} : TypeText(text)
    \/ \E p \in [text : Texts, mode : Modes] : CommitQuery(p)
    \/ SettleTimer \/ See \/ Back
    \/ \E inPlace \in BOOLEAN : Open(inPlace)
    \/ Arrive \/ FlushTimer \/ PostReturns

\* ... who leaves it and comes back, ...
LeavePage ==
    \/ Show \/ Return \/ SwitchConsent
    \/ \E beacon \in BOOLEAN : Hide(beacon) \/ Leave(beacon)

\* ... and a service that fails.
Fail ==
    /\ page # "gone"
    /\ \E g \in 1 .. generation : Unserved(g)
    /\ Follow
    /\ UNCHANGED <<committed, view, page>>

WebNext == UsePage \/ LeavePage \/ Fail

WebSpec == WebInit /\ [][WebNext]_webVars

-----------------------------------------------------------------------------
\* What the user does with a list is told whole and in order, is sent under the
\* consent it was logged under, and nothing of it is still in the page when the
\* page is left: interactions.ts, events.ts and the order of their listeners.
InteractionsAreTold ==
    /\ SentUnderConsent(client)
    /\ \A id \in Ids : WellTold(client.told[id], client.current = id, client.dwell = id)
    /\ page = "gone" =>
           /\ client.queue = <<>> /\ client.current = NoOne /\ client.dwell = NoOne
           /\ client.posts \subseteq {<<>>}
==============================================================================
