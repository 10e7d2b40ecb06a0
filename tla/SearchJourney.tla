---------------------------- MODULE SearchJourney ----------------------------
(***************************************************************************)
(* Both ends of a search: the broker's pipeline (SearchService) and the    *)
(* page that asked (WebClient).  They meet in the stream of events: the    *)
(* broker promises a lexical page before the final one (PagesInOrder), the *)
(* page does not rely on it (LexicalList).  So each end is explored with   *)
(* the other at rest, and the page with a service that fails apart from a  *)
(* page that is left: together they are too many states for one run.       *)
(***************************************************************************)
EXTENDS SearchService, WebClient

VARIABLE side   \* "broker", "stream", "page": what this behaviour is about

journeyVars == <<side, vars, webVars>>

NoSearch ==
    /\ stage = "cancelled" /\ now = 0
    /\ arms = CHOOSE some \in Arms : TRUE
    /\ est = CHOOSE some \in Estimates : TRUE
    /\ sse = FALSE /\ lexical = FALSE /\ shrink = FALSE /\ dense = FALSE /\ rerank = FALSE
    /\ steps = {} /\ asked = {} /\ hits = {} /\ passages = {} /\ scored = {}
    /\ samples = {} /\ pages = <<>>

JourneyInit ==
    /\ WebInit
    /\ \/ side = "broker" /\ Init
       \/ side \in {"stream", "page"} /\ NoSearch

InBroker == side = "broker" /\ Next /\ UNCHANGED <<side, webVars>>

InBrowser ==
    /\ \/ side \in {"stream", "page"} /\ UsePage
       \/ side = "stream" /\ Fail
       \/ side = "page" /\ LeavePage
    /\ UNCHANGED <<side, vars>>

JourneySpec == JourneyInit /\ [][InBroker \/ InBrowser]_journeyVars
==============================================================================
