----------------------------- MODULE ResultsPage ------------------------------
(***************************************************************************)
(* One browser showing the results: static/js/rso.js on the page of        *)
(* views/default/index.html, its requests to the handlers of ResultsView,  *)
(* and the tables they read, which aggregators write meanwhile.            *)
(*                                                                         *)
(* Requests are never cancelled; the server may answer them in any order   *)
(* and the page applies each answer when it comes, whatever it shows then. *)
(***************************************************************************)
EXTENDS ResultTables, ResultsView

CONSTANTS
    Menu,           \* the views of the menu that are clicked at all
    MaxRequests,    \* (bound) requests under way at a time
    MaxFades,       \* (bound) animations waiting at a time
    MaxCharts,      \* (bound) Chart objects alive at a time
    Failures        \* whether a request may fail: no database, no server

ASSUME MenuAssumption == Menu \subseteq Views \ (PartyViews \cup SexViews)
ASSUME BoundsAssumption == {MaxRequests, MaxFades, MaxCharts} \subseteq Nat \ {0}
ASSUME FailuresAssumption == Failures \in BOOLEAN

(* canvas elements that charts are drawn on (columnChart is never used) *)
Canvas == {"pieChart", "mixedColumnChart"}

VARIABLES
    reqs,        \* the requests under way, in the order they were made
    charts,      \* whether the elements of class charts are displayed
    canvases,    \* the canvases displayed within them
    drawn,       \* drawn[c]: the view last drawn on canvas c
    live,        \* live[c]: Chart objects on c that are not destroyed
    current,     \* the canvas of window.currentChart
    destroyed,   \* whether that Chart has been destroyed
    panel,       \* the panels with a list of buttons displayed
    buttons,     \* buttons[l]: copies of list l in its panel
    candidates,  \* whether the element candidates is displayed
    spinner,     \* whether the spinner is displayed
    fx,          \* jQuery's queue of animations of the spinner
    asked,       \* (history) the view asked for last
    outcome,     \* (history) what became of the last answer, "none" before
    calm,        \* (history) the last click was made with the page at rest
    hasty        \* (history) a click has been made before it was

chartVars == <<canvases, drawn, live, current, destroyed>>
listVars == <<panel, buttons>>
spinnerVars == <<spinner, fx>>
historyVars == <<asked, outcome, calm, hasty>>
vars == <<tab, reqs, charts, chartVars, listVars, candidates, spinnerVars, historyVars>>

NoView == <<"none", 0>>
NoCanvas == "none"
Request == [view : Views, answer : Kinds \cup {"none"}]

(* TypeOK: the tables and each part of the page keep to their values, the  *)
(* requests to their bound; no Chart is destroyed that is not there.       *)
TypeOK ==
    /\ TabTypeOK
    /\ reqs \in Seq(Request) /\ Len(reqs) <= MaxRequests
    /\ charts \in BOOLEAN
    /\ canvases \in SUBSET Canvas
    /\ drawn \in [Canvas -> ChartViews \cup {NoView}]
    /\ live \in [Canvas -> Nat]
    /\ current \in Canvas \cup {NoCanvas}
    /\ destroyed \in BOOLEAN
    /\ panel \in SUBSET Lists
    /\ buttons \in [Lists -> Nat]
    /\ candidates \in BOOLEAN
    /\ spinner \in BOOLEAN
    /\ fx \in Seq({"in", "out", "idle"})
    /\ asked \in Views
    /\ outcome \in Kinds \cup {"none"}
    /\ calm \in BOOLEAN
    /\ hasty \in BOOLEAN

(* document ready: showCandidatesPanel *)
Init ==
    /\ TabInit
    /\ reqs = <<[view |-> CandidatesPanel, answer |-> "none"]>>
    /\ charts = FALSE
    /\ canvases = {}
    /\ drawn = [c \in Canvas |-> NoView]
    /\ live = [c \in Canvas |-> 0]
    /\ current = NoCanvas
    /\ destroyed = FALSE
    /\ panel = {}
    /\ buttons = [l \in Lists |-> 0]
    /\ candidates = FALSE
    /\ spinner = TRUE
    /\ fx = <<>>
    /\ asked = CandidatesPanel
    /\ outcome = "none"
    /\ calm = TRUE
    /\ hasty = FALSE

(***************************************************************************)
(* The spinner.  show and hide act at once; fadeIn and fadeOut join the    *)
(* queue and begin when those before them have ended.                      *)
(***************************************************************************)

(* What the head of queue q does to a spinner displayed or not: a fadeOut  *)
(* of a hidden spinner will do nothing.                                    *)
Begin(q, displayed) ==
    IF q = <<>> THEN spinner' = displayed /\ fx' = q
    ELSE /\ spinner' = (displayed \/ Head(q) = "in")
         /\ fx' = IF Head(q) = "out" /\ ~displayed THEN <<"idle">> \o Tail(q) ELSE q

Fade(f) ==
    IF fx = <<>> THEN Begin(<<f>>, spinner)
                 ELSE spinner' = spinner /\ fx' = Append(fx, f)

Display(b) == spinner' = b /\ fx' = fx

FadeDone ==
    /\ fx # <<>>
    /\ Begin(Tail(fx), spinner /\ Head(fx) # "out")
    /\ UNCHANGED <<tab, reqs, charts, chartVars, listVars, candidates, historyVars>>

(***************************************************************************)
(* Clicks.                                                                 *)
(***************************************************************************)
AtRest == reqs = <<>> /\ fx = <<>>

(* $.ajax *)
Send(v) ==
    /\ Len(reqs) < MaxRequests /\ Len(fx) < MaxFades
    /\ live["pieChart"] + live["mixedColumnChart"] < MaxCharts
    /\ reqs' = Append(reqs, [view |-> v, answer |-> "none"])
    /\ asked' = v
    /\ calm' = AtRest
    /\ hasty' = (hasty \/ ~AtRest)
    /\ UNCHANGED outcome

(* Mutant of removeCurrentChart: only the canvas is hidden. *)
HideCurrentCanvas ==
    /\ canvases' = canvases \ {current}
    /\ UNCHANGED <<drawn, live, current, destroyed>>

(* window.currentChart is not reset: it may be destroyed again, in vain.   *)
removeCurrentChart ==
    /\ canvases' = canvases \ {current}
    /\ live' = [c \in Canvas |-> IF c = current /\ ~destroyed THEN live[c] - 1 ELSE live[c]]
    /\ destroyed' = (destroyed \/ current # NoCanvas)
    /\ UNCHANGED <<drawn, current>>

(* Mutant of init: the panels are hidden, with the buttons they have. *)
initKeepsButtons ==
    /\ charts' = TRUE
    /\ candidates' = FALSE
    /\ panel' = {}
    /\ UNCHANGED buttons
    /\ removeCurrentChart

init ==
    /\ charts' = TRUE
    /\ candidates' = FALSE
    /\ panel' = {}
    /\ buttons' = [l \in Lists |-> 0]
    /\ removeCurrentChart

(* An entry of the menu, but the candidates panel *)
ClickMenu(v) ==
    /\ v \in Menu \ {CandidatesPanel}
    /\ init
    /\ Fade("in")
    /\ Send(v)
    /\ UNCHANGED tab

(* Mutant of showCandidatesPanel: the charts stay. *)
CandidatesBesideCharts ==
    /\ CandidatesPanel \in Menu
    /\ Fade("in")
    /\ Send(CandidatesPanel)
    /\ UNCHANGED <<tab, charts, chartVars, listVars, candidates>>

showCandidatesPanel ==
    /\ CandidatesPanel \in Menu
    /\ charts' = FALSE
    /\ Fade("in")
    /\ Send(CandidatesPanel)
    /\ UNCHANGED <<tab, chartVars, listVars, candidates>>

ButtonViews(l) == IF l = PartyList THEN PartyViews ELSE SexViews

(* A button of a list that is displayed; the party's shows the spinner at  *)
(* once, the other fades it in.                                            *)
ClickButton(l, v) ==
    /\ charts /\ l \in panel /\ buttons[l] > 0
    /\ v \in ButtonViews(l)
    /\ IF l = PartyList THEN Display(TRUE) ELSE Fade("in")
    /\ removeCurrentChart
    /\ Send(v)
    /\ UNCHANGED <<tab, charts, listVars, candidates>>

(***************************************************************************)
(* The server and the network.                                             *)
(***************************************************************************)

(* The handler of a request reads the tables, or fails. *)
Serve(i) ==
    /\ reqs[i].answer = "none"
    /\ \E k \in {Handler(tab, reqs[i].view)} \cup (IF Failures THEN {"error"} ELSE {}) :
        reqs' = [reqs EXCEPT ![i].answer = k]
    /\ UNCHANGED <<tab, charts, chartVars, listVars, candidates, spinnerVars, historyVars>>

(***************************************************************************)
(* Answers.                                                                *)
(***************************************************************************)
Answers(i, V) ==
    /\ reqs[i].answer # "none"
    /\ reqs[i].view \in V
    /\ reqs' = RemoveAt(reqs, i)
    /\ outcome' = reqs[i].answer
    /\ UNCHANGED <<tab, charts, asked, calm, hasty>>

(* new Chart, on the canvas for views like v *)
NewChart(c, v) ==
    /\ canvases' = canvases \cup {c}
    /\ drawn' = [drawn EXCEPT ![c] = v]
    /\ live' = [live EXCEPT ![c] = @ + 1]
    /\ current' = c
    /\ destroyed' = FALSE

CanvasOf(v) == IF v \in PieViews THEN "pieChart" ELSE "mixedColumnChart"

(* Mutant of ShowChart: the spinner is hidden after the chart is there. *)
HideSpinnerLast(i) ==
    /\ Answers(i, ChartViews)
    /\ reqs[i].answer # "error"
    /\ IF reqs[i].answer = "data"
       THEN NewChart(CanvasOf(reqs[i].view), reqs[i].view) /\ Display(FALSE)
       ELSE UNCHANGED chartVars /\ UNCHANGED spinnerVars
    /\ UNCHANGED <<listVars, candidates>>

(* Mutant of ShowChart: the answer with a list is drawn as well. *)
ChartOfAnything(i) ==
    /\ Answers(i, Views)
    /\ reqs[i].answer = "data"
    /\ Display(FALSE)
    /\ NewChart(CanvasOf(reqs[i].view), reqs[i].view)
    /\ UNCHANGED <<listVars, candidates>>

(* showPieChart and showMixedColumnChart: a pie of nothing is not drawn,   *)
(* and Object.keys(null) throws, after the spinner is hidden.              *)
ShowChart(i) ==
    /\ Answers(i, ChartViews)
    /\ reqs[i].answer # "error"
    /\ Display(FALSE)
    /\ IF reqs[i].answer = "data"
       THEN NewChart(CanvasOf(reqs[i].view), reqs[i].view)
       ELSE UNCHANGED chartVars
    /\ UNCHANGED <<listVars, candidates>>

(* showPartyBlock and showSexBlock: the buttons are added to those there.  *)
ShowList(i) ==
    /\ Answers(i, Lists)
    /\ reqs[i].answer # "error"
    /\ buttons' = IF reqs[i].answer = "data"
                  THEN [buttons EXCEPT ![reqs[i].view] = @ + 1] ELSE buttons
    /\ panel' = panel \cup {reqs[i].view}
    /\ Display(FALSE)
    /\ UNCHANGED <<chartVars, candidates>>

(* Without candidates Object.keys(null) throws at once. *)
ShowCandidates(i) ==
    /\ Answers(i, {CandidatesPanel})
    /\ reqs[i].answer = "data"
    /\ candidates' = TRUE
    /\ Fade("out")
    /\ UNCHANGED <<chartVars, listVars>>

(* The error callbacks, and the TypeError of ShowCandidates, do nothing.   *)
Fails(i) ==
    /\ Answers(i, Views)
    /\ \/ reqs[i].answer = "error"
       \/ reqs[i].answer = "null" /\ reqs[i].view = CandidatesPanel
    /\ UNCHANGED <<chartVars, listVars, candidates, spinnerVars>>

Answer(i) == ShowChart(i) \/ ShowList(i) \/ ShowCandidates(i) \/ Fails(i)

(* An aggregator writes a row. *)
Write ==
    /\ \E e \in Allowed, n \in Count : WriteRow(e, n)
    /\ UNCHANGED <<reqs, charts, chartVars, listVars, candidates, spinnerVars, historyVars>>

Next ==
    \/ \E v \in Menu : ClickMenu(v)
    \/ showCandidatesPanel
    \/ \E l \in Lists : \E v \in ButtonViews(l) : ClickButton(l, v)
    \/ \E i \in DOMAIN reqs : Serve(i) \/ Answer(i)
    \/ FadeDone
    \/ Write

Spec == Init /\ [][Next]_vars

(* The browser's event loop gets to every animation and answer, and every  *)
(* request is answered or breaks; nobody has to click or write.            *)
FairSpec ==
    /\ Spec
    /\ WF_vars(FadeDone)
    /\ WF_vars(\E i \in DOMAIN reqs : Serve(i) \/ Answer(i))

(***************************************************************************)
(* Properties of the page.                                                 *)
(***************************************************************************)
Displayed == IF charts THEN {drawn[c] : c \in canvases} ELSE {}

(* ShownIsAsked: whoever waits for each answer before the next click sees, *)
(* when it has come, the chart asked for and no other, although canvases   *)
(* are shared and only the last chart is ever removed; no chart stays      *)
(* alive behind it, and the candidates are not beside a chart.  Who did    *)
(* not wait once still sees what is asked for, if beside something old.    *)
ShownIsAsked ==
    reqs = <<>> =>
        /\ ~hasty =>
              /\ Displayed \subseteq {asked}
              /\ live["pieChart"] + live["mixedColumnChart"] <= 1
              /\ candidates => ~charts
        /\ calm /\ asked \in ChartViews /\ outcome = "data" => asked \in Displayed

(* ListOnce: for the same user a list of buttons is there once, and the    *)
(* panel displayed is the one for the list asked for last, or for the      *)
(* button pressed in it.                                                   *)
ListOnce ==
    ~hasty =>
        /\ \A l \in Lists : buttons[l] <= 1
        /\ charts => \A l \in panel : asked = l \/ asked \in ButtonViews(l)

(* SpinnerOnlyAfterFailure: after a click made with the page at rest the   *)
(* spinner is left on, nothing being under way, only by a failure; neither *)
(* a fade that is still queued nor what happened before makes it stay.     *)
SpinnerOnlyAfterFailure ==
    calm /\ AtRest /\ spinner =>
        outcome = "error" \/ (asked = CandidatesPanel /\ outcome = "null")

(* EveryClickAnswered: after such a click the page comes to rest, with the *)
(* spinner off unless something has failed, or is clicked too early again. *)
EveryClickAnswered ==
    calm /\ ~AtRest ~> ~calm \/ (AtRest /\ (~spinner \/ outcome \in {"error", "null"}))

==============================================================================
