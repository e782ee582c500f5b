-------------------------- MODULE ResultsPage_proofs ---------------------------
(***************************************************************************)
(* Proofs about ResultsPage, for any tables, menu, parties and bounds, and *)
(* whether or not requests fail: types, and what a user who waits sees.    *)
(***************************************************************************)
EXTENDS ResultsPage, SequenceTheorems, TLAPS

(***************************************************************************)
(* Views and requests.                                                     *)
(***************************************************************************)

(* A view is of one kind only; each list has its own buttons. *)
LEMMA ViewsApart ==
    /\ CandidatesPanel \in Views \ (ChartViews \cup Lists)
    /\ Lists \subseteq Views \ ChartViews
    /\ PartyList # SexList
    /\ \A l \in Lists : ButtonViews(l) \subseteq ChartViews \ Lists
    /\ ButtonViews(PartyList) \cap ButtonViews(SexList) = {}
<1>1. DOMAIN Mixed = {"getConstituencies", "getAge", "getEducation"}
  BY DEF Mixed
<1>2. \A v \in MixedViews : v[1] \in {"getConstituencies", "getAge", "getEducation"}
  BY <1>1 DEF MixedViews
<1>3. /\ \A v \in PartyViews : v[1] = "getCandidatesFromParty"
      /\ \A v \in SexViews : v[1] = "getSex"
      /\ PartyList[1] = "getCandidates"
      /\ SexList[1] = "getSexList"
      /\ CandidatesPanel[1] = "showCandidatesPanel"
  BY DEF PartyViews, SexViews, PartyList, SexList, CandidatesPanel
<1>4. \A v \in PieViews : v[1] \in {"getFrequency", "getPartyPercentage",
                                    "getCandidatesFromParty", "getSex"}
  BY <1>3 DEF PieViews
<1>5. /\ PartyList \notin ChartViews
      /\ SexList \notin ChartViews
      /\ CandidatesPanel \notin ChartViews
  BY <1>2, <1>3, <1>4 DEF ChartViews
<1>6. PartyList # SexList /\ CandidatesPanel \notin Lists
  BY <1>3 DEF Lists
<1>7. PartyViews \cup SexViews \subseteq ChartViews
  BY DEF ChartViews, PieViews
<1>8. PartyViews \cap SexViews = {}
  BY <1>3
<1>9. Lists \subseteq Views \ ChartViews
  BY <1>5 DEF Views, Lists
<1>10. \A l \in Lists : ButtonViews(l) \subseteq ChartViews \ Lists
  BY <1>7, <1>9 DEF ButtonViews
<1>11. ButtonViews(PartyList) \cap ButtonViews(SexList) = {}
  BY <1>6, <1>8 DEF ButtonViews
<1>12. CandidatesPanel \in Views
  BY DEF Views
<1> QED
  BY <1>5, <1>6, <1>9, <1>10, <1>11, <1>12

(* Every request is answered with something the page knows. *)
LEMMA HandlerAnswers ==
    ASSUME NEW v \in Views
    PROVE  Handler(tab, v) \in Kinds
<1>1. v \in MixedViews \cup PieViews \cup Lists \cup {CandidatesPanel}
  BY DEF Views, ChartViews
<1>2. \/ v[1] \in {"getFrequency", "getPartyPercentage", "getCandidatesFromParty", "getSex"}
      \/ v \in MixedViews \/ v = PartyList \/ v = SexList \/ v = CandidatesPanel
  BY <1>1 DEF PieViews, PartyViews, SexViews, Lists
<1> QED
  BY <1>2 DEF Handler, Kinds

(* A request made comes last; one that is answered leaves the others. *)
LEMMA Made ==
    ASSUME TypeOK, NEW r \in Request
    PROVE  /\ Append(reqs, r) \in Seq(Request)
           /\ Len(Append(reqs, r)) = Len(reqs) + 1
           /\ Append(reqs, r) # <<>>
           /\ reqs = <<>> => \A i \in DOMAIN Append(reqs, r) : Append(reqs, r)[i] = r
<1>1. /\ Append(reqs, r) \in Seq(Request)
      /\ Len(Append(reqs, r)) = Len(reqs) + 1
      /\ Append(reqs, r)[Len(reqs) + 1] = r
  BY AppendProperties DEF TypeOK
<1>2. DOMAIN Append(reqs, r) = 1..(Len(reqs) + 1) /\ Len(reqs) \in Nat
  BY <1>1 DEF TypeOK
<1>3. ASSUME reqs = <<>>
      PROVE  \A i \in DOMAIN Append(reqs, r) : Append(reqs, r)[i] = r
  <2>1. Len(reqs) = 0
    BY <1>3
  <2> QED
    BY <1>1, <1>2, <2>1
<1> QED
  BY <1>1, <1>2, <1>3

LEMMA Removed ==
    ASSUME TypeOK, NEW i \in DOMAIN reqs
    PROVE  /\ reqs[i] \in Request
           /\ RemoveAt(reqs, i) \in Seq(Request)
           /\ Len(RemoveAt(reqs, i)) = Len(reqs) - 1
           /\ Len(reqs) <= 1 => RemoveAt(reqs, i) = <<>>
<1> DEFINE front == SubSeq(reqs, 1, i - 1)
           back == SubSeq(reqs, i + 1, Len(reqs))
<1>1. reqs \in Seq(Request) /\ Len(reqs) \in Nat /\ i \in 1..Len(reqs)
  BY DEF TypeOK
<1>2. /\ front \in Seq(Request) /\ Len(front) = i - 1
      /\ back \in Seq(Request) /\ Len(back) = Len(reqs) - i
  BY <1>1, SubSeqProperties
<1>3. /\ RemoveAt(reqs, i) \in Seq(Request)
      /\ Len(RemoveAt(reqs, i)) = Len(reqs) - 1
  <2>1. RemoveAt(reqs, i) = front \o back
    BY DEF RemoveAt
  <2> HIDE DEF front, back
  <2>2. front \o back \in Seq(Request) /\ Len(front \o back) = Len(front) + Len(back)
    BY <1>2, ConcatProperties
  <2> QED
    BY <1>1, <1>2, <2>1, <2>2
<1>4. ASSUME Len(reqs) <= 1
      PROVE  RemoveAt(reqs, i) = <<>>
  <2>1. Len(RemoveAt(reqs, i)) = 0
    BY <1>1, <1>3, <1>4
  <2> QED
    BY <1>3, <2>1
<1> QED
  BY <1>1, <1>3, <1>4

(***************************************************************************)
(* The inductive invariant.                                                *)
(***************************************************************************)

(* The Chart that window.currentChart names is alive until it is destroyed. *)
CurrentAlive == current # NoCanvas /\ ~destroyed => live[current] > 0

(* The charts are displayed unless the candidates were asked for last; as  *)
(* long as the user has waited, one request at most is under way, for what *)
(* was asked for last.                                                     *)
AskedOnce ==
    /\ charts <=> asked # CandidatesPanel
    /\ ~hasty => calm
    /\ calm => /\ Len(reqs) <= 1
               /\ \A i \in DOMAIN reqs : reqs[i].view = asked

(* What was asked for and has been answered is displayed. *)
AskedIsShown ==
    calm /\ reqs = <<>> /\ asked \in ChartViews /\ outcome = "data" =>
        \E c \in canvases : drawn[c] = asked

(* While the user has always waited: one Chart is alive at most, the       *)
(* current one, and none while the next is fetched.                        *)
OneChart ==
    /\ canvases \subseteq {current}
    /\ \A c \in Canvas : live[c] = IF c = current /\ ~destroyed THEN 1 ELSE 0
    /\ charts => \A c \in canvases : drawn[c] = asked
    /\ charts /\ reqs # <<>> => canvases = {} /\ (destroyed \/ current = NoCanvas)
    /\ candidates => ~charts

(* And one list of buttons at most is displayed, none while it is fetched. *)
OneList ==
    /\ \A l \in Lists : buttons[l] <= 1
    /\ reqs # <<>> /\ asked \in Lists => \A l \in Lists : buttons[l] = 0
    /\ charts => \A l \in panel : asked = l \/ asked \in ButtonViews(l)

Failed == outcome = "error" \/ (asked = CandidatesPanel /\ outcome = "null")

(* After a click at rest at most its own fadeIn is queued; once answered   *)
(* the spinner is off or about to be.                                      *)
SpinnerEnds ==
    /\ reqs # <<>> => fx \in {<<>>, <<"in">>}
    /\ reqs = <<>> /\ ~Failed =>
          \/ ~spinner /\ fx \in {<<>>, <<"in">>, <<"idle">>}
          \/ fx \in {<<"in", "out">>, <<"out">>}

PageInv ==
    /\ TypeOK
    /\ CurrentAlive
    /\ AskedOnce
    /\ AskedIsShown
    /\ ~hasty => OneChart /\ OneList
    /\ calm => SpinnerEnds

(***************************************************************************)
(* Types.                                                                  *)
(***************************************************************************)
TypeInv == TypeOK /\ CurrentAlive

LEMMA Begins ==
    ASSUME NEW q \in Seq({"in", "out", "idle"}), NEW b \in BOOLEAN, Begin(q, b)
    PROVE  fx' \in Seq({"in", "out", "idle"}) /\ spinner' \in BOOLEAN
<1>1. CASE q = <<>>
  BY <1>1 DEF Begin
<1>2. CASE q # <<>>
  <2>1. Head(q) \in {"in", "out", "idle"} /\ Tail(q) \in Seq({"in", "out", "idle"})
    BY <1>2
  <2>2. <<"idle">> \o Tail(q) \in Seq({"in", "out", "idle"})
    BY <2>1
  <2>3. fx' = q \/ fx' = <<"idle">> \o Tail(q)
    BY <1>2 DEF Begin
  <2>4. spinner' \in BOOLEAN
    BY <1>2 DEF Begin
  <2> QED
    BY <2>2, <2>3, <2>4
<1> QED
  BY <1>1, <1>2

LEMMA Fades ==
    ASSUME TypeOK, NEW f \in {"in", "out"}, Fade(f)
    PROVE  fx' \in Seq({"in", "out", "idle"}) /\ spinner' \in BOOLEAN
<1>1. fx \in Seq({"in", "out", "idle"}) /\ spinner \in BOOLEAN
  BY DEF TypeOK
<1>2. <<f>> \in Seq({"in", "out", "idle"}) /\ Append(fx, f) \in Seq({"in", "out", "idle"})
  BY <1>1
<1>3. CASE fx = <<>>
  BY <1>1, <1>2, <1>3, Begins DEF Fade
<1>4. CASE fx # <<>>
  BY <1>1, <1>2, <1>4 DEF Fade
<1> QED
  BY <1>3, <1>4

(* The Chart destroyed is one that is alive. *)
LEMMA Destroys ==
    ASSUME TypeInv, removeCurrentChart
    PROVE  /\ canvases' \in SUBSET Canvas
           /\ drawn' \in [Canvas -> ChartViews \cup {NoView}]
           /\ live' \in [Canvas -> Nat]
           /\ current' \in Canvas \cup {NoCanvas}
           /\ destroyed' \in BOOLEAN
           /\ CurrentAlive'
<1>1. live \in [Canvas -> Nat] /\ destroyed \in BOOLEAN
  BY DEF TypeInv, TypeOK
<1>2. ASSUME NEW c \in Canvas
      PROVE  (IF c = current /\ ~destroyed THEN live[c] - 1 ELSE live[c]) \in Nat
  <2>1. c # NoCanvas
    BY DEF Canvas, NoCanvas
  <2> QED
    BY <1>1, <2>1 DEF TypeInv, CurrentAlive
<1>3. live' \in [Canvas -> Nat]
  BY <1>2 DEF removeCurrentChart
<1>4. CurrentAlive'
  BY DEF removeCurrentChart, CurrentAlive
<1> QED
  BY <1>1, <1>3, <1>4 DEF removeCurrentChart, TypeInv, TypeOK

LEMMA Draws ==
    ASSUME TypeInv, NEW v \in ChartViews, NewChart(CanvasOf(v), v)
    PROVE  /\ canvases' \in SUBSET Canvas
           /\ drawn' \in [Canvas -> ChartViews \cup {NoView}]
           /\ live' \in [Canvas -> Nat]
           /\ current' \in Canvas \cup {NoCanvas}
           /\ destroyed' \in BOOLEAN
           /\ CurrentAlive'
<1> DEFINE d == CanvasOf(v)
<1>1. d \in Canvas
  BY DEF CanvasOf, Canvas
<1> HIDE DEF d
<1>2. /\ canvases \in SUBSET Canvas
      /\ drawn \in [Canvas -> ChartViews \cup {NoView}]
      /\ live \in [Canvas -> Nat]
  BY DEF TypeInv, TypeOK
<1>3. NewChart(d, v)
  BY DEF d
<1>4. live' \in [Canvas -> Nat] /\ live'[d] > 0
  BY <1>1, <1>2, <1>3 DEF NewChart
<1>5. CurrentAlive'
  BY <1>3, <1>4 DEF NewChart, CurrentAlive
<1>6. canvases' \in SUBSET Canvas /\ current' \in Canvas /\ destroyed' \in BOOLEAN
  BY <1>1, <1>2, <1>3 DEF NewChart
<1>7. drawn' \in [Canvas -> ChartViews \cup {NoView}]
  BY <1>2, <1>3 DEF NewChart
<1> QED
  BY <1>4, <1>5, <1>6, <1>7

(* What is sent is one request more. *)
LEMMA Sends ==
    ASSUME TypeOK, NEW v \in Views, Send(v)
    PROVE  /\ reqs' \in Seq(Request) /\ Len(reqs') <= MaxRequests
           /\ asked' = v /\ outcome' = outcome
           /\ calm' \in BOOLEAN /\ hasty' \in BOOLEAN
           /\ calm' => AtRest
           /\ ~hasty' => calm' /\ ~hasty
           /\ reqs' # <<>>
           /\ calm' => Len(reqs') = 1 /\ \A i \in DOMAIN reqs' : reqs'[i].view = v
<1> DEFINE r == [view |-> v, answer |-> "none"]
<1>1. r \in Request /\ r.view = v
  BY DEF Request
<1> HIDE DEF r
<1>2. reqs' = Append(reqs, r) /\ Len(reqs) < MaxRequests
  BY DEF Send, r
<1>3. Len(reqs) \in Nat /\ MaxRequests \in Nat
  BY BoundsAssumption DEF TypeOK
<1>4. /\ reqs' \in Seq(Request)
      /\ Len(reqs') = Len(reqs) + 1
      /\ reqs' # <<>>
      /\ reqs = <<>> => \A i \in DOMAIN reqs' : reqs'[i] = r
  BY <1>1, <1>2, Made
<1>5. ASSUME calm'
      PROVE  Len(reqs') = 1 /\ \A i \in DOMAIN reqs' : reqs'[i].view = v
  <2>1. reqs = <<>>
    BY <1>5 DEF Send, AtRest
  <2>2. Len(reqs) = 0
    BY <2>1
  <2> QED
    BY <1>1, <1>4, <2>1, <2>2
<1>6. /\ asked' = v /\ outcome' = outcome
      /\ calm' \in BOOLEAN /\ hasty' \in BOOLEAN
      /\ calm' => AtRest
      /\ ~hasty' => calm' /\ ~hasty
  BY DEF Send, AtRest
<1> QED
  BY <1>2, <1>3, <1>4, <1>5, <1>6

(* An answer ends its request; the user who waits has no other.            *)
LEMMA Ends ==
    ASSUME TypeOK, NEW V, NEW i \in DOMAIN reqs, Answers(i, V)
    PROVE  /\ reqs' \in Seq(Request) /\ Len(reqs') = Len(reqs) - 1
           /\ reqs # <<>>
           /\ reqs[i].view \in V \cap Views
           /\ outcome' = reqs[i].answer /\ outcome' \in Kinds
           /\ UNCHANGED <<tab, charts, asked, calm, hasty>>
           /\ AskedOnce /\ calm => reqs' = <<>> /\ reqs[i].view = asked
<1>1. /\ reqs[i] \in Request
      /\ RemoveAt(reqs, i) \in Seq(Request)
      /\ Len(RemoveAt(reqs, i)) = Len(reqs) - 1
      /\ Len(reqs) <= 1 => RemoveAt(reqs, i) = <<>>
  BY Removed
<1>2. reqs # <<>>
  OBVIOUS
<1>3. reqs[i].view \in Views /\ reqs[i].answer \in Kinds \cup {"none"}
  BY <1>1 DEF Request
<1>4. /\ reqs' = RemoveAt(reqs, i)
      /\ reqs[i].answer # "none"
      /\ reqs[i].view \in V
      /\ outcome' = reqs[i].answer
      /\ UNCHANGED <<tab, charts, asked, calm, hasty>>
  BY DEF Answers
<1> QED
  BY <1>1, <1>2, <1>3, <1>4 DEF AskedOnce

LEMMA ServesType ==
    ASSUME TypeOK, NEW i \in DOMAIN reqs, Serve(i)
    PROVE  /\ reqs' \in Seq(Request) /\ Len(reqs') = Len(reqs)
           /\ \A j \in DOMAIN reqs' : reqs'[j].view = reqs[j].view
           /\ DOMAIN reqs' = DOMAIN reqs
           /\ reqs' = <<>> <=> reqs = <<>>
<1>1. /\ reqs \in Seq(Request) /\ DOMAIN reqs = 1..Len(reqs) /\ Len(reqs) \in Nat
      /\ reqs[i] \in Request /\ reqs[i].view \in Views
  <2>1. reqs \in Seq(Request)
    BY DEF TypeOK
  <2>2. DOMAIN reqs = 1..Len(reqs) /\ Len(reqs) \in Nat /\ reqs[i] \in Request
    BY <2>1
  <2> QED
    BY <2>1, <2>2 DEF Request
<1>2. PICK k \in {Handler(tab, reqs[i].view)} \cup (IF Failures THEN {"error"} ELSE {}) :
        reqs' = [reqs EXCEPT ![i].answer = k]
  BY DEF Serve
<1>3. k \in Kinds
  BY <1>1, <1>2, HandlerAnswers DEF Kinds
<1> DEFINE r == [reqs[i] EXCEPT !.answer = k]
<1>4. r \in Request /\ r.view = reqs[i].view
  BY <1>1, <1>3 DEF Request
<1> HIDE DEF r
<1>5. reqs' = [reqs EXCEPT ![i] = r]
  BY <1>2 DEF r
<1>6. /\ reqs' \in Seq(Request) /\ Len(reqs') = Len(reqs)
      /\ DOMAIN reqs' = DOMAIN reqs
  BY <1>1, <1>4, <1>5, ExceptSeq
<1>7. \A j \in DOMAIN reqs' : reqs'[j].view = reqs[j].view
  BY <1>1, <1>4, <1>5
<1>8. reqs' = <<>> <=> reqs = <<>>
  BY <1>1, <1>6
<1> QED
  BY <1>6, <1>7, <1>8

(* What the menu does to the page, but for what it asks for. *)
LEMMA InitTypes ==
    ASSUME TypeInv, init
    PROVE  /\ charts' = TRUE /\ candidates' = FALSE /\ panel' = {}
           /\ buttons' \in [Lists -> Nat]
           /\ \A l \in Lists : buttons'[l] = 0
           /\ removeCurrentChart
BY DEF init

LEMMA MenuViews ==
    ASSUME NEW v \in Menu
    PROVE  v \in Views
BY MenuAssumption

(* TypeInv is inductive: a Chart is destroyed only while it is alive. *)
LEMMA TypeStep ==
    ASSUME TypeInv, [Next]_vars
    PROVE  TypeInv'
<1> USE DEF TypeInv
<1>1. ASSUME NEW v \in Menu, ClickMenu(v)
      PROVE  TypeInv'
  <2>1. tab' = tab /\ init /\ Fade("in") /\ Send(v)
    BY <1>1 DEF ClickMenu
  <2>2. /\ reqs' \in Seq(Request) /\ Len(reqs') <= MaxRequests
        /\ asked' \in Views /\ outcome' \in Kinds \cup {"none"}
        /\ calm' \in BOOLEAN /\ hasty' \in BOOLEAN
    BY <2>1, Sends, MenuViews DEF TypeOK
  <2>3. fx' \in Seq({"in", "out", "idle"}) /\ spinner' \in BOOLEAN
    BY <2>1, Fades
  <2>4. /\ charts' = TRUE /\ candidates' = FALSE /\ panel' = {}
        /\ buttons' \in [Lists -> Nat]
        /\ removeCurrentChart
    BY <2>1, InitTypes
  <2>5. TabTypeOK'
    BY <2>1 DEF TypeOK, TabTypeOK
  <2> QED
    BY <2>2, <2>3, <2>4, <2>5, Destroys DEF TypeOK
<1>2. ASSUME showCandidatesPanel
      PROVE  TypeInv'
  <2>1. /\ Fade("in") /\ Send(CandidatesPanel) /\ charts' = FALSE
        /\ UNCHANGED <<tab, chartVars, listVars, candidates>>
    BY <1>2 DEF showCandidatesPanel
  <2>2. /\ reqs' \in Seq(Request) /\ Len(reqs') <= MaxRequests
        /\ asked' \in Views /\ outcome' \in Kinds \cup {"none"}
        /\ calm' \in BOOLEAN /\ hasty' \in BOOLEAN
    BY <2>1, Sends, ViewsApart DEF TypeOK
  <2>3. fx' \in Seq({"in", "out", "idle"}) /\ spinner' \in BOOLEAN
    BY <2>1, Fades
  <2> QED
    BY <2>1, <2>2, <2>3 DEF TypeOK, TabTypeOK, CurrentAlive, chartVars, listVars
<1>3. ASSUME NEW l \in Lists, NEW v \in ButtonViews(l), ClickButton(l, v)
      PROVE  TypeInv'
  <2>1. /\ removeCurrentChart /\ Send(v)
        /\ UNCHANGED <<tab, charts, listVars, candidates>>
    BY <1>3 DEF ClickButton
  <2>2. v \in Views
    BY ViewsApart DEF Views
  <2>3. /\ reqs' \in Seq(Request) /\ Len(reqs') <= MaxRequests
        /\ asked' \in Views /\ outcome' \in Kinds \cup {"none"}
        /\ calm' \in BOOLEAN /\ hasty' \in BOOLEAN
    BY <2>1, <2>2, Sends DEF TypeOK
  <2>4. fx' \in Seq({"in", "out", "idle"}) /\ spinner' \in BOOLEAN
    BY <1>3, Fades DEF ClickButton, Display, TypeOK
  <2> QED
    BY <2>1, <2>3, <2>4, Destroys DEF TypeOK, TabTypeOK, listVars
<1>4. ASSUME NEW i \in DOMAIN reqs, Serve(i)
      PROVE  TypeInv'
  <2>1. UNCHANGED <<tab, charts, chartVars, listVars, candidates, spinnerVars, historyVars>>
    BY <1>4 DEF Serve
  <2>2. reqs' \in Seq(Request) /\ Len(reqs') = Len(reqs)
    BY <1>4, ServesType
  <2> QED
    BY <2>1, <2>2
    DEF TypeOK, TabTypeOK, CurrentAlive, chartVars, listVars, spinnerVars, historyVars
<1>5. ASSUME NEW i \in DOMAIN reqs, Answer(i)
      PROVE  TypeInv'
  <2>1. PICK V : Answers(i, V)
    BY <1>5 DEF Answer, ShowChart, ShowList, ShowCandidates, Fails
  <2>2. /\ reqs' \in Seq(Request) /\ Len(reqs') = Len(reqs) - 1
        /\ reqs[i].view \in Views
        /\ outcome' \in Kinds
        /\ UNCHANGED <<tab, charts, asked, calm, hasty>>
    BY <2>1, Ends
  <2>3. /\ TabTypeOK' /\ charts' \in BOOLEAN /\ asked' \in Views
        /\ outcome' \in Kinds \cup {"none"} /\ calm' \in BOOLEAN /\ hasty' \in BOOLEAN
        /\ reqs' \in Seq(Request) /\ Len(reqs') <= MaxRequests
    <3>1. Len(reqs) \in Nat /\ MaxRequests \in Nat
      BY BoundsAssumption DEF TypeOK
    <3> QED
      BY <2>2, <3>1 DEF TypeOK, TabTypeOK
  <2>4. CASE ShowChart(i)
    <3>1. /\ Display(FALSE) /\ UNCHANGED <<listVars, candidates>>
          /\ reqs[i].view \in ChartViews
      BY <2>4 DEF ShowChart, Answers
    <3>2. \/ NewChart(CanvasOf(reqs[i].view), reqs[i].view)
          \/ UNCHANGED chartVars
      BY <2>4 DEF ShowChart
    <3>3. spinner' \in BOOLEAN /\ fx' \in Seq({"in", "out", "idle"})
      BY <3>1 DEF Display, TypeOK
    <3>4. /\ canvases' \in SUBSET Canvas
          /\ drawn' \in [Canvas -> ChartViews \cup {NoView}]
          /\ live' \in [Canvas -> Nat]
          /\ current' \in Canvas \cup {NoCanvas}
          /\ destroyed' \in BOOLEAN
          /\ CurrentAlive'
      <4>1. CASE NewChart(CanvasOf(reqs[i].view), reqs[i].view)
        BY <3>1, <4>1, Draws
      <4>2. CASE UNCHANGED chartVars
        BY <4>2 DEF chartVars, TypeOK, CurrentAlive
      <4> QED
        BY <3>2, <4>1, <4>2
    <3> QED
      BY <2>3, <3>1, <3>3, <3>4 DEF TypeOK, listVars
  <2>5. CASE ShowList(i)
    <3>1. /\ reqs[i].view \in Lists
          /\ buttons' = IF reqs[i].answer = "data"
                        THEN [buttons EXCEPT ![reqs[i].view] = @ + 1] ELSE buttons
          /\ panel' = panel \cup {reqs[i].view}
          /\ Display(FALSE)
          /\ UNCHANGED <<chartVars, candidates>>
      BY <2>5 DEF ShowList, Answers
    <3>2. buttons' \in [Lists -> Nat] /\ panel' \in SUBSET Lists
      BY <3>1 DEF TypeOK
    <3> QED
      BY <2>3, <3>1, <3>2 DEF TypeOK, CurrentAlive, chartVars, Display
  <2>6. CASE ShowCandidates(i)
    <3>1. candidates' = TRUE /\ Fade("out") /\ UNCHANGED <<chartVars, listVars>>
      BY <2>6 DEF ShowCandidates
    <3>2. fx' \in Seq({"in", "out", "idle"}) /\ spinner' \in BOOLEAN
      BY <3>1, Fades
    <3> QED
      BY <2>3, <3>1, <3>2 DEF TypeOK, CurrentAlive, chartVars, listVars
  <2>7. CASE Fails(i)
    <3>1. UNCHANGED <<chartVars, listVars, candidates, spinnerVars>>
      BY <2>7 DEF Fails
    <3> QED
      BY <2>3, <3>1 DEF TypeOK, CurrentAlive, chartVars, listVars, spinnerVars
  <2> QED
    BY <1>5, <2>4, <2>5, <2>6, <2>7 DEF Answer
<1>6. ASSUME FadeDone
      PROVE  TypeInv'
  <2>1. /\ fx # <<>> /\ Begin(Tail(fx), spinner /\ Head(fx) # "out")
        /\ UNCHANGED <<tab, reqs, charts, chartVars, listVars, candidates, historyVars>>
    BY <1>6 DEF FadeDone
  <2>2. Tail(fx) \in Seq({"in", "out", "idle"}) /\ (spinner /\ Head(fx) # "out") \in BOOLEAN
    BY <2>1 DEF TypeOK
  <2>3. fx' \in Seq({"in", "out", "idle"}) /\ spinner' \in BOOLEAN
    BY <2>1, <2>2, Begins
  <2> QED
    BY <2>1, <2>3
    DEF TypeOK, TabTypeOK, CurrentAlive, chartVars, listVars, historyVars
<1>7. ASSUME Write
      PROVE  TypeInv'
  <2>1. PICK e \in Allowed, n \in Count : WriteRow(e, n)
    BY <1>7 DEF Write
  <2>2. UNCHANGED <<reqs, charts, chartVars, listVars, candidates, spinnerVars, historyVars>>
    BY <1>7 DEF Write
  <2>3. TabTypeOK'
    BY <2>1, EntryAssumption DEF WriteRow, TypeOK, TabTypeOK
  <2> QED
    BY <2>2, <2>3
    DEF TypeOK, CurrentAlive, chartVars, listVars, spinnerVars, historyVars
<1>8. CASE UNCHANGED vars
  BY <1>8 DEF vars, TypeOK, TabTypeOK, CurrentAlive, chartVars, listVars, spinnerVars,
              historyVars
<1> QED
  BY <1>1, <1>2, <1>3, <1>4, <1>5, <1>6, <1>7, <1>8 DEF Next

(* The page as it is loaded. *)
LEMMA InitInv ==
    ASSUME Init
    PROVE  PageInv
<1>1. TypeOK
  <2>1. TabTypeOK
    BY DEF Init, TabInit, TabTypeOK
  <2>2. reqs \in Seq(Request) /\ Len(reqs) = 1
    BY ViewsApart DEF Init, Request
  <2>3. MaxRequests \in Nat \ {0}
    BY BoundsAssumption
  <2>4. /\ live \in [Canvas -> Nat] /\ buttons \in [Lists -> Nat]
        /\ drawn \in [Canvas -> ChartViews \cup {NoView}]
        /\ fx \in Seq({"in", "out", "idle"})
    BY DEF Init
  <2>5. /\ asked \in Views /\ outcome \in Kinds \cup {"none"}
        /\ Len(reqs) <= MaxRequests
        /\ canvases \in SUBSET Canvas /\ panel \in SUBSET Lists
        /\ current \in Canvas \cup {NoCanvas}
    BY <2>2, <2>3, ViewsApart DEF Init
  <2> QED
    BY <2>1, <2>2, <2>4, <2>5 DEF Init, TypeOK
<1>2. CurrentAlive /\ AskedIsShown
  BY DEF Init, CurrentAlive, AskedIsShown
<1>3. AskedOnce
  <2>1. /\ charts = FALSE /\ asked = CandidatesPanel /\ calm = TRUE
        /\ reqs = <<[view |-> CandidatesPanel, answer |-> "none"]>>
    BY DEF Init
  <2>2. Len(reqs) = 1 /\ \A i \in DOMAIN reqs : reqs[i].view = asked
    BY <2>1
  <2> QED
    BY <2>1, <2>2 DEF AskedOnce
<1>4. OneChart
  BY DEF Init, OneChart, Canvas, NoCanvas
<1>5. OneList
  BY DEF Init, OneList
<1>6. SpinnerEnds
  BY DEF Init, SpinnerEnds
<1> QED
  BY <1>1, <1>2, <1>3, <1>4, <1>5, <1>6 DEF PageInv

(***************************************************************************)
(* The user who waits.                                                     *)
(***************************************************************************)

(* Each step leaves one request at most, for what was asked for last. *)
LEMMA AskedOnceStep ==
    ASSUME TypeOK, AskedOnce, [Next]_vars
    PROVE  AskedOnce'
<1>1. ASSUME NEW v \in Menu, ClickMenu(v)
      PROVE  AskedOnce'
  <2>1. init /\ Send(v) /\ v # CandidatesPanel
    BY <1>1 DEF ClickMenu
  <2>2. charts' = TRUE
    BY <2>1 DEF init
  <2> QED
    BY <2>1, <2>2, Sends, MenuViews DEF AskedOnce
<1>2. ASSUME showCandidatesPanel
      PROVE  AskedOnce'
  <2>1. Send(CandidatesPanel) /\ charts' = FALSE
    BY <1>2 DEF showCandidatesPanel
  <2> QED
    BY <2>1, Sends, ViewsApart DEF AskedOnce
<1>3. ASSUME NEW l \in Lists, NEW v \in ButtonViews(l), ClickButton(l, v)
      PROVE  AskedOnce'
  <2>1. Send(v) /\ charts /\ charts' = charts
    BY <1>3 DEF ClickButton
  <2>2. v \in Views /\ v # CandidatesPanel
    BY ViewsApart DEF Views
  <2> QED
    BY <2>1, <2>2, Sends DEF AskedOnce
<1>4. ASSUME NEW i \in DOMAIN reqs, Serve(i)
      PROVE  AskedOnce'
  <2>1. UNCHANGED <<charts, asked, calm, hasty>>
    BY <1>4 DEF Serve, historyVars
  <2> QED
    BY <1>4, <2>1, ServesType DEF AskedOnce
<1>5. ASSUME NEW i \in DOMAIN reqs, Answer(i)
      PROVE  AskedOnce'
  <2>1. PICK V : Answers(i, V)
    BY <1>5 DEF Answer, ShowChart, ShowList, ShowCandidates, Fails
  <2>2. /\ UNCHANGED <<charts, asked, calm, hasty>>
        /\ calm => reqs' = <<>>
    BY <2>1, Ends
  <2>3. calm' => Len(reqs') = 0 /\ DOMAIN reqs' = {}
    BY <2>2
  <2> QED
    BY <2>2, <2>3 DEF AskedOnce
<1>6. CASE FadeDone \/ Write \/ UNCHANGED vars
  BY <1>6 DEF FadeDone, Write, vars, historyVars, AskedOnce
<1> QED
  BY <1>1, <1>2, <1>3, <1>4, <1>5, <1>6 DEF Next

(* The first click at rest leaves no chart that is alive behind the next.  *)
LEMMA Removes ==
    ASSUME TypeOK, OneChart, removeCurrentChart
    PROVE  /\ canvases' = {}
           /\ destroyed' \/ current' = NoCanvas
           /\ \A c \in Canvas : live'[c] = 0
<1>1. live \in [Canvas -> Nat] /\ current' = current /\ destroyed \in BOOLEAN
  BY DEF removeCurrentChart, TypeOK
<1>2. canvases' = {}
  BY DEF removeCurrentChart, OneChart
<1>3. destroyed' \/ current' = NoCanvas
  BY <1>1 DEF removeCurrentChart
<1>4. ASSUME NEW c \in Canvas
      PROVE  live'[c] = 0
  <2>1. live'[c] = IF c = current /\ ~destroyed THEN live[c] - 1 ELSE live[c]
    BY <1>1 DEF removeCurrentChart
  <2>2. live[c] = IF c = current /\ ~destroyed THEN 1 ELSE 0
    BY DEF OneChart
  <2> QED
    BY <2>1, <2>2
<1> QED
  BY <1>2, <1>3, <1>4

(* OneChart is kept as long as no click is hasty. *)
LEMMA OneChartStep ==
    ASSUME TypeOK, AskedOnce, ~hasty => OneChart, [Next]_vars, ~hasty'
    PROVE  OneChart'
<1>1. ASSUME NEW v \in Menu, ClickMenu(v)
      PROVE  OneChart'
  <2>1. init /\ Send(v)
    BY <1>1 DEF ClickMenu
  <2>2. ~hasty
    BY <2>1, Sends, MenuViews
  <2>3. removeCurrentChart /\ candidates' = FALSE
    BY <2>1 DEF init
  <2>4. /\ canvases' = {}
        /\ destroyed' \/ current' = NoCanvas
        /\ \A c \in Canvas : live'[c] = 0
    BY <2>2, <2>3, Removes
  <2> QED
    BY <2>3, <2>4 DEF OneChart, NoCanvas, Canvas
<1>2. ASSUME showCandidatesPanel
      PROVE  OneChart'
  <2>1. Send(CandidatesPanel) /\ charts' = FALSE /\ UNCHANGED <<chartVars, candidates>>
    BY <1>2 DEF showCandidatesPanel
  <2>2. ~hasty
    BY <2>1, Sends, ViewsApart
  <2> QED
    BY <2>1, <2>2 DEF OneChart, chartVars
<1>3. ASSUME NEW l \in Lists, NEW v \in ButtonViews(l), ClickButton(l, v)
      PROVE  OneChart'
  <2>1. /\ Send(v) /\ removeCurrentChart /\ charts
        /\ charts' = charts /\ candidates' = candidates
    BY <1>3 DEF ClickButton
  <2>2. ~hasty
    <3>1. v \in Views
      BY ViewsApart DEF Views
    <3> QED
      BY <2>1, <3>1, Sends
  <2>3. /\ canvases' = {}
        /\ destroyed' \/ current' = NoCanvas
        /\ \A c \in Canvas : live'[c] = 0
    BY <2>1, <2>2, Removes
  <2> QED
    BY <2>1, <2>2, <2>3 DEF OneChart, NoCanvas, Canvas
<1>4. ASSUME NEW i \in DOMAIN reqs, Serve(i)
      PROVE  OneChart'
  <2>1. UNCHANGED <<charts, chartVars, candidates, historyVars>>
    BY <1>4 DEF Serve
  <2>2. reqs' # <<>> => reqs # <<>>
    BY <1>4, ServesType
  <2> QED
    BY <2>1, <2>2 DEF OneChart, chartVars, historyVars
<1>5. ASSUME NEW i \in DOMAIN reqs, Answer(i)
      PROVE  OneChart'
  <2>1. PICK V : Answers(i, V)
    BY <1>5 DEF Answer, ShowChart, ShowList, ShowCandidates, Fails
  <2>2. /\ UNCHANGED <<charts, asked, calm, hasty>>
        /\ reqs # <<>>
        /\ AskedOnce /\ calm => reqs' = <<>> /\ reqs[i].view = asked
    BY <2>1, Ends
  <2>3. /\ ~hasty /\ calm /\ OneChart
        /\ reqs' = <<>> /\ reqs[i].view = asked
        /\ charts <=> asked # CandidatesPanel
    BY <2>2 DEF AskedOnce
  <2>4. CASE ShowChart(i)
    <3>1. /\ asked \in ChartViews /\ candidates' = candidates
          /\ NewChart(CanvasOf(asked), asked) \/ UNCHANGED chartVars
      BY <2>3, <2>4 DEF ShowChart, Answers
    <3>2. charts
      BY <2>3, <3>1, ViewsApart
    <3>3. canvases = {} /\ (destroyed \/ current = NoCanvas)
      BY <2>2, <2>3, <3>2 DEF OneChart
    <3>4. CASE NewChart(CanvasOf(asked), asked)
      <4> DEFINE d == CanvasOf(asked)
      <4>1. d \in Canvas
        BY DEF CanvasOf, Canvas
      <4> HIDE DEF d
      <4>2. /\ canvases' = canvases \cup {d}
            /\ drawn' = [drawn EXCEPT ![d] = asked]
            /\ live' = [live EXCEPT ![d] = @ + 1]
            /\ current' = d
            /\ destroyed' = FALSE
        BY <3>4 DEF NewChart, d
      <4>3. live \in [Canvas -> Nat] /\ drawn \in [Canvas -> ChartViews \cup {NoView}]
        BY DEF TypeOK
      <4>4. \A c \in Canvas : live[c] = 0
        BY <2>3, <3>3 DEF OneChart, Canvas, NoCanvas
      <4>5. \A c \in Canvas : live'[c] = IF c = d THEN 1 ELSE 0
        BY <4>1, <4>2, <4>3, <4>4
      <4>6. canvases' = {d} /\ drawn'[d] = asked
        BY <3>3, <4>1, <4>2, <4>3
      <4>7. candidates' => ~charts'
        BY <2>2, <2>3, <3>1 DEF OneChart
      <4> QED
        BY <2>2, <2>3, <4>2, <4>5, <4>6, <4>7 DEF OneChart
    <3>5. CASE UNCHANGED chartVars
      BY <2>2, <2>3, <3>1, <3>5 DEF OneChart, chartVars
    <3> QED
      BY <3>1, <3>4, <3>5
  <2>5. CASE ShowCandidates(i)
    <3>1. asked = CandidatesPanel /\ UNCHANGED chartVars
      BY <2>3, <2>5 DEF ShowCandidates, Answers
    <3> QED
      BY <2>2, <2>3, <3>1 DEF OneChart, chartVars
  <2>6. CASE ShowList(i) \/ Fails(i)
    <3>1. UNCHANGED <<chartVars, candidates>>
      BY <2>6 DEF ShowList, Fails
    <3> QED
      BY <2>2, <2>3, <3>1 DEF OneChart, chartVars
  <2> QED
    BY <1>5, <2>4, <2>5, <2>6 DEF Answer
<1>6. CASE FadeDone \/ Write \/ UNCHANGED vars
  <2>1. UNCHANGED <<reqs, charts, chartVars, candidates, historyVars>>
    BY <1>6 DEF FadeDone, Write, vars
  <2> QED
    BY <2>1 DEF OneChart, chartVars, historyVars
<1> QED
  BY <1>1, <1>2, <1>3, <1>4, <1>5, <1>6 DEF Next

(* What has been answered stays displayed, nothing else being under way. *)
LEMMA AskedIsShownStep ==
    ASSUME TypeOK, AskedOnce, AskedIsShown, [Next]_vars
    PROVE  AskedIsShown'
<1>1. ASSUME NEW v \in Views, Send(v)
      PROVE  AskedIsShown'
  BY <1>1, Sends DEF AskedIsShown
<1>2. ASSUME NEW v \in Menu, ClickMenu(v)
      PROVE  AskedIsShown'
  BY <1>1, <1>2, MenuViews DEF ClickMenu
<1>3. ASSUME showCandidatesPanel
      PROVE  AskedIsShown'
  BY <1>1, <1>3, ViewsApart DEF showCandidatesPanel
<1>4. ASSUME NEW l \in Lists, NEW v \in ButtonViews(l), ClickButton(l, v)
      PROVE  AskedIsShown'
  <2>1. v \in Views
    BY ViewsApart DEF Views
  <2> QED
    BY <1>1, <1>4, <2>1 DEF ClickButton
<1>5. ASSUME NEW i \in DOMAIN reqs, Serve(i)
      PROVE  AskedIsShown'
  BY <1>5, ServesType DEF AskedIsShown, Serve, chartVars, historyVars
<1>6. ASSUME NEW i \in DOMAIN reqs, Answer(i)
      PROVE  AskedIsShown'
  <2>1. PICK V : Answers(i, V)
    BY <1>6 DEF Answer, ShowChart, ShowList, ShowCandidates, Fails
  <2>2. SUFFICES ASSUME calm', asked' \in ChartViews, outcome' = "data"
                 PROVE  \E c \in canvases' : drawn'[c] = asked'
    BY DEF AskedIsShown
  <2>3. /\ asked \in ChartViews /\ asked' = asked
        /\ reqs[i].view = asked /\ reqs[i].answer = "data"
    BY <2>1, <2>2, Ends
  <2>4. asked \notin Lists /\ asked # CandidatesPanel
    BY <2>3, ViewsApart
  <2>5. ~ShowList(i) /\ ~ShowCandidates(i) /\ ~Fails(i)
    BY <2>3, <2>4 DEF ShowList, ShowCandidates, Fails, Answers
  <2>6. NewChart(CanvasOf(asked), asked)
    BY <1>6, <2>3, <2>5 DEF Answer, ShowChart
  <2>7. CanvasOf(asked) \in Canvas
    BY DEF CanvasOf, Canvas
  <2>8. CanvasOf(asked) \in canvases' /\ drawn'[CanvasOf(asked)] = asked
    BY <2>6, <2>7 DEF NewChart, TypeOK
  <2> QED
    BY <2>3, <2>8
<1>7. CASE FadeDone \/ Write \/ UNCHANGED vars
  <2>1. UNCHANGED <<reqs, chartVars, historyVars>>
    BY <1>7 DEF FadeDone, Write, vars
  <2> QED
    BY <2>1 DEF AskedIsShown, chartVars, historyVars
<1> QED
  BY <1>2, <1>3, <1>4, <1>5, <1>6, <1>7 DEF Next

(* OneList is kept as long as no click is hasty: the menu takes the lists  *)
(* away, and a button is one of the only list displayed.                   *)
LEMMA OneListStep ==
    ASSUME TypeOK, AskedOnce, ~hasty => OneList, [Next]_vars, ~hasty'
    PROVE  OneList'
<1>1. ASSUME NEW v \in Menu, ClickMenu(v)
      PROVE  OneList'
  <2>1. panel' = {} /\ \A l \in Lists : buttons'[l] = 0
    BY <1>1 DEF ClickMenu, init
  <2> QED
    BY <2>1 DEF OneList
<1>2. ASSUME showCandidatesPanel
      PROVE  OneList'
  <2>1. Send(CandidatesPanel) /\ charts' = FALSE /\ UNCHANGED listVars
    BY <1>2 DEF showCandidatesPanel
  <2>2. ~hasty /\ asked' = CandidatesPanel
    BY <2>1, Sends, ViewsApart
  <2>3. asked' \notin Lists
    BY <2>2, ViewsApart
  <2> QED
    BY <2>1, <2>2, <2>3 DEF OneList, listVars
<1>3. ASSUME NEW l \in Lists, NEW v \in ButtonViews(l), ClickButton(l, v)
      PROVE  OneList'
  <2>1. Send(v) /\ charts /\ l \in panel /\ UNCHANGED <<charts, listVars>>
    BY <1>3 DEF ClickButton
  <2>2. v \in Views /\ v \notin Lists
    BY ViewsApart DEF Views
  <2>3. ~hasty /\ asked' = v
    BY <2>1, <2>2, Sends
  <2>4. \A k \in panel : asked = k \/ asked \in ButtonViews(k)
    BY <2>1, <2>3 DEF OneList
  <2>5. panel \subseteq Lists
    BY DEF TypeOK
  <2>6. \A k \in Lists : (asked = k \/ asked \in ButtonViews(k)) => k = l
    <3>1. asked = l \/ asked \in ButtonViews(l)
      BY <2>1, <2>4
    <3> QED
      BY <3>1, ViewsApart DEF Lists
  <2>7. \A k \in panel : k = l
    BY <2>4, <2>5, <2>6
  <2> QED
    BY <2>1, <2>2, <2>3, <2>7 DEF OneList, listVars
<1>4. ASSUME NEW i \in DOMAIN reqs, Serve(i)
      PROVE  OneList'
  <2>1. UNCHANGED <<charts, listVars, historyVars>>
    BY <1>4 DEF Serve
  <2>2. reqs' # <<>> => reqs # <<>>
    BY <1>4, ServesType
  <2> QED
    BY <2>1, <2>2 DEF OneList, listVars, historyVars
<1>5. ASSUME NEW i \in DOMAIN reqs, Answer(i)
      PROVE  OneList'
  <2>1. PICK V : Answers(i, V)
    BY <1>5 DEF Answer, ShowChart, ShowList, ShowCandidates, Fails
  <2>2. /\ UNCHANGED <<charts, asked, calm, hasty>>
        /\ reqs # <<>>
        /\ AskedOnce /\ calm => reqs' = <<>> /\ reqs[i].view = asked
    BY <2>1, Ends
  <2>3. /\ ~hasty /\ OneList
        /\ reqs' = <<>> /\ reqs[i].view = asked
    BY <2>2 DEF AskedOnce
  <2>4. CASE ShowList(i)
    <3>1. /\ asked \in Lists
          /\ buttons' \in {buttons, [buttons EXCEPT ![asked] = @ + 1]}
          /\ panel' = panel \cup {asked}
      BY <2>3, <2>4 DEF ShowList, Answers
    <3>2. buttons \in [Lists -> Nat]
      BY DEF TypeOK
    <3>3. \A k \in Lists : buttons[k] = 0
      BY <2>2, <2>3, <3>1 DEF OneList
    <3>4. \A k \in Lists : buttons'[k] <= 1
      BY <3>1, <3>2, <3>3
    <3> QED
      BY <2>2, <2>3, <3>1, <3>4 DEF OneList
  <2>5. CASE ShowChart(i) \/ ShowCandidates(i) \/ Fails(i)
    <3>1. UNCHANGED listVars
      BY <2>5 DEF ShowChart, ShowCandidates, Fails
    <3> QED
      BY <2>2, <2>3, <3>1 DEF OneList, listVars
  <2> QED
    BY <1>5, <2>4, <2>5 DEF Answer
<1>6. CASE FadeDone \/ Write \/ UNCHANGED vars
  <2>1. UNCHANGED <<reqs, charts, listVars, historyVars>>
    BY <1>6 DEF FadeDone, Write, vars
  <2> QED
    BY <2>1 DEF OneList, listVars, historyVars
<1> QED
  BY <1>1, <1>2, <1>3, <1>4, <1>5, <1>6 DEF Next

(* A click at rest starts the queue anew, with a fadeIn or nothing.        *)
LEMMA SpinnerStarts ==
    ASSUME NEW v \in Views, Send(v), Fade("in") \/ Display(TRUE), calm'
    PROVE  SpinnerEnds'
<1>1. AtRest /\ reqs' # <<>>
  BY DEF Send
<1>2. fx' \in {<<>>, <<"in">>}
  BY <1>1 DEF AtRest, Fade, Begin, Display
<1> QED
  BY <1>1, <1>2 DEF SpinnerEnds

(* A fadeOut of a hidden spinner does nothing. *)
LEMMA SpinnerBegins ==
    ASSUME TypeOK, Begin(<<"out">>, spinner)
    PROVE  /\ spinner' = spinner
           /\ fx' = IF ~spinner THEN <<"idle">> ELSE <<"out">>
<1>1. Head(<<"out">>) = "out" /\ Tail(<<"out">>) = <<>> /\ <<"out">> # <<>>
  OBVIOUS
<1>2. <<"idle">> \o <<>> = <<"idle">>
  OBVIOUS
<1>3. spinner \in BOOLEAN
  BY DEF TypeOK
<1> QED
  BY <1>1, <1>2, <1>3 DEF Begin

(* After a click at rest the answer puts the spinner off, now or after the *)
(* fadeIn, unless it is a failure.                                         *)
LEMMA SpinnerStep ==
    ASSUME TypeOK, AskedOnce, calm => SpinnerEnds, [Next]_vars, calm'
    PROVE  SpinnerEnds'
<1>1. ASSUME NEW v \in Menu, ClickMenu(v)
      PROVE  SpinnerEnds'
  BY <1>1, SpinnerStarts, MenuViews DEF ClickMenu
<1>2. ASSUME showCandidatesPanel
      PROVE  SpinnerEnds'
  BY <1>2, SpinnerStarts, ViewsApart DEF showCandidatesPanel
<1>3. ASSUME NEW l \in Lists, NEW v \in ButtonViews(l), ClickButton(l, v)
      PROVE  SpinnerEnds'
  <2>1. v \in Views
    BY ViewsApart DEF Views
  <2> QED
    BY <1>3, <2>1, SpinnerStarts DEF ClickButton
<1>4. ASSUME NEW i \in DOMAIN reqs, Serve(i)
      PROVE  SpinnerEnds'
  <2>1. UNCHANGED <<spinnerVars, historyVars>>
    BY <1>4 DEF Serve
  <2>2. reqs' = <<>> <=> reqs = <<>>
    BY <1>4, ServesType
  <2> QED
    BY <2>1, <2>2 DEF SpinnerEnds, Failed, spinnerVars, historyVars
<1>5. ASSUME NEW i \in DOMAIN reqs, Answer(i)
      PROVE  SpinnerEnds'
  <2>1. PICK V : Answers(i, V)
    BY <1>5 DEF Answer, ShowChart, ShowList, ShowCandidates, Fails
  <2>2. /\ UNCHANGED <<asked, calm>>
        /\ reqs # <<>>
        /\ outcome' = reqs[i].answer
        /\ AskedOnce /\ calm => reqs' = <<>> /\ reqs[i].view = asked
    BY <2>1, Ends
  <2>3. /\ fx \in {<<>>, <<"in">>}
        /\ reqs' = <<>> /\ reqs[i].view = asked
    BY <2>2 DEF SpinnerEnds
  <2>4. CASE ShowChart(i) \/ ShowList(i)
    <3>1. spinner' = FALSE /\ fx' = fx
      BY <2>4 DEF ShowChart, ShowList, Display
    <3> QED
      BY <2>3, <3>1 DEF SpinnerEnds
  <2>5. CASE ShowCandidates(i)
    <3>1. Fade("out")
      BY <2>5 DEF ShowCandidates
    <3>2. CASE fx = <<>>
      <4>1. Begin(<<"out">>, spinner)
        BY <3>1, <3>2 DEF Fade
      <4>2. /\ spinner' = spinner
            /\ fx' = IF ~spinner THEN <<"idle">> ELSE <<"out">>
        BY <4>1, SpinnerBegins
      <4> QED
        BY <2>3, <4>2 DEF SpinnerEnds
    <3>3. CASE fx = <<"in">>
      <4>1. fx' = <<"in", "out">>
        BY <3>1, <3>3 DEF Fade
      <4> QED
        BY <2>3, <4>1 DEF SpinnerEnds
    <3> QED
      BY <2>3, <3>2, <3>3
  <2>6. CASE Fails(i)
    <3>1. Failed'
      BY <2>2, <2>3, <2>6 DEF Fails, Failed
    <3> QED
      BY <2>3, <3>1 DEF SpinnerEnds
  <2> QED
    BY <1>5, <2>4, <2>5, <2>6 DEF Answer
<1>6. ASSUME FadeDone
      PROVE  SpinnerEnds'
  <2>1. /\ fx # <<>> /\ Begin(Tail(fx), spinner /\ Head(fx) # "out")
        /\ UNCHANGED <<reqs, historyVars>>
    BY <1>6 DEF FadeDone
  <2>2. calm /\ SpinnerEnds /\ (Failed' <=> Failed)
    BY <2>1 DEF historyVars, Failed
  <2>3. CASE reqs # <<>>
    <3>1. fx = <<"in">>
      BY <2>1, <2>2, <2>3 DEF SpinnerEnds
    <3>2. fx' = <<>>
      BY <2>1, <3>1 DEF Begin
    <3> QED
      BY <2>1, <2>3, <3>2 DEF SpinnerEnds
  <2>4. CASE reqs = <<>> /\ ~Failed
    <3>1. CASE ~spinner /\ fx \in {<<"in">>, <<"idle">>}
      <4>1. Tail(fx) = <<>>
        <5>1. CASE fx = <<"in">>
          BY <5>1
        <5>2. CASE fx = <<"idle">>
          BY <5>2
        <5> QED
          BY <3>1, <5>1, <5>2
      <4>2. spinner' = FALSE /\ fx' = <<>>
        BY <2>1, <3>1, <4>1 DEF Begin
      <4> QED
        BY <4>2, <2>1, <2>4 DEF SpinnerEnds
    <3>2. CASE fx = <<"out">>
      <4>1. Tail(fx) = <<>> /\ (spinner /\ Head(fx) # "out") = FALSE
        BY <3>2
      <4>2. spinner' = FALSE /\ fx' = <<>>
        BY <2>1, <4>1 DEF Begin
      <4> QED
        BY <4>2, <2>1, <2>4 DEF SpinnerEnds
    <3>3. CASE fx = <<"in", "out">>
      <4>1. Tail(fx) = <<"out">> /\ Head(fx) = "in"
        BY <3>3
      <4>2. Begin(<<"out">>, spinner)
        BY <2>1, <4>1 DEF TypeOK
      <4>3. /\ spinner' = spinner
            /\ fx' = IF ~spinner THEN <<"idle">> ELSE <<"out">>
        BY <4>2, SpinnerBegins
      <4> QED
        BY <4>3, <2>1, <2>4 DEF SpinnerEnds
    <3> QED
      BY <2>1, <2>2, <2>4, <3>1, <3>2, <3>3 DEF SpinnerEnds
  <2> QED
    BY <2>1, <2>2, <2>3, <2>4 DEF SpinnerEnds
<1>7. CASE Write \/ UNCHANGED vars
  <2>1. UNCHANGED <<reqs, spinnerVars, historyVars>>
    BY <1>7 DEF Write, vars
  <2> QED
    BY <2>1 DEF SpinnerEnds, Failed, spinnerVars, historyVars
<1> QED
  BY <1>1, <1>2, <1>3, <1>4, <1>5, <1>6, <1>7 DEF Next

(***************************************************************************)
(* Theorems.                                                               *)
(***************************************************************************)
THEOREM PageInvariant == Spec => []PageInv
<1>1. Init => PageInv
  BY InitInv
<1>2. ASSUME PageInv, [Next]_vars
      PROVE  PageInv'
  <2>1. TypeOK' /\ CurrentAlive'
    BY <1>2, TypeStep DEF PageInv, TypeInv
  <2>2. AskedOnce'
    BY <1>2, AskedOnceStep DEF PageInv
  <2>3. AskedIsShown'
    BY <1>2, AskedIsShownStep DEF PageInv
  <2>4. ~hasty' => OneChart' /\ OneList'
    BY <1>2, OneChartStep, OneListStep DEF PageInv
  <2>5. calm' => SpinnerEnds'
    BY <1>2, SpinnerStep DEF PageInv
  <2> QED
    BY <2>1, <2>2, <2>3, <2>4, <2>5 DEF PageInv
<1> QED
  BY <1>1, <1>2, PTL DEF Spec

(* TypeCorrect: the variables keep to their types; no click makes a Chart  *)
(* be destroyed that is not there.                                         *)
THEOREM TypeCorrect == Spec => []TypeOK
<1>1. PageInv => TypeOK
  BY DEF PageInv
<1> QED
  BY <1>1, PageInvariant, PTL

(* PatientSees: a user who waits sees the chart asked for and no other;    *)
(* who did not once sees it too.                                           *)
THEOREM PatientSees == Spec => []ShownIsAsked
<1>1. ASSUME PageInv
      PROVE  ShownIsAsked
  <2>1. SUFFICES ASSUME reqs = <<>>
                 PROVE  /\ ~hasty =>
                              /\ Displayed \subseteq {asked}
                              /\ live["pieChart"] + live["mixedColumnChart"] <= 1
                              /\ candidates => ~charts
                        /\ calm /\ asked \in ChartViews /\ outcome = "data"
                              => asked \in Displayed
    BY DEF ShownIsAsked
  <2>2. ASSUME ~hasty
        PROVE  /\ Displayed \subseteq {asked}
               /\ live["pieChart"] + live["mixedColumnChart"] <= 1
               /\ candidates => ~charts
    <3>1. OneChart
      BY <1>1, <2>2 DEF PageInv
    <3>2. live["pieChart"] + live["mixedColumnChart"] <= 1
      BY <3>1 DEF OneChart, Canvas
    <3> QED
      BY <3>1, <3>2 DEF OneChart, Displayed
  <2>3. ASSUME calm, asked \in ChartViews, outcome = "data"
        PROVE  asked \in Displayed
    <3>1. charts
      BY <1>1, <2>3, ViewsApart DEF PageInv, AskedOnce
    <3>2. \E c \in canvases : drawn[c] = asked
      BY <1>1, <2>1, <2>3 DEF PageInv, AskedIsShown
    <3> QED
      BY <3>1, <3>2 DEF Displayed
  <2> QED
    BY <2>2, <2>3
<1> QED
  BY <1>1, PageInvariant, PTL

(* ListsOnce: such a user has each list of buttons once, and the panel is  *)
(* the one of the list or the button clicked last.                         *)
THEOREM ListsOnce == Spec => []ListOnce
<1>1. PageInv => ListOnce
  BY DEF PageInv, OneList, ListOnce
<1> QED
  BY <1>1, PageInvariant, PTL

(* SpinnerOff: after a click made with the page at rest only a failure     *)
(* leaves the spinner on.                                                  *)
THEOREM SpinnerOff == Spec => []SpinnerOnlyAfterFailure
<1>1. ASSUME PageInv
      PROVE  SpinnerOnlyAfterFailure
  <2>1. SUFFICES ASSUME calm, reqs = <<>>, fx = <<>>, spinner
                 PROVE  Failed
    BY DEF SpinnerOnlyAfterFailure, AtRest, Failed
  <2>2. SpinnerEnds
    BY <1>1, <2>1 DEF PageInv
  <2> QED
    BY <2>1, <2>2 DEF SpinnerEnds
<1> QED
  BY <1>1, PageInvariant, PTL

==============================================================================
