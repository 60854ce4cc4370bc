-------------------------------- MODULE Screens --------------------------------
(***************************************************************************)
(* Two screens of the web client whose answers come later than the clicks  *)
(* that asked for them: the supervisors' panel, which loads the stations   *)
(* of a chosen department (supervision-panel.tsx), and the scanner of the  *)
(* station's page with its camera (qr-scan-button.tsx, escanear/page.tsx)  *)
(* and the history it keeps in the browser (station-scan-history.ts).      *)
(* A click and the effects it runs are one step, as React runs them.       *)
(***************************************************************************)
EXTENDS Integers, Sequences, FiniteSets, Sorting

CONSTANTS Cities,    \* the departments offered, "all" beside them
          MaxLoads,  \* bound: loads of the panel
          Signs,     \* codes a camera may read
          StickerOf, \* the cistern's own code each of them leads to, NoSign for a baton's
          NoSign,    \* a frame without a code
          MaxKept,   \* codes the history keeps: 40 in the code
          MaxVisits, MaxRuns, MaxTold \* bounds: visits, effects, codes remembered

ASSUME ScreensAssumption ==
    /\ "all" \notin Cities /\ NoSign \notin Signs /\ StickerOf \in [Signs -> Signs \cup {NoSign}]
    /\ MaxKept \in Nat \ {0} /\ {MaxLoads, MaxVisits, MaxRuns, MaxTold} \subseteq Nat

VARIABLES deptFilter, data, error, \* the panel's filter, the answer shown, a failure shown
          loads,  \* its effects, in the order they ran
          visit,  \* mounted scanners, the last the present one: state and refs
          here,   \* whether the last one is still on the screen
          runs,   \* effects of the scanners
          live,   \* those whose camera is on
          kept,   \* the history in localStorage, the newest first
          remembered \* codes remembered since it was cleared

panelVars == <<deptFilter, data, error, loads>>
scanVars == <<visit, here, runs, live, kept, remembered>>
nvars == <<panelVars, scanVars>>

Fresh == [open |-> FALSE, handled |-> FALSE, stream |-> 0, taken |-> 0]

ScreensInit ==
    /\ deptFilter = "all" /\ data = NoSign /\ error = FALSE
    /\ loads = <<[city |-> "all", cancelled |-> FALSE, over |-> FALSE]>>
    /\ visit = <<Fresh>> /\ here = TRUE /\ runs = << >> /\ live = {} /\ kept = << >>
    /\ remembered = << >>

-------------------------------------------------------------------------------
(* The panel. *)

\* A department is chosen: the effect of the former one is cancelled, another runs.
\* The buttons are there with the first answer and without a failure.
setDeptFilter(c) ==
    /\ data # NoSign /\ ~error /\ c # deptFilter
    /\ Len(loads) < MaxLoads
    /\ deptFilter' = c
    /\ loads' = Append([i \in DOMAIN loads |-> [loads[i] EXCEPT !.cancelled = TRUE]],
                       [city |-> c, cancelled |-> FALSE, over |-> FALSE])
    /\ UNCHANGED <<data, error>>

\* Slip: whatever is answered last is shown.
Heeded(i) == TRUE

\* Only the effect that was not cancelled touches the screen.
Wanted(i) == ~loads[i].cancelled

\* A load is answered or fails; a failure stays on the screen for good.
Loaded(i, ok) ==
    /\ ~loads[i].over
    /\ loads' = [loads EXCEPT ![i].over = TRUE]
    /\ data' = IF Wanted(i) /\ ok THEN loads[i].city ELSE data
    /\ error' = (error \/ (Wanted(i) /\ ~ok))
    /\ UNCHANGED deptFilter

PanelNext ==
    /\ \/ \E c \in Cities \cup {"all"} : setDeptFilter(c)
       \/ \E i \in DOMAIN loads, ok \in BOOLEAN : Loaded(i, ok)
    /\ UNCHANGED scanVars

-------------------------------------------------------------------------------
(* The scanner. *)

now == Len(visit)

\* The history without a code.
Without(s) == KeptAt(kept, {i \in DOMAIN kept : kept[i] # s})

\* A code is remembered: to the front, once, and no more than the history holds.
rememberStationScan(s) ==
    /\ Len(remembered) < MaxTold
    /\ kept' = FirstOf(MaxKept, <<s>> \o Without(s))
    /\ remembered' = Append(remembered, s)

\* What the clean-up of the present scanner's effect leaves.
Cancelled == [i \in DOMAIN runs |->
                IF runs[i].visit = now THEN [runs[i] EXCEPT !.cancelled = TRUE] ELSE runs[i]]
stopCamera(v) == live \ {visit[v].stream}

Running == [visit |-> now, step |-> "asking", cancelled |-> FALSE]

\* The camera is asked for: the effect runs, after the clean-up of an earlier one.
start ==
    /\ Len(runs) < MaxRuns
    /\ visit' = [visit EXCEPT ![now] = [@ EXCEPT !.open = TRUE, !.handled = FALSE, !.stream = 0]]
    /\ runs' = Append(Cancelled, Running)
    /\ live' = stopCamera(now)

close ==
    /\ visit' = [visit EXCEPT ![now] = [@ EXCEPT !.open = FALSE, !.stream = 0]]
    /\ runs' = Cancelled
    /\ live' = stopCamera(now)

\* The button.
toggle ==
    /\ here
    /\ IF visit[now].open THEN close ELSE start
    /\ UNCHANGED <<here, kept, remembered>>

\* The page renders again (the window has the focus, the trips are loaded) and
\* gives the scanner a new callback: its effect runs anew.
Rerender ==
    /\ here /\ visit[now].open /\ start
    /\ UNCHANGED <<here, kept, remembered>>

\* Slip: a camera granted late is kept.
LateGranted(i) ==
    /\ runs[i].step = "asking"
    /\ runs' = [runs EXCEPT ![i].step = IF runs[i].cancelled THEN "over" ELSE "watching"]
    /\ visit' = [visit EXCEPT ![runs[i].visit].stream = i] /\ live' = live \cup {i}
    /\ UNCHANGED <<here, kept, remembered>>

\* The camera is granted; an effect that was cancelled meanwhile turns it off.
Granted(i) ==
    /\ runs[i].step = "asking"
    /\ IF runs[i].cancelled
       THEN runs' = [runs EXCEPT ![i].step = "over"] /\ UNCHANGED <<visit, live>>
       ELSE /\ runs' = [runs EXCEPT ![i].step = "watching"]
            /\ visit' = [visit EXCEPT ![runs[i].visit].stream = i]
            /\ live' = live \cup {i}
    /\ UNCHANGED <<here, kept, remembered>>

Denied(i) ==
    /\ runs[i].step = "asking"
    /\ runs' = [runs EXCEPT ![i].step = "over"]
    /\ UNCHANGED <<visit, here, live, kept, remembered>>

Ended(i) == runs[i].cancelled \/ visit[runs[i].visit].handled

\* A frame goes to the detector, which answers later; jsQR answers at once.
tick(i) ==
    /\ runs[i].step = "watching"
    /\ runs' = [runs EXCEPT ![i].step = IF Ended(i) THEN "over" ELSE "reading"]
    /\ UNCHANGED <<visit, here, live, kept, remembered>>

\* The detector found nothing, or the scanner has taken a code already.
Missed(i) ==
    /\ runs[i].step = "reading"
    /\ runs' = [runs EXCEPT ![i].step = IF Ended(i) THEN "over" ELSE "watching"]
    /\ UNCHANGED <<visit, here, live, kept, remembered>>

\* Slip: every code a detector finds is taken.
TakesAll(v) == TRUE

MayTake(v) == ~visit[v].handled

\* A code is found, and taken even if the effect was cancelled while the detector
\* was at work: it is remembered and the browser goes to its page, which ends
\* whatever scanner is on the screen.
acceptRaw(i, s) ==
    LET v == runs[i].visit IN
    /\ runs[i].step = "reading" /\ MayTake(v)
    /\ runs' = [Cancelled EXCEPT ![i].step = "over"]
    /\ visit' = [w \in DOMAIN visit |->
                   IF w = v THEN [visit[w] EXCEPT !.open = FALSE, !.handled = TRUE, !.stream = 0,
                                                  !.taken = @ + 1]
                   ELSE IF w = now THEN [visit[w] EXCEPT !.open = FALSE, !.stream = 0]
                   ELSE visit[w]]
    /\ live' = stopCamera(v) \cap stopCamera(now)
    /\ rememberStationScan(s)
    /\ here' = FALSE

\* A photo that was chosen is decoded: nothing of the camera is asked.
onFile(s) ==
    /\ close /\ here' = FALSE
    /\ rememberStationScan(s)

\* The page is left: through a link, which for a trip on its way is remembered too.
Leave(s) ==
    /\ here /\ close /\ here' = FALSE
    /\ IF s = NoSign THEN UNCHANGED <<kept, remembered>> ELSE rememberStationScan(s)

\* A cistern's page remembers it again, by the name on its sticker.
load ==
    /\ ~here /\ remembered # << >>
    /\ LET sticker == StickerOf[remembered[Len(remembered)]] IN
         sticker # NoSign /\ rememberStationScan(sticker)
    /\ UNCHANGED <<visit, here, runs, live>>

\* Back to the page: another scanner.
comeBack ==
    /\ ~here /\ now < MaxVisits
    /\ visit' = Append(visit, Fresh) /\ here' = TRUE
    /\ UNCHANGED <<runs, live, kept, remembered>>

clearStationScanHistory ==
    /\ here /\ kept # << >>
    /\ kept' = << >> /\ remembered' = << >>
    /\ UNCHANGED <<visit, here, runs, live>>

ScannerNext ==
    /\ \/ toggle \/ Rerender \/ load \/ comeBack \/ clearStationScanHistory
       \/ \E i \in DOMAIN runs : Granted(i) \/ Denied(i) \/ tick(i) \/ Missed(i)
       \/ \E s \in Signs : onFile(s) \/ \E i \in DOMAIN runs : acceptRaw(i, s)
       \/ \E s \in {StickerOf[k] : k \in Signs} : Leave(s)
    /\ UNCHANGED panelVars

-------------------------------------------------------------------------------
(* Properties. *)

\* Once its answers are in, the panel shows the department that is chosen, or a failure.
PanelIsCurrent ==
    error \/ data = deptFilter \/ \E i \in DOMAIN loads : Wanted(i) /\ ~loads[i].over

\* No camera stays on behind the user's back, and a scanner takes one code at most.
CameraIsTheUsers ==
    /\ live \subseteq {visit[now].stream}
    /\ live # {} => here /\ visit[now].open
    /\ \A v \in DOMAIN visit : visit[v].taken <= 1

\* The codes of a list, where each stands last, and those that stand later than one.
CodesOf(r) == {r[i] : i \in DOMAIN r}
LastIn(r, k) == CHOOSE i \in DOMAIN r : r[i] = k /\ \A j \in DOMAIN r : r[j] = k => j <= i
Newer(r, k) == {j \in CodesOf(r) : LastIn(r, j) > LastIn(r, k)}

\* A list has the last m codes of r, each once, the newest first.
HoldsLast(list, r, m) ==
    /\ Len(list) = IF Cardinality(CodesOf(r)) < m THEN Cardinality(CodesOf(r)) ELSE m
    /\ \A i \in DOMAIN list : list[i] \in CodesOf(r) /\ Cardinality(Newer(r, list[i])) = i - 1

\* The history has the codes told last.
KeptIsRecent == HoldsLast(kept, remembered, MaxKept)

\* However late answers, cameras and detectors are: the panel comes to show what was
\* chosen, a camera is on only for the page that shows it, a scanner takes one code,
\* and the history is what was told last.
ScreensKeepUp == PanelIsCurrent /\ CameraIsTheUsers /\ KeptIsRecent
===============================================================================
