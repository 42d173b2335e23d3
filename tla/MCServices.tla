------------------------------ MODULE MCServices ------------------------------
(* The services that the engine and the loader call without the frame: the     *)
(* tracking of open saves, the choice of a game version with its settings, the *)
(* preference file, the assets, the Java side and the calendar.  They share no *)
(* state and call one another nowhere, so a behaviour is one of a single part: *)
(* interleaving the parts would add states but no new ones of any part.        *)
(*                                                                             *)
(* Saves: three threads with three FILE addresses on a table of two slots, so  *)
(* that the table overflows, addresses are recycled and two scans overlap.     *)
EXTENDS ProfileStreams, StartUp, Preferences, AssetFile, JavaBridge, Calendar,
        PadCursor, UiContext, GLStateCache

VARIABLE part

\* Paths of one, two, three and four bytes per letter; the last two are cut by
\* the buffer in the middle of a letter.
TheTexts == {<<>>, <<"/", "e2", "/", "e3">>, <<"a", "e4", "/", "a">>,
             <<"e3", "e4", "a", "/", "e2">>}

\* The seconds on either side of the month edges of years around the anchors,
\* the century and the limits, and the extremes of time_t themselves.
TheYears == {2, 3, 4, 28, 29, 96, 100, 101, 104, 136, 137} \cup 68..72 \cup 107..109
Edges == {DaySeconds * (DayNumber([year |-> y, mon |-> m, mday |-> 1]) + k) + s :
              y \in TheYears, m \in 0..11, k \in {-1, 0}, s \in {0, 86399}}
TheInstants == [r \in Readers |->
    IF r = "a" THEN Edges \cup {-1, 2147483647, -2147483647 - 1} ELSE {39}]

\* The bases of the screen classes as their RTTI gives them: a popup is a
\* screen, the pause menu a popup; Settings has a virtual base besides, which
\* the walk leaves out.
Plainly(class) == [base |-> class, virtual |-> FALSE]
TheBases == [class \in Classes |->
    CASE class \in {"Game", "Popup"} -> <<Plainly("Screen")>>
      [] class = "Pause" -> <<Plainly("Popup")>>
      [] class = "Settings" -> <<Plainly("Popup"), [base |-> "Main", virtual |-> TRUE]>>
      [] OTHER -> <<>>]

TheLooks == {[class |-> "Game", name |-> "GameScreen"],
             [class |-> "Screen", name |-> "InGameBorders"],
             [class |-> "Screen", name |-> "TowerPlacementScreen"],
             [class |-> "Settings", name |-> ""]}
TheFragments == [name \in {look.name : look \in TheLooks} |->
    CASE name = "GameScreen" -> {"gamescreen"}
      [] name = "InGameBorders" -> {"ingame"}
      [] OTHER -> {}]

ServicesInit ==
    /\ part \in {"saves", "start", "preferences", "assets", "java", "calendar",
                 "pad", "screens", "gl"}
    /\ StreamsInit /\ StartUpInit /\ PrefInit /\ AssetInit /\ JavaInit /\ CalendarInit
    /\ PadInit /\ UiInit /\ GlInit
    /\ part # "start" => libraries = Versions /\ assets = Versions /\ genuine = Versions

\* The parts whose turn it never is stay as they began.
Keep(name, state) == IF part = name THEN TRUE ELSE UNCHANGED state

ServicesNext ==
    /\ UNCHANGED part
    /\ Keep("saves", streamVars) /\ Keep("start", startVars)
    /\ Keep("preferences", prefVars) /\ Keep("assets", assetVars)
    /\ Keep("java", javaVars) /\ Keep("calendar", calendarVars)
    /\ Keep("pad", padVars) /\ Keep("screens", uiVars) /\ Keep("gl", glVars)
    /\ \/ part = "saves" /\ StreamsNext
       \/ part = "start" /\ StartUpNext
       \/ part = "preferences" /\ PrefNext
       \/ part = "assets" /\ AssetNext
       \/ part = "java" /\ JavaNext
       \/ part = "calendar" /\ CalendarNext
       \/ part = "pad" /\ PadNext
       \/ part = "screens" /\ UiNext
       \/ part = "gl" /\ GlNext

ServicesSpec ==
    ServicesInit
        /\ [][ServicesNext]_<<part, streamVars, startVars, prefVars, assetVars, javaVars,
                              calendarVars, padVars, uiVars, glVars>>

(* The type invariant of the part whose turn it is; the others are as they *)
(* began.                                                                  *)
ServicesTypeOK ==
    CASE part = "saves" -> StreamsTypeOK
      [] part = "start" -> StartUpTypeOK
      [] part = "preferences" -> PrefTypeOK
      [] part = "assets" -> AssetTypeOK
      [] part = "java" -> JavaTypeOK
      [] part = "calendar" -> CalendarTypeOK
      [] part = "pad" -> PadTypeOK
      [] part = "screens" -> UiTypeOK
      [] part = "gl" -> GlTypeOK
=============================================================================
