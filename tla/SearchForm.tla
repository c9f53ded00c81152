----------------------------- MODULE SearchForm -----------------------------
(***************************************************************************)
(* The form of the search page: which inputs are disabled, what a click    *)
(* sends to the server, and how the form is kept in the browser and filled *)
(* in again when the page is loaded the next time.                         *)
(*                                                                         *)
(* "user" stands for the queue as well, "filter" and "choice" for the box  *)
(* and the lists of the job type, the severity and the analysis, "date"    *)
(* and "stamp" for the begin and the end of the finish time.  "stamp" is a *)
(* hidden input.  A text that names a job or an application stands for the *)
(* application the server makes of it, a name for its lower case.          *)
(***************************************************************************)
EXTENDS Naturals, FiniteSets, Functions

CONSTANTS
    Texts,              \* what a reader may type into each text input
    Blanks,             \* those of the texts that are nothing but blanks
    Timestamp,          \* the timestamp a date is converted to, or "NaN"
    Choice              \* what is chosen in the list

Boxes == {"filter", "dated"}
TextInputs == {"id", "flow", "user", "date"}
Inputs == TextInputs \cup {"stamp", "choice"} \cup Boxes

ASSUME FormAssumption ==
    /\ DOMAIN Texts = TextInputs
    /\ \A n \in TextInputs : "" \notin Texts[n]
    /\ Blanks \subseteq Texts["id"] \cup Texts["flow"] \cup Texts["user"]
    /\ DOMAIN Timestamp = Texts["date"]
    /\ \A x \in Texts["date"] : Timestamp[x] # ""
    /\ Choice # ""

VARIABLES
    value,              \* the value of each input; of a box, whether it is checked
    disabled,           \* the disabled inputs
    nameless,           \* the inputs whose name a click has removed
    cached,             \* localStorage: <<>>, or <<the inputs that were serialized>>
    sent,               \* <<>>, or <<the parameters of the request under way>>
    clicked,            \* what the reader saw when he clicked last
    again               \* he has clicked a second time on one page

formVars == <<value, disabled, nameless, cached, sent, clicked, again>>

EmptyForm == [n \in Inputs |->
    IF n \in Boxes THEN FALSE ELSE IF n = "choice" THEN Choice ELSE ""]

(* updateForm.  The mutant re-enables only the text inputs.                *)
DisabledUnlessText(v, d) ==
    IF v["id"] # "" THEN d \cup (Inputs \ {"id", "stamp"})
    ELSE IF v["flow"] # "" THEN d \cup (Inputs \ {"flow", "stamp"})
    ELSE (d \cap Boxes) \cup {n \in {"choice"} : ~v["filter"]} \cup {n \in {"date"} : ~v["dated"]}

Disabled(v, d) ==
    IF v["id"] # "" THEN d \cup (Inputs \ {"id", "stamp"})
    ELSE IF v["flow"] # "" THEN d \cup (Inputs \ {"flow", "stamp"})
    ELSE {n \in {"choice"} : ~v["filter"]} \cup {n \in {"date"} : ~v["dated"]}

(* serialize of jQuery: the inputs with a name that are not disabled, and  *)
(* of the boxes those that are checked.                                    *)
Serialized(v, d, without) ==
    Restrict(v, {n \in Inputs \ (d \cup without) : n \in Boxes => v[n]})

(* deserialize, of the form of a page that has just been loaded.           *)
Deserialized(params) ==
    [n \in Inputs |-> IF n \in DOMAIN params THEN params[n] ELSE EmptyForm[n]]

(* A date is converted to a timestamp and removed, so that it does not     *)
(* appear in the URL.  The mutant does not look at the box.                *)
ConvertedAlways(v) ==
    IF v["date"] # "" THEN [v EXCEPT !["stamp"] = Timestamp[v["date"]], !["date"] = ""]
    ELSE v

Converted(v) ==
    IF v["dated"] /\ v["date"] # ""
    THEN [v EXCEPT !["stamp"] = Timestamp[v["date"]], !["date"] = ""]
    ELSE v

(* The inputs without a value; every box has the value "".                 *)
Useless(v) == Boxes \cup {n \in Inputs \ Boxes : v[n] = ""}

(* What is kept for the next page.                                         *)
Kept(v) == Serialized(v, disabled, nameless)

(* What the server searches for, as search and generateSearchQuery see it: *)
(* it trims what the reader typed, while the form does not.                *)
Trimmed(x) == IF x \in Blanks THEN "" ELSE x

Only(n, x) == [m \in {n} |-> x]

Searched(params) ==
    LET given(n) == IF n \in DOMAIN params THEN params[n] ELSE ""
    IN  IF Trimmed(given("id")) # "" THEN Only("id", Trimmed(given("id")))
        ELSE IF Trimmed(given("flow")) # "" THEN Only("flow", Trimmed(given("flow")))
        ELSE [user |-> Trimmed(given("user")), choice |-> given("choice"),
              stamp |-> given("stamp")]

(* What a reader takes the form to search for.  Blanks name nothing; but   *)
(* blanks for a job or a flow disable all the rest, so that such a search   *)
(* is for everything, or for the dates filled in before: these the click   *)
(* converts although their inputs are disabled.                            *)
Dates == IF value["dated"] /\ value["date"] # "" THEN Timestamp[value["date"]] ELSE ""

Alone(n) ==
    IF value[n] \in Blanks THEN [user |-> "", choice |-> "", stamp |-> Dates]
    ELSE Only(n, value[n])

Meant ==
    IF value["id"] # "" THEN Alone("id")
    ELSE IF value["flow"] # "" THEN Alone("flow")
    ELSE [user   |-> Trimmed(value["user"]),
          choice |-> IF value["filter"] THEN value["choice"] ELSE "",
          stamp  |-> Dates]

(* The inputs of the form a reader can see and change.                     *)
Visible == Restrict(value, Inputs \ (disabled \cup {"stamp"}))

-----------------------------------------------------------------------------
FormTypeOK ==
    /\ \A n \in TextInputs : value[n] \in Texts[n] \cup {""}
    /\ value["stamp"] \in Range(Timestamp) \cup {""}
    /\ \A n \in Boxes : value[n] \in BOOLEAN
    /\ disabled \subseteq Inputs \ {"stamp"}
    /\ nameless \subseteq Inputs
    /\ cached # <<>> => DOMAIN cached[1] \subseteq Inputs
    /\ sent # <<>> => DOMAIN sent[1] \subseteq Inputs \ Boxes
    /\ again \in BOOLEAN

FormInit ==
    /\ value = EmptyForm
    /\ disabled = Disabled(EmptyForm, {})
    /\ nameless = {}
    /\ cached = <<>>
    /\ sent = <<>>
    /\ clicked = <<>>
    /\ again = FALSE

(* updateForm listens to the job and the flow and to the boxes only; it is *)
(* called on any change here, since it depends on no other input.          *)
Change(n, x) ==
    /\ n \notin disabled
    /\ value[n] # x
    /\ value' = [value EXCEPT ![n] = x]
    /\ disabled' = Disabled(value', disabled)
    /\ UNCHANGED <<nameless, cached, sent, clicked, again>>

Type(n, x) == n \in TextInputs /\ Change(n, x)

Toggle(n) == n \in Boxes /\ Change(n, ~value[n])

(* The page stays alive until the answer arrives, so that a reader can     *)
(* change the form and click again.                                        *)
Click ==
    LET v == Converted(value)
        gone == nameless \cup Useless(v)
    IN  /\ value' = v
        /\ nameless' = gone
        /\ cached' = <<Kept(value)>>
        /\ sent' = <<Serialized(v, disabled, gone)>>
        /\ clicked' = <<[meant |-> Meant, visible |-> Visible]>>
        /\ again' = (again \/ nameless # {})
        /\ UNCHANGED disabled

(* The answer arrives: a new page, whose form is filled in from the cache. *)
Arrive ==
    LET v == IF cached = <<>> THEN EmptyForm ELSE Deserialized(cached[1])
    IN  /\ sent # <<>>
        /\ value' = v
        /\ disabled' = Disabled(v, {})
        /\ nameless' = {}
        /\ sent' = <<>>
        /\ UNCHANGED <<cached, clicked, again>>

FormNext ==
    \/ \E n \in TextInputs : \E x \in Texts[n] \cup {""} : Type(n, x)
    \/ \E n \in Boxes : Toggle(n)
    \/ Click
    \/ Arrive

-----------------------------------------------------------------------------
(* Properties *)

(* The request searches for what the form says when it is clicked: dates   *)
(* that were converted, names that were removed and inputs that were       *)
(* filled in from an earlier search do not add a filter the reader does    *)
(* not see, nor take one away.  It holds as long as the reader never       *)
(* clicks a second time before the answer is there: then the form is kept  *)
(* without its boxes but with the hidden timestamp.                        *)
RequestMatchesForm ==
    sent # <<>> /\ ~again => Searched(sent[1]) = clicked[1].meant
=============================================================================
