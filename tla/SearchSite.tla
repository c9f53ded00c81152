----------------------------- MODULE SearchSite -----------------------------
(***************************************************************************)
(* A reader who fills in the search form, and then goes through the pages  *)
(* of the results while the executors of the daemon insert rows.           *)
(*                                                                         *)
(* The form does not read the table: a row inserted while the reader is at *)
(* the form might as well be inserted right after, which is what it is     *)
(* here.  Once he goes through the results he does not return to the form. *)
(***************************************************************************)
EXTENDS SearchPaging, SearchForm

CONSTANTS
    ChosenSeverity,     \* what Choice says
    ChosenAnalysis,
    ParseTime           \* parseTime, of a timestamp

VARIABLE reading        \* the reader goes through results

siteVars == <<vars, formVars, reading>>

(* The parameters of a request, as generateSearchQuery takes them.         *)
AsSearch(q) ==
    [user        |-> IF q.user = "" THEN Anything ELSE q.user,
     severity    |-> IF q.choice = "" THEN Absent ELSE ChosenSeverity,
     analysis    |-> IF q.choice = "" THEN Anything ELSE ChosenAnalysis,
     startBegin  |-> Absent,
     startEnd    |-> Absent,
     finishBegin |-> IF q.stamp = "" THEN Absent ELSE ParseTime[q.stamp],
     finishEnd   |-> Absent]

SiteTypeOK == TypeOK /\ FormTypeOK /\ reading \in BOOLEAN

(* The reader starts at the form, or follows a link with a search in it.   *)
SiteInit == Init /\ FormInit /\ reading \in BOOLEAN

AtForm ==
    /\ ~reading
    /\ FormNext
    /\ UNCHANGED <<vars, reading>>

(* The request of the form is answered with results, unless it is one for  *)
(* a job or a flow.  The form of the page of results is left as it is.     *)
ToResults ==
    /\ ~reading
    /\ sent # <<>>
    /\ LET q == Searched(sent[1])
       IN  "user" \in DOMAIN q /\ search' = AsSearch(q)
    /\ reading' = TRUE
    /\ value' = EmptyForm
    /\ disabled' = Disabled(EmptyForm, {})
    /\ nameless' = {}
    /\ cached' = <<>>
    /\ sent' = <<>>
    /\ clicked' = <<>>
    /\ again' = FALSE
    /\ UNCHANGED <<table, kind, page, seen, atStart, done>>

AtResults ==
    /\ reading
    /\ Next
    /\ UNCHANGED <<formVars, reading>>

SiteNext ==
    \/ AtForm
    \/ ToResults
    \/ AtResults

SiteSpec == SiteInit /\ [][SiteNext]_siteVars

-----------------------------------------------------------------------------
(* A new page shows the form as it was when it was clicked, with the same  *)
(* inputs enabled, unless the reader clicked twice on one page.            *)
FormRestored ==
    [][~reading /\ ~reading' /\ sent # <<>> /\ sent' = <<>> /\ ~again
          => Visible' = clicked[1].visible]_siteVars
=============================================================================
