-------------------------- MODULE SearchSiteProofs --------------------------
(***************************************************************************)
(* Proofs about the search page, for any texts, timestamps, rows, lengths  *)
(* of pages and of the bar, and any number of searches.                    *)
(*                                                                         *)
(* The form.  A request asks for what the form says and a new page shows   *)
(* the form as it was, as long as nobody clicks twice on one page.  What   *)
(* makes it true is that the hidden timestamp is empty until the first     *)
(* click, that disabled inputs are a function of the values, and that what *)
(* is kept of a form has the same function value as the form (FormInv).    *)
(*                                                                         *)
(* The pages.  Every page of results is the slice its number names, the    *)
(* bar under it links the pages around it that have rows, and a reader who *)
(* goes through all pages misses no row, although rows are inserted in     *)
(* between (WalkInv).  This rests on one fact: the places of the rows are  *)
(* all numbers below the number of rows, each once.  So a window of places *)
(* has as many rows as it has places, and the places within it are those   *)
(* of all rows less its begin; this ties the slice of the rows fetched for *)
(* the bar to the slice of all rows.  No number may exceed an int.         *)
(***************************************************************************)
EXTENDS SearchSite, TLAPS, FiniteSetTheorems, FunctionTheorems

(* Of the job and the flow the one that is filled in disables the other.   *)
WellFormed(v) ==
    /\ v = [n \in Inputs |-> v[n]]
    /\ v["id"] = "" \/ v["flow"] = ""
    /\ \A n \in Boxes : v[n] \in BOOLEAN

(* What the next page makes of the inputs that were kept.                  *)
Restored(params) ==
    LET v == Deserialized(params)
    IN  /\ WellFormed(v)
        /\ v["stamp"] = ""
        /\ Restrict(v, Inputs \ (Disabled(v, {}) \cup {"stamp"})) = clicked[1].visible

FormInv ==
    ~again =>
        /\ WellFormed(value)
        /\ disabled = Disabled(value, {})
        /\ sent = <<>> <=> nameless = {}
        /\ nameless = {} => value["stamp"] = ""
        /\ sent # <<>> => /\ Searched(sent[1]) = clicked[1].meant
                          /\ cached # <<>>
                          /\ Restored(cached[1])

(* A fresh form is well formed.                                            *)
LEMMA EmptyWellFormed == WellFormed(EmptyForm) /\ EmptyForm["stamp"] = ""
BY DEF WellFormed, EmptyForm, Inputs, Boxes, TextInputs

(* Which inputs are disabled does not depend on those that were disabled   *)
(* before, because an input that is disabled is not changed.               *)
LEMMA DisabledAgain ==
    ASSUME NEW v, WellFormed(v), NEW n \in Inputs \ Disabled(v, {}), n # "stamp", NEW x,
           n \in Boxes => x \in BOOLEAN
    PROVE  LET w == [v EXCEPT ![n] = x]
           IN  /\ WellFormed(w)
               /\ Disabled(w, Disabled(v, {})) = Disabled(w, {})
               /\ w["stamp"] = v["stamp"]
<1> DEFINE w == [v EXCEPT ![n] = x]
<1>1. w = [m \in Inputs |-> IF m = n THEN x ELSE v[m]]
  BY DEF WellFormed
<1>2. \A m \in Inputs : w[m] = IF m = n THEN x ELSE v[m]
  BY <1>1
<1>3. w = [m \in Inputs |-> w[m]]
  BY <1>1
<1> HIDE DEF w
<1>4. w["id"] = "" \/ w["flow"] = ""
  BY <1>2 DEF WellFormed, Disabled, Inputs, TextInputs, Boxes
<1>5. \A m \in Boxes : w[m] \in BOOLEAN
  BY <1>2 DEF WellFormed, Inputs, Boxes
<1>6. CASE v["id"] # ""
  BY <1>2, <1>3, <1>4, <1>5, <1>6 DEF WellFormed, Disabled, Inputs, TextInputs, Boxes
<1>7. CASE v["flow"] # ""
  BY <1>2, <1>3, <1>4, <1>5, <1>7 DEF WellFormed, Disabled, Inputs, TextInputs, Boxes
<1>8. CASE v["id"] = "" /\ v["flow"] = ""
  BY <1>2, <1>3, <1>4, <1>5, <1>8 DEF WellFormed, Disabled, Inputs, TextInputs, Boxes
<1> QED BY <1>6, <1>7, <1>8

(* A conversion changes neither the boxes nor what the form disables.      *)
LEMMA ConversionNeutral ==
    ASSUME NEW v, WellFormed(v)
    PROVE  /\ WellFormed(Converted(v))
           /\ \A n \in Inputs \ {"stamp", "date"} : Converted(v)[n] = v[n]
           /\ Disabled(Converted(v), {}) = Disabled(v, {})
BY DEF WellFormed, Converted, Disabled, Inputs, TextInputs, Boxes

(* A reader changes one input that he can see.                             *)
LEMMA ChangeKeepsForm ==
    ASSUME FormInv, NEW n \in Inputs \ {"stamp"}, NEW x, n \in Boxes => x \in BOOLEAN,
           Change(n, x)
    PROVE  FormInv'
<1> SUFFICES ASSUME ~again' PROVE FormInv'
  BY DEF FormInv
<1>1. ~again /\ UNCHANGED <<nameless, cached, sent, clicked, again>>
  BY DEF Change
<1>2. value' = [value EXCEPT ![n] = x] /\ n \in Inputs \ disabled
  BY DEF Change
<1>3. WellFormed(value) /\ disabled = Disabled(value, {})
  BY <1>1 DEF FormInv
<1>4. /\ WellFormed(value')
      /\ Disabled(value', disabled) = Disabled(value', {})
      /\ value'["stamp"] = value["stamp"]
  BY <1>2, <1>3, DisabledAgain
<1>5. disabled' = Disabled(value', {})
  BY <1>4 DEF Change
<1>6. sent # <<>> => Restored(cached[1])'
  BY <1>1 DEF FormInv, Restored
<1> QED BY <1>1, <1>4, <1>5, <1>6 DEF FormInv

(* The request of a first click asks for what the form says.               *)
LEMMA RequestMeant ==
    ASSUME WellFormed(value), disabled = Disabled(value, {}), value["stamp"] = "",
           NEW v, v = Converted(value)
    PROVE  Searched(Serialized(v, disabled, Useless(v))) = Meant
<1> DEFINE params == Serialized(v, disabled, Useless(v))
           given(n) == IF n \in DOMAIN params THEN params[n] ELSE ""
<1>1. /\ WellFormed(v)
      /\ \A n \in Inputs \ {"stamp", "date"} : v[n] = value[n]
      /\ disabled = Disabled(v, {})
  BY ConversionNeutral
<1>2. params = [n \in (Inputs \ Boxes) \ {m \in Inputs : m \in disabled \/ v[m] = ""} |-> v[n]]
  BY DEF Serialized, Useless, Restrict, Inputs, Boxes, TextInputs
<1>3. \A n \in Inputs \ Boxes : given(n) = IF n \in disabled THEN "" ELSE v[n]
  BY <1>2
<1>4. v["stamp"] = IF value["dated"] /\ value["date"] # "" THEN Timestamp[value["date"]] ELSE ""
  BY DEF Converted, WellFormed, Inputs
<1>5. Searched(params) =
         IF Trimmed(given("id")) # "" THEN Only("id", Trimmed(given("id")))
         ELSE IF Trimmed(given("flow")) # "" THEN Only("flow", Trimmed(given("flow")))
         ELSE [user |-> Trimmed(given("user")), choice |-> given("choice"),
               stamp |-> given("stamp")]
  BY DEF Searched
<1>6. {"id", "flow", "user", "choice", "stamp"} \subseteq Inputs \ Boxes
  BY DEF Inputs, TextInputs, Boxes
<1> SUFFICES Searched(params) = Meant
  OBVIOUS
<1> HIDE DEF params, given
<1>7. Trimmed("") = ""
  BY DEF Trimmed
<1>8. v["stamp"] = Dates /\ given("stamp") = Dates
  BY <1>1, <1>3, <1>4, <1>6 DEF Dates, Disabled
<1>9. ASSUME v["id"] # "" \/ v["flow"] # ""
      PROVE  /\ given("user") = "" /\ given("choice") = ""
             /\ v["id"] # "" => given("id") = value["id"] /\ given("flow") = ""
             /\ v["id"] = "" => given("id") = "" /\ given("flow") = value["flow"]
  BY <1>1, <1>3, <1>6, <1>9 DEF Disabled, Inputs
<1>10. /\ value["id"] = v["id"] /\ value["flow"] = v["flow"]
       /\ value["id"] # "" /\ value["id"] \notin Blanks => Trimmed(value["id"]) # ""
       /\ value["flow"] # "" /\ value["flow"] \notin Blanks => Trimmed(value["flow"]) # ""
  BY <1>1, <1>6 DEF Trimmed
<1>11. CASE v["id"] # ""
  BY <1>5, <1>7, <1>8, <1>9, <1>10, <1>11 DEF Meant, Alone, Trimmed
<1>12. CASE v["id"] = "" /\ v["flow"] # ""
  BY <1>5, <1>7, <1>8, <1>9, <1>10, <1>12 DEF Meant, Alone, Trimmed
<1>13. CASE v["id"] = "" /\ v["flow"] = ""
  <2>1. given("id") = "" /\ given("flow") = ""
    BY <1>3, <1>6, <1>13
  <2>2. given("user") = value["user"]
    BY <1>1, <1>3, <1>6, <1>13 DEF Disabled
  <2>3. given("choice") = IF value["filter"] THEN value["choice"] ELSE ""
    BY <1>1, <1>3, <1>6, <1>13 DEF Disabled, Inputs, Boxes
  <2> QED BY <1>5, <1>7, <1>8, <1>10, <1>13, <2>1, <2>2, <2>3 DEF Meant
<1> QED BY <1>11, <1>12, <1>13

(* What a first click keeps is restored as what the reader saw.            *)
LEMMA KeptRestored ==
    ASSUME WellFormed(value), disabled = Disabled(value, {}), value["stamp"] = "",
           nameless = {}, NEW v, v = Deserialized(Kept(value))
    PROVE  /\ WellFormed(v)
           /\ v["stamp"] = ""
           /\ Restrict(v, Inputs \ (Disabled(v, {}) \cup {"stamp"})) = Visible
<1>1. Kept(value) = [n \in {m \in Inputs \ disabled : m \in Boxes => value[m]} |-> value[n]]
  BY DEF Kept, Serialized, Restrict
<1>2. v = [n \in Inputs |-> v[n]]
  BY DEF Deserialized
<1>3. \A n \in Inputs : v[n] = IF n \notin disabled /\ (n \in Boxes => value[n])
                               THEN value[n] ELSE EmptyForm[n]
  BY <1>1 DEF Deserialized
<1>4. \A n \in Inputs \ disabled : v[n] = value[n]
  <2> TAKE n \in Inputs \ disabled
  <2>1. CASE n \in Boxes /\ ~ value[n]
    <3>1. value[n] = FALSE
      BY <2>1 DEF WellFormed
    <3>2. EmptyForm[n] = FALSE
      BY <2>1 DEF EmptyForm
    <3> QED BY <1>3, <2>1, <3>1, <3>2
  <2>2. CASE ~(n \in Boxes /\ ~ value[n])
    BY <1>3, <2>2
  <2> QED BY <2>1, <2>2
<1>5. \A n \in Inputs \cap disabled : v[n] = EmptyForm[n]
  BY <1>3
<1>6. \A n \in Boxes : v[n] \in BOOLEAN
  <2> TAKE n \in Boxes
  <2>1. n \in Inputs /\ EmptyForm[n] = FALSE
    BY DEF EmptyForm, Inputs
  <2>2. CASE n \in disabled
    BY <1>5, <2>1, <2>2
  <2>3. CASE n \notin disabled
    BY <1>4, <2>1, <2>3 DEF WellFormed
  <2> QED BY <2>2, <2>3
<1>7. {"id", "flow", "stamp", "filter", "dated"} \subseteq Inputs
  BY DEF Inputs, TextInputs, Boxes
<1>8. EmptyForm["id"] = "" /\ EmptyForm["flow"] = ""
  BY <1>7 DEF EmptyForm, Boxes
<1>9. "stamp" \notin disabled
  BY DEF Disabled
<1>10. v["stamp"] = ""
  BY <1>4, <1>7, <1>9
<1>11. CASE value["id"] # ""
  <2>1. disabled = Inputs \ {"id", "stamp"}
    BY <1>11 DEF Disabled
  <2>2. v["id"] = value["id"] /\ v["flow"] = ""
    BY <1>4, <1>5, <1>7, <1>8, <2>1
  <2>3. Disabled(v, {}) = disabled
    BY <1>11, <2>1, <2>2 DEF Disabled
  <2> QED BY <1>2, <1>4, <1>6, <1>10, <2>2, <2>3 DEF WellFormed, Visible, Restrict
<1>12. CASE value["id"] = "" /\ value["flow"] # ""
  <2>1. disabled = Inputs \ {"flow", "stamp"}
    BY <1>12 DEF Disabled
  <2>2. v["flow"] = value["flow"] /\ v["id"] = ""
    BY <1>4, <1>5, <1>7, <1>8, <2>1
  <2>3. Disabled(v, {}) = disabled
    BY <1>12, <2>1, <2>2 DEF Disabled
  <2> QED BY <1>2, <1>4, <1>6, <1>10, <2>2, <2>3 DEF WellFormed, Visible, Restrict
<1>13. CASE value["id"] = "" /\ value["flow"] = ""
  <2>1. disabled \subseteq {"choice", "date"}
    BY <1>13 DEF Disabled
  <2>2. /\ v["flow"] = "" /\ v["id"] = ""
        /\ v["filter"] = value["filter"] /\ v["dated"] = value["dated"]
    BY <1>4, <1>7, <1>13, <2>1
  <2>3. Disabled(v, {}) = disabled
    BY <1>13, <2>2 DEF Disabled
  <2> QED BY <1>2, <1>4, <1>6, <1>10, <2>2, <2>3 DEF WellFormed, Visible, Restrict
<1> QED BY <1>11, <1>12, <1>13

(* A click sends what was meant and keeps the form that was sent.          *)
LEMMA ClickKeepsForm == ASSUME FormInv, Click PROVE FormInv'
<1> DEFINE v == Converted(value)
<1> SUFFICES ASSUME ~again' PROVE FormInv'
  BY DEF FormInv
<1>1. ~again /\ nameless = {}
  BY DEF Click
<1>2. WellFormed(value) /\ disabled = Disabled(value, {}) /\ value["stamp"] = ""
  BY <1>1 DEF FormInv
<1>3. /\ value' = v /\ nameless' = nameless \cup Useless(v) /\ cached' = <<Kept(value)>>
      /\ sent' = <<Serialized(v, disabled, nameless \cup Useless(v))>>
      /\ clicked' = <<[meant |-> Meant, visible |-> Visible]>>
      /\ disabled' = disabled
  BY DEF Click
<1> HIDE DEF v
<1>4. WellFormed(v) /\ disabled' = Disabled(v, {})
  BY <1>2, <1>3, ConversionNeutral DEF v
<1>5. nameless' # {} /\ sent' # <<>> /\ cached' # <<>>
  BY <1>3 DEF Useless, Boxes
<1>6. Searched(Serialized(v, disabled, Useless(v))) = Meant
  BY <1>2, RequestMeant DEF v
<1>7. Searched(sent'[1]) = clicked'[1].meant
  BY <1>1, <1>3, <1>6
<1>8. Restored(cached[1])'
  <2>1. cached'[1] = Kept(value) /\ clicked'[1].visible = Visible
    BY <1>3
  <2> DEFINE w == Deserialized(Kept(value))
  <2>2. /\ WellFormed(w) /\ w["stamp"] = ""
        /\ Restrict(w, Inputs \ (Disabled(w, {}) \cup {"stamp"})) = Visible
    BY <1>1, <1>2, KeptRestored
  <2> QED BY <2>1, <2>2 DEF Restored
<1> QED BY <1>3, <1>4, <1>5, <1>7, <1>8 DEF FormInv

(* The answer restores the form from what was kept.                        *)
LEMMA ArriveKeepsForm == ASSUME FormInv, Arrive PROVE FormInv'
<1> SUFFICES ASSUME ~again' PROVE FormInv'
  BY DEF FormInv
<1>1. ~again /\ sent # <<>>
  BY DEF Arrive
<1>2. cached # <<>> /\ Restored(cached[1])
  BY <1>1 DEF FormInv
<1>3. value' = Deserialized(cached[1]) /\ disabled' = Disabled(value', {})
  BY <1>2 DEF Arrive
<1>4. nameless' = {} /\ sent' = <<>>
  BY DEF Arrive
<1> QED BY <1>2, <1>3, <1>4 DEF FormInv, Restored

(* The form starts empty.                                                 *)
LEMMA FormInvInit == SiteInit => FormInv
BY EmptyWellFormed DEF SiteInit, FormInit, FormInv

(* No step of the page or of the daemon disturbs the form.                *)
LEMMA FormInvNext == FormInv /\ [SiteNext]_siteVars => FormInv'
<1> SUFFICES ASSUME FormInv, [SiteNext]_siteVars PROVE FormInv'
  OBVIOUS
<1>1. CASE UNCHANGED formVars
  BY <1>1 DEF formVars, FormInv, Restored
<1>2. ASSUME NEW n \in TextInputs, NEW x \in Texts[n] \cup {""}, Type(n, x) PROVE FormInv'
  <2>1. n \in Inputs \ {"stamp"} /\ n \notin Boxes
    BY DEF Inputs, TextInputs, Boxes
  <2> QED BY <1>2, <2>1, ChangeKeepsForm DEF Type
<1>3. ASSUME NEW n \in Boxes, Toggle(n) PROVE FormInv'
  <2>1. n \in Inputs \ {"stamp"}
    BY DEF Inputs, TextInputs, Boxes
  <2>2. (~value[n]) \in BOOLEAN
    OBVIOUS
  <2> QED BY <1>3, <2>1, <2>2, ChangeKeepsForm DEF Toggle
<1>4. CASE ToResults
  BY <1>4, EmptyWellFormed DEF ToResults, FormInv
<1> QED
  BY <1>1, <1>2, <1>3, <1>4, ClickKeepsForm, ArriveKeepsForm
  DEF SiteNext, AtForm, FormNext, AtResults, siteVars, formVars

(* The request of a form that was clicked once searches for what the form  *)
(* says, whatever was typed, clicked and restored before.                  *)
THEOREM RequestMatches == SiteSpec => []RequestMatchesForm
<1>1. FormInv => RequestMatchesForm
  BY DEF FormInv, RequestMatchesForm
<1> QED BY <1>1, FormInvInit, FormInvNext, PTL DEF SiteSpec

(* The page that answers a click shows the form as it was.                 *)
THEOREM FormComesBack == SiteSpec => FormRestored
<1>1. ASSUME FormInv, [SiteNext]_siteVars, ~reading, ~reading', sent # <<>>, sent' = <<>>, ~again
      PROVE  Visible' = clicked[1].visible
  <2>1. Arrive
    BY <1>1 DEF SiteNext, AtForm, ToResults, AtResults, FormNext, Type, Toggle, Change, Click,
                siteVars, formVars
  <2>2. Restored(cached[1]) /\ cached # <<>>
    BY <1>1 DEF FormInv
  <2>3. value' = Deserialized(cached[1]) /\ disabled' = Disabled(value', {})
    BY <2>1, <2>2 DEF Arrive
  <2> QED BY <2>2, <2>3 DEF Restored, Visible
<1>2. FormInv /\ [SiteNext]_siteVars
        => [~reading /\ ~reading' /\ sent # <<>> /\ sent' = <<>> /\ ~again
              => Visible' = clicked[1].visible]_siteVars
  BY <1>1
<1> QED BY <1>2, FormInvInit, FormInvNext, PTL DEF SiteSpec, FormRestored

-----------------------------------------------------------------------------
Keys == {StartTime, FinishTime}

(* The rows of the places from a up to b, b excluded.                      *)
Window(S, key, t, a, b) ==
    {r \in S : LET rank == Rank(S, key, t, r) IN a <= rank /\ rank < b}

LEMMA KeyTypes ==
    /\ \A key \in Keys : key \in [Rows -> Nat]
    /\ \A t \in TieBreaks : t \in [Rows -> Nat] /\ \A r, s \in Rows : t[r] = t[s] => r = s
BY SearchAssumption DEF Keys

(* A place is a number below the number of rows.                           *)
LEMMA RankType ==
    ASSUME NEW S \in SUBSET Rows, NEW key \in Keys, NEW t \in TieBreaks, NEW r \in S
    PROVE  /\ IsFiniteSet(S) /\ Cardinality(S) \in Nat
           /\ IsFiniteSet(Before(S, key, t, r))
           /\ Rank(S, key, t, r) \in 0 .. Cardinality(S) - 1
<1>1. IsFiniteSet(S) /\ Cardinality(S) \in Nat
  BY SearchAssumption, FS_Subset, FS_CardinalityType
<1>2. Before(S, key, t, r) \subseteq S \ {r}
  <2>1. key[r] \in Nat /\ t[r] \in Nat
    BY KeyTypes
  <2> QED BY <2>1 DEF Before
<1>3. IsFiniteSet(S \ {r}) /\ Cardinality(S \ {r}) = Cardinality(S) - 1
  BY <1>1, FS_RemoveElement
<1>4. /\ IsFiniteSet(Before(S, key, t, r))
      /\ Cardinality(Before(S, key, t, r)) <= Cardinality(S \ {r})
      /\ Cardinality(Before(S, key, t, r)) \in Nat
  BY <1>2, <1>3, FS_Subset, FS_CardinalityType
<1> QED BY <1>1, <1>3, <1>4 DEF Rank

(* Places follow the order, and no two rows share one.                     *)
LEMMA RankOrder ==
    ASSUME NEW S \in SUBSET Rows, NEW key \in Keys, NEW t \in TieBreaks,
           NEW r \in S, NEW s \in S
    PROVE  /\ s \in Before(S, key, t, r) <=> Rank(S, key, t, s) < Rank(S, key, t, r)
           /\ Rank(S, key, t, r) = Rank(S, key, t, s) => r = s
<1>1. ASSUME NEW p \in S, NEW q \in S, p \in Before(S, key, t, q)
      PROVE  Rank(S, key, t, p) < Rank(S, key, t, q)
  <2>1. p \notin Before(S, key, t, p)
    BY KeyTypes DEF Before
  <2>2. Before(S, key, t, p) \cup {p} \subseteq Before(S, key, t, q)
    <3>1. \A x \in S : key[x] \in Nat /\ t[x] \in Nat
      BY KeyTypes
    <3> QED BY <1>1, <3>1 DEF Before
  <2>3. Cardinality(Before(S, key, t, p) \cup {p}) = Rank(S, key, t, p) + 1
    BY <2>1, RankType, FS_AddElement DEF Rank
  <2>4. Cardinality(Before(S, key, t, p) \cup {p}) <= Rank(S, key, t, q)
    BY <2>2, RankType, FS_Subset DEF Rank
  <2>5. Rank(S, key, t, p) \in Int /\ Rank(S, key, t, q) \in Int
    BY RankType
  <2> QED BY <2>3, <2>4, <2>5
<1>2. r = s \/ s \in Before(S, key, t, r) \/ r \in Before(S, key, t, s)
  <2>1. \A x \in S : key[x] \in Nat /\ t[x] \in Nat
    BY KeyTypes
  <2>2. t[r] = t[s] => r = s
    BY KeyTypes
  <2> QED BY <2>1, <2>2 DEF Before
<1>3. Rank(S, key, t, r) \in Int /\ Rank(S, key, t, s) \in Int
  BY RankType
<1> QED BY <1>1, <1>2, <1>3

(* Every place is taken.                                                   *)
LEMMA RankOnto ==
    ASSUME NEW S \in SUBSET Rows, NEW key \in Keys, NEW t \in TieBreaks,
           NEW k \in 0 .. Cardinality(S) - 1
    PROVE  \E r \in S : Rank(S, key, t, r) = k
<1> DEFINE F == [r \in S |-> Rank(S, key, t, r)]
           places == 0 .. Cardinality(S) - 1
<1>1. IsFiniteSet(S) /\ Cardinality(S) \in Nat
  BY SearchAssumption, FS_Subset, FS_CardinalityType
<1>2. F \in Injection(S, places)
  <2>1. \A r \in S : Rank(S, key, t, r) \in places
    BY RankType
  <2>2. \A r, s \in S : F[r] = F[s] => r = s
    BY RankOrder
  <2> QED BY <2>1, <2>2, Fun_IsInj
<1>3. IsFiniteSet(places) /\ Cardinality(places) = Cardinality(S)
  BY <1>1, FS_Interval
<1>4. F \in Surjection(S, places)
  BY <1>2, <1>3, FS_Injection
<1> QED BY <1>4 DEF Surjection

(* How many rows there are from one place up to another.                   *)
LEMMA WindowSize ==
    ASSUME NEW S \in SUBSET Rows, NEW key \in Keys, NEW t \in TieBreaks,
           NEW a \in Nat, NEW b \in Nat, a <= b
    PROVE  /\ IsFiniteSet(Window(S, key, t, a, b))
           /\ Cardinality(Window(S, key, t, a, b))
                 = Smaller(b, Cardinality(S)) - Smaller(a, Cardinality(S))
<1> DEFINE n == Cardinality(S)
           W == Window(S, key, t, a, b)
           places == a .. Smaller(b, n) - 1
           F == [r \in W |-> Rank(S, key, t, r)]
<1>1. IsFiniteSet(S) /\ n \in Nat
  BY SearchAssumption, FS_Subset, FS_CardinalityType
<1>2. W \subseteq S
  BY DEF Window
<1>3. IsFiniteSet(W)
  BY <1>1, <1>2, FS_Subset
<1>4. \A r \in W : Rank(S, key, t, r) \in places
  BY <1>1, RankType DEF Window, Smaller
<1>5. \A r, s \in W : Rank(S, key, t, r) = Rank(S, key, t, s) => r = s
  BY <1>2, RankOrder
<1>6. ASSUME NEW k \in places PROVE \E r \in W : Rank(S, key, t, r) = k
  <2>1. k \in 0 .. n - 1 /\ a <= k /\ k < b
    BY <1>1 DEF Smaller
  <2> QED BY <2>1, RankOnto DEF Window
<1>7. F \in Bijection(W, places)
  <2>1. F \in [W -> places]
    BY <1>4
  <2>2. \A r, s \in W : F[r] = F[s] => r = s
    BY <1>5
  <2>3. \A k \in places : \E r \in W : F[r] = k
    BY <1>6
  <2> HIDE DEF F, W, places
  <2> QED BY <2>1, <2>2, <2>3, Fun_IsBij
<1>8. Cardinality(places) = Cardinality(W)
  BY <1>3, <1>7, FS_Bijection DEF ExistsBijection
<1>9. Cardinality(places) = IF a > Smaller(b, n) - 1 THEN 0 ELSE Smaller(b, n) - a
  <2>1. Smaller(b, n) \in Nat
    BY <1>1 DEF Smaller
  <2>2. a \in Int /\ Smaller(b, n) - 1 \in Int
    BY <2>1
  <2>3. Cardinality(places) = IF a > Smaller(b, n) - 1 THEN 0 ELSE Smaller(b, n) - 1 - a + 1
    BY <2>2, FS_Interval
  <2> QED BY <2>1, <2>3
<1> QED BY <1>1, <1>3, <1>8, <1>9 DEF Smaller

(* The places within a window are those of all rows, counted from its      *)
(* begin.                                                                  *)
LEMMA RankInWindow ==
    ASSUME NEW S \in SUBSET Rows, NEW key \in Keys, NEW t \in TieBreaks,
           NEW a \in Nat, NEW b \in Nat, NEW r \in Window(S, key, t, a, b)
    PROVE  Rank(Window(S, key, t, a, b), key, t, r) = Rank(S, key, t, r) - a
<1> DEFINE n == Cardinality(S)
           k == Rank(S, key, t, r)
<1>1. r \in S /\ a <= k /\ k < b
  BY DEF Window
<1>2. n \in Nat /\ k \in 0 .. n - 1
  BY <1>1, RankType
<1>3. Before(Window(S, key, t, a, b), key, t, r) = Window(S, key, t, a, k)
  <2>1. \A x \in S : x \in Before(S, key, t, r) <=> Rank(S, key, t, x) < k
    BY <1>1, RankOrder
  <2>2. \A x \in S : Rank(S, key, t, x) \in Nat
    BY RankType
  <2> QED BY <1>1, <1>2, <2>1, <2>2 DEF Window, Before
<1>4. Cardinality(Window(S, key, t, a, k)) = Smaller(k, n) - Smaller(a, n)
  BY <1>1, <1>2, WindowSize
<1> QED BY <1>1, <1>2, <1>3, <1>4 DEF Rank, Smaller

-----------------------------------------------------------------------------
(* Numbers that fit into an int are not changed.                           *)
LEMMA WrapFits ==
    ASSUME NEW n \in 0 .. IntMax
    PROVE  Wrap(n) = n
<1> DEFINE m == IntMax + 1
<1>1. m \in Nat \ {0} /\ n + m \in 0 .. 2 * m - 1
  BY SearchAssumption
<1>2. (n + m) % (2 * m) = n + m
  BY <1>1
<1>3. n + IntMax + 1 = n + m /\ IntMax \in Nat
  BY SearchAssumption
<1>4. Wrap(n) = ((n + m) % (2 * m)) - m
  BY <1>3 DEF Wrap
<1> HIDE DEF m
<1> QED BY <1>1, <1>2, <1>4

LEMMA DivisionBound ==
    ASSUME NEW n \in Nat, NEW k \in Nat, NEW d \in Nat \ {0}
    PROVE  /\ n \div d \in Nat
           /\ n \div d < k <=> n < k * d
<1> DEFINE q == n \div d
<1>1. q \in Nat /\ q * d <= n /\ n < q * d + d
  OBVIOUS
<1> HIDE DEF q
<1>2. q < k => q * d + d <= k * d
  BY <1>1
<1>3. q >= k => q * d >= k * d
  BY <1>1
<1> QED BY <1>1, <1>2, <1>3 DEF q

LEMMA FetchIsWindow ==
    ASSUME NEW S, NEW key, NEW t, NEW first \in Nat, NEW max
    PROVE  Fetch(S, key, t, first, max) = Window(S, key, t, first, first + max)
BY DEF Fetch, Window

(* The bar starts at most half its length before the page.                 *)
LEMMA BarStartBounds ==
    ASSUME NEW p \in Nat \ {0}
    PROVE  /\ BarStart(p) \in 1 .. p
           /\ p + 1 - BarStart(p) <= PageBarLength - 1
<1>1. PageBarLength \in Nat /\ PageBarLength >= 3
  BY SearchAssumption
<1>2. PageBarLength \div 2 \in Nat /\ PageBarLength \div 2 >= 1
      /\ PageBarLength \div 2 + 1 <= PageBarLength - 1
  BY <1>1
<1> QED BY <1>1, <1>2 DEF BarStart, Larger

-----------------------------------------------------------------------------
(* What a page shows.  FetchFrom and FetchTo are the places that are       *)
(* fetched for the whole bar.                                              *)
FetchFrom(p) == (BarStart(p) - 1) * PageLength
FetchTo(p) == FetchFrom(p) + (PageBarLength - 1) * PageLength + 1

LEMMA PlacesOfPage ==
    ASSUME NEW p \in Nat \ {0}
    PROVE  /\ FetchFrom(p) \in Nat /\ FetchTo(p) \in Nat
           /\ FetchFrom(p) <= (p - 1) * PageLength
           /\ BarStart(p) - 1 <= FetchFrom(p)
           /\ (p - BarStart(p)) * PageLength = (p - 1) * PageLength - FetchFrom(p)
           /\ (p - 1) * PageLength + PageLength = p * PageLength
           /\ p * PageLength < FetchTo(p)
           /\ (p - BarStart(p)) * PageLength \in Nat /\ (p - 1) * PageLength \in Nat
<1> DEFINE s == BarStart(p)
<1>1. PageLength \in Nat \ {0} /\ PageBarLength \in Nat \ {0}
  BY SearchAssumption
<1>2. s \in 1 .. p /\ p + 1 - s <= PageBarLength - 1
  BY BarStartBounds
<1> HIDE DEF s
<1>3. (s - 1) * PageLength \in Nat /\ (PageBarLength - 1) * PageLength \in Nat
      /\ (p - s) * PageLength \in Nat /\ (p - 1) * PageLength \in Nat
  BY <1>1, <1>2
<1>4. (p - 1) * PageLength = (s - 1) * PageLength + (p - s) * PageLength
  BY <1>1, <1>2
<1>5. s - 1 <= (s - 1) * PageLength
  BY <1>1, <1>2
<1>6. (p - 1) * PageLength + PageLength = p * PageLength
  BY <1>1
<1>7. (p + 1 - s) * PageLength = p * PageLength - (s - 1) * PageLength
  BY <1>1, <1>2
<1>8. (p + 1 - s) * PageLength <= (PageBarLength - 1) * PageLength
  BY <1>1, <1>2
<1>9. p * PageLength \in Nat
  BY <1>1
<1> QED BY <1>3, <1>4, <1>5, <1>6, <1>7, <1>8, <1>9 DEF FetchFrom, FetchTo, s

(* The rows that are fetched, and how many.                                *)
LEMMA Fetched ==
    ASSUME NEW S \in SUBSET Rows, NEW key \in Keys, NEW t \in TieBreaks,
           NEW p \in Nat \ {0}, (p - 1) * PageLength <= IntMax
    PROVE  /\ HtmlFetch(S, key, t, p) = Window(S, key, t, FetchFrom(p), FetchTo(p))
           /\ Cardinality(HtmlFetch(S, key, t, p))
                 = Smaller(FetchTo(p), Cardinality(S)) - Smaller(FetchFrom(p), Cardinality(S))
<1> DEFINE max == (PageBarLength - 1) * PageLength + 1
<1>1. FetchFrom(p) \in 0 .. IntMax /\ FetchFrom(p) \in Nat
      /\ FetchTo(p) \in Nat /\ FetchFrom(p) <= FetchTo(p)
  BY PlacesOfPage, SearchAssumption
<1>2. Wrap((BarStart(p) - 1) * PageLength) = FetchFrom(p)
  BY <1>1, WrapFits DEF FetchFrom
<1>3. HtmlFetch(S, key, t, p) = Fetch(S, key, t, FetchFrom(p), max)
  BY <1>2 DEF HtmlFetch
<1>4. Fetch(S, key, t, FetchFrom(p), max) = Window(S, key, t, FetchFrom(p), FetchFrom(p) + max)
  BY <1>1, FetchIsWindow
<1>5. FetchFrom(p) + max = FetchTo(p)
  BY <1>1, SearchAssumption DEF FetchTo
<1>6. Cardinality(Window(S, key, t, FetchFrom(p), FetchTo(p)))
         = Smaller(FetchTo(p), Cardinality(S)) - Smaller(FetchFrom(p), Cardinality(S))
  BY <1>1, WindowSize
<1> QED BY <1>3, <1>4, <1>5, <1>6

(* The end of the bar, for a number of rows that does not wrap it around.  *)
LEMMA BarEndFits ==
    ASSUME NEW p \in Nat \ {0}, NEW n \in Nat, n <= IntMax,
           NEW size \in Nat \ {0}, size = Smaller(FetchTo(p), n) - Smaller(FetchFrom(p), n)
    PROVE  BarEnd(p, size) = BarStart(p) + (size - 1) \div PageLength
<1>1. PageLength \in Nat \ {0} /\ BarStart(p) \in Nat \ {0}
  BY SearchAssumption, BarStartBounds
<1>2. FetchFrom(p) \in Nat /\ FetchTo(p) \in Nat /\ BarStart(p) - 1 <= FetchFrom(p)
  BY PlacesOfPage
<1>3. (size - 1) \div PageLength \in Nat /\ (size - 1) \div PageLength <= size - 1
  <2>1. (size - 1) \div PageLength < size <=> size - 1 < size * PageLength
    BY <1>1, DivisionBound
  <2>2. size <= size * PageLength
    BY <1>1
  <2>3. (size - 1) \div PageLength \in Nat
    BY <1>1, DivisionBound
  <2> QED BY <1>1, <2>1, <2>2, <2>3
<1>4. FetchFrom(p) + size <= n
  BY <1>2 DEF Smaller
<1>5. BarStart(p) + (size - 1) \div PageLength \in 0 .. IntMax
  BY <1>1, <1>2, <1>3, <1>4, SearchAssumption
<1> QED BY <1>5, WrapFits DEF BarEnd

-----------------------------------------------------------------------------
(* A page of the REST search has the rows of its places.                   *)
LEMMA RestSlice ==
    ASSUME NEW S \in SUBSET Rows, NEW key \in Keys, NEW t \in TieBreaks,
           NEW p \in Nat \ {0}, (p - 1) * RestPageLength <= IntMax
    PROVE  RestPage(S, key, t, p)
              = Window(S, key, t, (p - 1) * RestPageLength, p * RestPageLength)
<1>1. RestPageLength \in Nat \ {0}
  BY SearchAssumption
<1>2. (p - 1) * RestPageLength \in 0 .. IntMax
  BY <1>1, SearchAssumption
<1>3. (p - 1) * RestPageLength + RestPageLength = p * RestPageLength
  BY <1>1
<1> QED BY <1>2, <1>3, WrapFits, FetchIsWindow DEF RestPage

(* So has a page of the search page.                                       *)
LEMMA HtmlSlice ==
    ASSUME Cardinality(Rows) <= IntMax,
           NEW S \in SUBSET Rows, NEW key \in Keys, NEW t \in TieBreaks,
           NEW p \in Nat \ {0}, (p - 1) * PageLength <= IntMax
    PROVE  HtmlPage(S, key, t, p) = Window(S, key, t, (p - 1) * PageLength, p * PageLength)
<1> DEFINE results == HtmlFetch(S, key, t, p)
           size == Cardinality(results)
           first == (p - BarStart(p)) * PageLength
           last == Smaller(size, first + PageLength)
           from == FetchFrom(p)
           slice == Window(S, key, t, (p - 1) * PageLength, p * PageLength)
<1>1. IsFiniteSet(S) /\ Cardinality(S) \in Nat /\ Cardinality(S) <= IntMax
  <2>1. IsFiniteSet(Rows) /\ Cardinality(Rows) \in Nat
    BY SearchAssumption, FS_CardinalityType
  <2>2. IsFiniteSet(S) /\ Cardinality(S) <= Cardinality(Rows) /\ Cardinality(S) \in Nat
    BY <2>1, FS_Subset, FS_CardinalityType
  <2> QED BY <2>1, <2>2, SearchAssumption
<1>2. /\ results = Window(S, key, t, from, FetchTo(p))
      /\ size = Smaller(FetchTo(p), Cardinality(S)) - Smaller(from, Cardinality(S))
  BY Fetched
<1>3. /\ from \in Nat /\ FetchTo(p) \in Nat /\ first \in Nat /\ PageLength \in Nat \ {0}
      /\ (p - 1) * PageLength \in Nat
      /\ from + first = (p - 1) * PageLength
      /\ from + first + PageLength = p * PageLength
      /\ from + first + PageLength < FetchTo(p)
  BY PlacesOfPage, SearchAssumption
<1>4. results \subseteq S /\ results \in SUBSET Rows
  BY <1>2 DEF Window
<1>5. \A r \in S : Rank(S, key, t, r) \in Nat
  BY RankType
<1>6. slice \subseteq results
  <2> HIDE DEF results, first, from
  <2> QED BY <1>2, <1>3, <1>5 DEF Window
<1>7. \A r \in results : /\ Rank(results, key, t, r) = Rank(S, key, t, r) - from
                         /\ Rank(results, key, t, r) \in 0 .. size - 1
  BY <1>2, <1>3, <1>4, RankInWindow, RankType
<1>8. CASE results = {}
  BY <1>6, <1>8 DEF HtmlPage
<1>9. CASE results # {}
  <2>1. size \in Nat \ {0}
    BY <1>4, <1>7, <1>9, RankType
  <2>2. BarEnd(p, size) = BarStart(p) + (size - 1) \div PageLength
    BY <1>1, <1>2, <2>1, BarEndFits
  <2>3. p > BarEnd(p, size) <=> size <= first
    <3>1. BarStart(p) \in 1 .. p /\ p - BarStart(p) \in Nat
      BY BarStartBounds
    <3>2. (size - 1) \div PageLength \in Nat
          /\ ((size - 1) \div PageLength < p - BarStart(p) <=> size - 1 < first)
      <4>1. size - 1 \in Nat /\ PageLength \in Nat \ {0}
        BY <1>3, <2>1
      <4> HIDE DEF size
      <4> QED BY <3>1, <4>1, DivisionBound
    <3> QED BY <1>3, <2>1, <2>2, <3>1, <3>2
  <2>4. CASE size <= first
    <3>1. HtmlPage(S, key, t, p) = {}
      BY <2>3, <2>4 DEF HtmlPage
    <3>2. slice = {}
      <4>1. \A r \in slice : from + first <= Rank(S, key, t, r)
        BY <1>3 DEF Window
      <4> HIDE DEF results, size, first, from, slice
      <4> QED BY <1>3, <1>4, <1>5, <1>6, <1>7, <2>1, <2>4, <4>1
    <3> QED BY <3>1, <3>2
  <2>5. CASE ~(size <= first)
    <3>1. HtmlPage(S, key, t, p) =
             {r \in results : LET rank == Rank(results, key, t, r)
                              IN  first <= rank /\ rank < last}
      BY <1>9, <2>3, <2>5 DEF HtmlPage
    <3>2. \A r \in results :
             first <= Rank(results, key, t, r) /\ Rank(results, key, t, r) < last <=> r \in slice
      <4>1. \A r \in results : r \in slice <=>
               from + first <= Rank(S, key, t, r) /\ Rank(S, key, t, r) < from + first + PageLength
        BY <1>3, <1>4 DEF Window
      <4>2. \A r \in results :
               Rank(results, key, t, r) < last <=> Rank(results, key, t, r) < first + PageLength
        BY <1>3, <1>7, <2>1 DEF Smaller
      <4> HIDE DEF results, size, first, from, slice, last
      <4> QED BY <1>3, <1>4, <1>5, <1>7, <2>1, <4>1, <4>2
    <3> QED BY <1>6, <3>1, <3>2
  <2> QED BY <2>4, <2>5
<1> QED BY <1>8, <1>9

(* The bar has the pages around the one shown that have rows.              *)
LEMMA BarPages ==
    ASSUME Cardinality(Rows) <= IntMax,
           NEW S \in SUBSET Rows, NEW key \in Keys, NEW t \in TieBreaks,
           NEW p \in Nat \ {0}, (p - 1) * PageLength <= IntMax, HtmlPage(S, key, t, p) # {}
    PROVE  BarStart(p) .. BarEnd(p, Cardinality(HtmlFetch(S, key, t, p)))
              = {q \in BarStart(p) .. BarStart(p) + PageBarLength - 1 :
                    (q - 1) * PageLength < Cardinality(S)}
<1> DEFINE size == Cardinality(HtmlFetch(S, key, t, p))
           n == Cardinality(S)
           s == BarStart(p)
<1>1. IsFiniteSet(S) /\ n \in Nat /\ n <= IntMax
  <2>1. IsFiniteSet(Rows) /\ Cardinality(Rows) \in Nat
    BY SearchAssumption, FS_CardinalityType
  <2>2. IsFiniteSet(S) /\ Cardinality(S) <= Cardinality(Rows) /\ Cardinality(S) \in Nat
    BY <2>1, FS_Subset, FS_CardinalityType
  <2> QED BY <2>1, <2>2, SearchAssumption
<1>2. size = Smaller(FetchTo(p), n) - Smaller(FetchFrom(p), n)
  BY Fetched
<1>3. /\ FetchFrom(p) \in Nat /\ FetchTo(p) \in Nat /\ s \in Nat \ {0}
      /\ PageLength \in Nat \ {0} /\ PageBarLength \in Nat \ {0}
  BY PlacesOfPage, BarStartBounds, SearchAssumption
<1>4. size \in Nat \ {0}
  <2>1. /\ HtmlFetch(S, key, t, p) # {}
        /\ HtmlFetch(S, key, t, p) = Window(S, key, t, FetchFrom(p), FetchTo(p))
    BY Fetched DEF HtmlPage
  <2>2. PICK r \in S : FetchFrom(p) <= Rank(S, key, t, r) /\ Rank(S, key, t, r) < FetchTo(p)
    BY <2>1 DEF Window
  <2>3. Rank(S, key, t, r) \in 0 .. n - 1
    BY RankType
  <2> HIDE DEF size, n
  <2> QED BY <1>1, <1>2, <1>3, <2>2, <2>3 DEF Smaller
<1>5. BarEnd(p, size) = s + (size - 1) \div PageLength /\ (size - 1) \div PageLength \in Nat
  <2>1. size - 1 \in Nat
    BY <1>4
  <2> HIDE DEF size, n
  <2> QED BY <1>1, <1>2, <1>3, <1>4, <2>1, BarEndFits, DivisionBound
<1>6. ASSUME NEW k \in Nat
      PROVE  s + k <= BarEnd(p, size) <=> k * PageLength < size
  <2>1. size - 1 \in Nat /\ k \in Nat
    BY <1>4
  <2>2. (size - 1) \div PageLength < k <=> size - 1 < k * PageLength
    BY <1>3, <2>1, DivisionBound
  <2>3. k * PageLength \in Nat
    BY <1>3
  <2> HIDE DEF size, s
  <2> QED BY <1>3, <1>4, <1>5, <2>2, <2>3
<1>7. ASSUME NEW k \in Nat
      PROVE  s + k <= BarEnd(p, size)
                <=> k <= PageBarLength - 1 /\ (s + k - 1) * PageLength < n
  <2> DEFINE d == k * PageLength
  <2>1. /\ d \in Nat
        /\ (s + k - 1) * PageLength = FetchFrom(p) + d
        /\ FetchTo(p) = FetchFrom(p) + (PageBarLength - 1) * PageLength + 1
    <3> HIDE DEF s
    <3>1. (s + k - 1) * PageLength = (s - 1) * PageLength + k * PageLength
      BY <1>3
    <3> QED BY <1>3, <3>1 DEF FetchFrom, FetchTo, s
  <2>2. k <= PageBarLength - 1 => d <= (PageBarLength - 1) * PageLength
    BY <1>3
  <2>3. k > PageBarLength - 1 => d >= (PageBarLength - 1) * PageLength + PageLength
    <3>1. k > PageBarLength - 1 => k >= PageBarLength
      BY <1>3
    <3>2. k >= PageBarLength => k * PageLength >= PageBarLength * PageLength
      BY <1>3
    <3>3. PageBarLength * PageLength = (PageBarLength - 1) * PageLength + PageLength
      BY <1>3
    <3> QED BY <3>1, <3>2, <3>3
  <2>4. (PageBarLength - 1) * PageLength \in Nat
    BY <1>3
  <2>5. s + k <= BarEnd(p, size) <=> d < size
    BY <1>6
  <2> HIDE DEF d, size, n, s
  <2> QED BY <1>1, <1>2, <1>3, <1>4, <2>1, <2>2, <2>3, <2>4, <2>5 DEF Smaller
<1>8. ASSUME NEW q \in Int, q >= s
      PROVE  q <= BarEnd(p, size) <=> q <= s + PageBarLength - 1 /\ (q - 1) * PageLength < n
  <2>1. q - s \in Nat /\ s + (q - s) = q
    BY <1>3, <1>8
  <2>2. s + (q - s) <= BarEnd(p, size)
           <=> q - s <= PageBarLength - 1 /\ (s + (q - s) - 1) * PageLength < n
    BY <1>7, <2>1
  <2> HIDE DEF size, n, s
  <2> QED BY <1>3, <2>1, <2>2
<1>9. BarEnd(p, size) \in Int
  BY <1>3, <1>5
<1> HIDE DEF size, n, s
<1> QED BY <1>3, <1>8, <1>9 DEF size, n, s

-----------------------------------------------------------------------------
(* The table holds no more rows than an int can count.                     *)
TableFits == Cardinality(Rows) <= IntMax

LEMMA SortKeyType == SortKey(search) \in Keys
BY DEF SortKey, Keys

LEMMA TableInRows == SiteSpec => [](table \subseteq Rows)
<1>1. SiteInit => table \subseteq Rows
  BY DEF SiteInit, Init
<1>2. table \subseteq Rows /\ [SiteNext]_siteVars => (table \subseteq Rows)'
  BY DEF SiteNext, AtForm, ToResults, AtResults, Next, Insert, Begin, RestSearch, HtmlSearch,
         siteVars, vars
<1> QED BY <1>1, <1>2, PTL DEF SiteSpec

LEMMA ExactPages == ASSUME TableFits, table \subseteq Rows PROVE PageExact
<1> SUFFICES
      ASSUME NEW t \in TieBreaks, NEW p \in 1 .. IntMax
      PROVE  LET S == Result(search)
                 key == SortKey(search)
                 Slice(length) == {r \in S : LET rank == Rank(S, key, t, r)
                                             IN  (p - 1) * length <= rank /\ rank < p * length}
             IN  /\ (p - 1) * RestPageLength <= IntMax =>
                        RestPage(S, key, t, p) = Slice(RestPageLength)
                 /\ (p - 1) * PageLength <= IntMax =>
                        HtmlPage(S, key, t, p) = Slice(PageLength)
  BY DEF PageExact
<1>1. Result(search) \in SUBSET Rows
  BY DEF Result
<1>2. p \in Nat \ {0}
  BY SearchAssumption
<1>3. (p - 1) * RestPageLength <= IntMax =>
         RestPage(Result(search), SortKey(search), t, p)
            = Window(Result(search), SortKey(search), t, (p - 1) * RestPageLength,
                     p * RestPageLength)
  BY <1>1, <1>2, SortKeyType, RestSlice
<1>4. (p - 1) * PageLength <= IntMax =>
         HtmlPage(Result(search), SortKey(search), t, p)
            = Window(Result(search), SortKey(search), t, (p - 1) * PageLength, p * PageLength)
  BY <1>1, <1>2, SortKeyType, HtmlSlice DEF TableFits
<1> QED BY <1>3, <1>4 DEF Window

(* Any page number shows exactly the rows of its places, for all rows,     *)
(* lengths and tables an int can count.                                    *)
THEOREM PagesExact == ASSUME TableFits PROVE SiteSpec => []PageExact
BY TableInRows, ExactPages, PTL

LEMMA ExactBars == ASSUME TableFits, table \subseteq Rows PROVE BarExact
<1> SUFFICES
      ASSUME NEW t \in TieBreaks, NEW p \in 1 .. IntMax,
             (p - 1) * PageLength <= IntMax,
             HtmlPage(Result(search), SortKey(search), t, p) # {}
      PROVE  BarStart(p) .. BarEnd(p, Cardinality(HtmlFetch(Result(search), SortKey(search), t, p)))
                = {q \in BarStart(p) .. BarStart(p) + PageBarLength - 1 :
                      (q - 1) * PageLength < Cardinality(Result(search))}
  BY DEF BarExact
<1>1. Result(search) \in SUBSET Rows
  BY DEF Result
<1>2. p \in Nat \ {0}
  BY SearchAssumption
<1> QED BY <1>1, <1>2, SortKeyType, BarPages DEF TableFits

(* The bar under a page links exactly the pages around it that have rows.  *)
THEOREM BarsExact == ASSUME TableFits PROVE SiteSpec => []BarExact
BY TableInRows, ExactBars, PTL

-----------------------------------------------------------------------------
(* The walk.  A row that is not seen yet is on the next page or after it:  *)
(* rows are inserted before it or behind it, so that its place only grows. *)
WalkFits ==
    /\ Cardinality(Rows) + PageLength <= IntMax
    /\ Cardinality(Rows) + RestPageLength <= IntMax

LengthOf(k) == IF k = "html" THEN PageLength ELSE RestPageLength

Ahead(r) ==
    \A t \in TieBreaks :
        (page - 1) * LengthOf(kind) <= Rank(Result(search), SortKey(search), t, r)

WalkInv ==
    /\ table \subseteq Rows
    /\ page \in Nat \ {0}
    /\ ~reading => kind = "none"
    /\ kind = "none" => ~done /\ page = 1 /\ atStart = {}
    /\ kind # "none" =>
          /\ kind \in {"html", "rest"}
          /\ (page - 1) * LengthOf(kind) <= IntMax
          /\ atStart \subseteq Result(search)
          /\ \A r \in atStart : UniqueTime(r) => r \in seen \/ (~done /\ Ahead(r))

(* A row that shares its time with no other has one place in all orders.   *)
LEMMA OnePlace ==
    ASSUME NEW S \in SUBSET Rows, NEW key \in Keys, NEW r \in S,
           \A s \in Rows : key[s] = key[r] => s = r,
           NEW t \in TieBreaks, NEW u \in TieBreaks
    PROVE  Rank(S, key, t, r) = Rank(S, key, u, r)
<1>1. t[r] \in Nat /\ u[r] \in Nat
  BY KeyTypes
<1>2. Before(S, key, t, r) = Before(S, key, u, r)
  BY <1>1 DEF Before
<1> QED BY <1>2 DEF Rank

(* Insertions only move rows to later places.                              *)
LEMMA PlacesGrow ==
    ASSUME NEW S \in SUBSET Rows, NEW T \in SUBSET Rows, S \subseteq T,
           NEW key \in Keys, NEW t \in TieBreaks, NEW r \in S
    PROVE  Rank(S, key, t, r) <= Rank(T, key, t, r)
<1>1. Before(S, key, t, r) \subseteq Before(T, key, t, r)
  BY DEF Before
<1>2. IsFiniteSet(Before(T, key, t, r))
  BY RankType
<1> QED BY <1>1, <1>2, FS_Subset DEF Rank

(* The rows of a page, as soon as a row is at its begin or after it.       *)
LEMMA PageNotEmpty ==
    ASSUME NEW S \in SUBSET Rows, NEW key \in Keys, NEW t \in TieBreaks, NEW r \in S,
           NEW from \in Nat, NEW to \in Nat, from < to, from <= Rank(S, key, t, r)
    PROVE  Window(S, key, t, from, to) # {}
<1>1. from \in 0 .. Cardinality(S) - 1
  BY RankType
<1>2. PICK s \in S : Rank(S, key, t, s) = from
  BY <1>1, RankOnto
<1> QED BY <1>2 DEF Window

(* What a page leaves: rows that were ahead were on it, or are still       *)
(* ahead, and it can be followed by another one if it has rows.            *)
LEMMA AfterPage ==
    ASSUME NEW S \in SUBSET Rows, NEW key \in Keys, NEW t \in TieBreaks,
           NEW p \in Nat \ {0}, NEW length \in Nat \ {0}, Cardinality(Rows) + length <= IntMax
    PROVE  LET shown == Window(S, key, t, (p - 1) * length, p * length)
           IN  /\ shown # {} => p * length <= IntMax
               /\ \A r \in S : (p - 1) * length <= Rank(S, key, t, r) =>
                     r \in shown \/ (shown # {} /\ p * length <= Rank(S, key, t, r))
<1> DEFINE shown == Window(S, key, t, (p - 1) * length, p * length)
<1>1. (p - 1) * length \in Nat /\ p * length \in Nat /\ p * length = (p - 1) * length + length
  OBVIOUS
<1>2. Cardinality(S) \in Nat /\ Cardinality(S) <= Cardinality(Rows) /\ Cardinality(Rows) \in Nat
  BY SearchAssumption, FS_Subset, FS_CardinalityType
<1>3. ASSUME shown # {} PROVE p * length <= IntMax
  <2>1. PICK r \in S : (p - 1) * length <= Rank(S, key, t, r)
    BY <1>3 DEF Window
  <2>2. Rank(S, key, t, r) \in 0 .. Cardinality(S) - 1
    BY RankType
  <2>3. (p - 1) * length < Cardinality(Rows)
    BY <1>1, <1>2, <2>1, <2>2
  <2> QED BY <1>1, <1>2, <2>3, SearchAssumption
<1>4. ASSUME NEW r \in S, (p - 1) * length <= Rank(S, key, t, r)
      PROVE  r \in shown \/ (shown # {} /\ p * length <= Rank(S, key, t, r))
  <2>1. shown # {}
    BY <1>1, <1>4, PageNotEmpty
  <2>2. Rank(S, key, t, r) \in Nat
    BY RankType
  <2>3. r \in shown \/ p * length <= Rank(S, key, t, r)
    BY <1>1, <1>4, <2>2 DEF Window
  <2> QED BY <2>1, <2>3
<1> QED BY <1>3, <1>4

LEMMA WalkConstants ==
    ASSUME WalkFits
    PROVE  /\ TableFits
           /\ \A k : /\ LengthOf(k) \in Nat \ {0}
                    /\ Cardinality(Rows) + LengthOf(k) <= IntMax
<1>1. Cardinality(Rows) \in Nat
  BY SearchAssumption, FS_CardinalityType
<1> QED BY <1>1, SearchAssumption DEF WalkFits, TableFits, LengthOf

(* A page of the walk, which ends it only if no row is behind the page.    *)
LEMMA PageKeepsWalk ==
    ASSUME WalkFits, WalkInv, kind # "none", ~done, NEW t \in TieBreaks,
           NEW shown,
           shown = Window(Result(search), SortKey(search), t,
                          (page - 1) * LengthOf(kind), page * LengthOf(kind)),
           table' = table, kind' = kind, search' = search, atStart' = atStart, reading' = reading,
           seen' = seen \cup shown,
           \/ ~done' /\ shown # {} /\ page' = page + 1
           \/ /\ done' /\ page' = page
              /\ shown = {} \/ \A r \in Result(search) :
                     Rank(Result(search), SortKey(search), t, r) < page * LengthOf(kind)
    PROVE  WalkInv'
<1> DEFINE S == Result(search)
           key == SortKey(search)
           L == LengthOf(kind)
<1>1. S \in SUBSET Rows /\ key \in Keys /\ page \in Nat \ {0}
  BY SortKeyType DEF WalkInv, Result
<1>2. L \in Nat \ {0} /\ Cardinality(Rows) + L <= IntMax
  BY WalkConstants
<1>3. /\ shown # {} => page * L <= IntMax
      /\ \A r \in S : (page - 1) * L <= Rank(S, key, t, r) =>
            r \in shown \/ (shown # {} /\ page * L <= Rank(S, key, t, r))
  BY <1>1, <1>2, AfterPage
<1>4. S' = S /\ key' = key /\ L' = L
  BY DEF Result, Matches, SortKey, LengthOf
<1>5. \A r \in S : Rank(S, key, t, r) \in Nat
  BY <1>1, RankType
<1>6. ASSUME NEW r \in atStart, UniqueTime(r), r \notin seen'
      PROVE  ~done' /\ Ahead(r)'
  <2>1. r \in S /\ Ahead(r)
    BY <1>6 DEF WalkInv
  <2>2. shown # {} /\ page * L <= Rank(S, key, t, r)
    BY <1>3, <1>6, <2>1 DEF Ahead
  <2>3. page * L \in Nat
    BY <1>1, <1>2
  <2>4. ~done' /\ page' = page + 1
    BY <1>5, <2>1, <2>2, <2>3
  <2>5. \A u \in TieBreaks : Rank(S, key, t, r) = Rank(S, key, u, r)
    BY <1>1, <1>6, <2>1, OnePlace DEF UniqueTime
  <2>6. (page' - 1) * L = page * L
    BY <1>1, <1>2, <2>4
  <2> QED BY <1>4, <2>2, <2>4, <2>5, <2>6 DEF Ahead
<1>7. \A r : UniqueTime(r)' <=> UniqueTime(r)
  BY <1>4 DEF UniqueTime
<1>8. page' \in Nat \ {0} /\ (page' - 1) * L <= IntMax
  <2>1. CASE page' = page
    BY <1>1, <2>1 DEF WalkInv
  <2>2. CASE shown # {} /\ page' = page + 1
    <3>1. (page' - 1) * L = page * L
      BY <1>1, <1>2, <2>2
    <3> QED BY <1>1, <1>3, <2>2, <3>1
  <2> QED BY <2>1, <2>2
<1>9. /\ table' \subseteq Rows /\ (~reading' => kind' = "none")
      /\ kind' \in {"html", "rest"} /\ atStart' \subseteq S'
  BY <1>4 DEF WalkInv
<1> QED BY <1>4, <1>6, <1>7, <1>8, <1>9 DEF WalkInv

LEMMA RestKeepsWalk ==
    ASSUME WalkFits, WalkInv, RestSearch, reading' = reading
    PROVE  WalkInv'
<1>1. PICK t \in TieBreaks :
         LET shown == RestPage(Result(search), SortKey(search), t, page)
         IN  /\ seen' = seen \cup shown
             /\ done' = (shown = {})
             /\ page' = IF shown = {} THEN page ELSE page + 1
  BY DEF RestSearch
<1> DEFINE shown == RestPage(Result(search), SortKey(search), t, page)
<1>2. /\ kind = "rest" /\ ~done
      /\ table' = table /\ kind' = kind /\ search' = search /\ atStart' = atStart
  BY DEF RestSearch
<1>3. shown = Window(Result(search), SortKey(search), t,
                     (page - 1) * LengthOf(kind), page * LengthOf(kind))
  <2>1. Result(search) \in SUBSET Rows /\ page \in Nat \ {0} /\ (page - 1) * RestPageLength <= IntMax
    BY <1>2 DEF WalkInv, Result, LengthOf
  <2> QED BY <1>2, <2>1, SortKeyType, RestSlice DEF LengthOf
<1>4. \/ ~done' /\ shown # {} /\ page' = page + 1
      \/ done' /\ page' = page /\ shown = {}
  BY <1>1
<1>5. seen' = seen \cup shown
  BY <1>1
<1> HIDE DEF shown
<1> QED BY <1>2, <1>3, <1>4, <1>5, PageKeepsWalk

LEMMA HtmlKeepsWalk ==
    ASSUME WalkFits, WalkInv, HtmlSearch, reading' = reading
    PROVE  WalkInv'
<1> DEFINE S == Result(search)
           key == SortKey(search)
           last(t) == \/ HtmlPage(S, key, t, page) = {}
                      \/ page = BarEnd(page, Cardinality(HtmlFetch(S, key, t, page)))
<1>1. PICK t \in TieBreaks :
         /\ seen' = seen \cup HtmlPage(S, key, t, page)
         /\ done' = last(t)
         /\ page' = IF last(t) THEN page ELSE NextPage(page)
  BY DEF HtmlSearch
<1> DEFINE shown == HtmlPage(S, key, t, page)
           end == BarEnd(page, Cardinality(HtmlFetch(S, key, t, page)))
<1>2. /\ kind = "html" /\ ~done
      /\ table' = table /\ kind' = kind /\ search' = search /\ atStart' = atStart
  BY DEF HtmlSearch
<1>3. S \in SUBSET Rows /\ key \in Keys /\ page \in Nat \ {0} /\ (page - 1) * PageLength <= IntMax
  BY <1>2, SortKeyType DEF WalkInv, Result, LengthOf
<1>4. shown = Window(S, key, t, (page - 1) * LengthOf(kind), page * LengthOf(kind))
  BY <1>2, <1>3, HtmlSlice, WalkConstants DEF LengthOf, TableFits
<1>5. ASSUME shown # {}, page = end, NEW r \in S, page * PageLength <= Rank(S, key, t, r)
      PROVE  FALSE
  <2>1. /\ BarStart(page) .. end = {q \in BarStart(page) .. BarStart(page) + PageBarLength - 1 :
                                        (q - 1) * PageLength < Cardinality(S)}
        /\ BarStart(page) \in 1 .. page /\ page + 1 - BarStart(page) <= PageBarLength - 1
    BY <1>3, <1>5, WalkConstants, BarPages, BarStartBounds DEF TableFits
  <2>2. page * PageLength < Cardinality(S)
    <3>1. Rank(S, key, t, r) \in 0 .. Cardinality(S) - 1 /\ Cardinality(S) \in Nat
      BY <1>3, RankType
    <3>2. page * PageLength \in Nat
      BY <1>3, SearchAssumption
    <3> QED BY <1>5, <3>1, <3>2
  <2>3. page + 1 \in BarStart(page) .. BarStart(page) + PageBarLength - 1
    BY <1>3, <2>1, SearchAssumption
  <2>4. (page + 1) - 1 = page
    BY <1>3
  <2>5. page + 1 \in BarStart(page) .. end
    BY <2>1, <2>2, <2>3, <2>4
  <2> QED BY <1>3, <1>5, <2>5
<1>6. \/ ~done' /\ shown # {} /\ page' = page + 1
      \/ done' /\ page' = page /\ (shown = {} \/ page = end)
  BY <1>1 DEF NextPage
<1>7. shown # {} /\ page = end =>
         \A r \in S : Rank(S, key, t, r) < page * LengthOf(kind)
  <2>1. \A r \in S : Rank(S, key, t, r) \in Nat
    BY <1>3, RankType
  <2>2. page * PageLength \in Nat
    BY <1>3, SearchAssumption
  <2> HIDE DEF shown, end, S, key
  <2> QED BY <1>2, <1>5, <2>1, <2>2 DEF LengthOf
<1>8. seen' = seen \cup shown
  BY <1>1
<1> HIDE DEF shown, end
<1> QED BY <1>2, <1>4, <1>6, <1>7, <1>8, PageKeepsWalk

LEMMA InsertKeepsWalk ==
    ASSUME WalkFits, WalkInv, NEW x \in Rows, Insert(x), reading' = reading
    PROVE  WalkInv'
<1>1. /\ table' = table \cup {x}
      /\ kind' = kind /\ search' = search /\ page' = page /\ seen' = seen
      /\ atStart' = atStart /\ done' = done
  BY DEF Insert, readerVars
<1>2. /\ Result(search) \in SUBSET Rows /\ Result(search)' \in SUBSET Rows
      /\ Result(search) \subseteq Result(search)'
      /\ SortKey(search)' = SortKey(search) /\ SortKey(search) \in Keys
  BY <1>1, SortKeyType DEF Result, Matches, SortKey, WalkInv
<1>3. ASSUME kind # "none", NEW r \in atStart, Ahead(r) PROVE Ahead(r)'
  <2> SUFFICES ASSUME NEW t \in TieBreaks
               PROVE  (page - 1) * LengthOf(kind) <= Rank(Result(search)', SortKey(search), t, r)
    BY <1>1, <1>2 DEF Ahead, LengthOf
  <2>1. r \in Result(search)
    BY <1>3 DEF WalkInv
  <2>2. Rank(Result(search), SortKey(search), t, r) <= Rank(Result(search)', SortKey(search), t, r)
    BY <1>2, <2>1, PlacesGrow
  <2>3. /\ Rank(Result(search), SortKey(search), t, r) \in Int
        /\ Rank(Result(search)', SortKey(search), t, r) \in Int
    BY <1>2, <2>1, RankType
  <2>4. (page - 1) * LengthOf(kind) \in Int
    BY WalkConstants DEF WalkInv
  <2> QED BY <1>3, <2>2, <2>3, <2>4 DEF Ahead
<1>4. \A r : UniqueTime(r)' <=> UniqueTime(r)
  BY <1>1, <1>2 DEF UniqueTime
<1> QED BY <1>1, <1>2, <1>3, <1>4 DEF WalkInv, LengthOf

(* The reader begins: nothing is before the first page.                    *)
LEMMA BeginKeepsWalk ==
    ASSUME WalkFits, WalkInv, Begin, reading, reading' = reading
    PROVE  WalkInv'
<1>1. /\ kind' \in {"html", "rest"} /\ atStart' = Result(search)
      /\ table' = table /\ search' = search /\ page' = page /\ seen' = seen /\ done' = done
      /\ kind = "none"
  BY DEF Begin
<1>2. page' = 1 /\ ~done'
  BY <1>1 DEF WalkInv
<1>3. Result(search)' = Result(search) /\ Result(search) \in SUBSET Rows /\ SortKey(search) \in Keys
      /\ SortKey(search)' = SortKey(search)
  BY <1>1, SortKeyType DEF Result, Matches, WalkInv, SortKey
<1>4. (page' - 1) * LengthOf(kind') = 0
  BY <1>2, WalkConstants
<1>5. ASSUME NEW r \in atStart' PROVE Ahead(r)'
  <2>1. \A t \in TieBreaks : Rank(Result(search), SortKey(search), t, r) \in Nat
    <3> SUFFICES ASSUME NEW t \in TieBreaks PROVE Rank(Result(search), SortKey(search), t, r) \in Nat
      OBVIOUS
    <3>1. r \in Result(search)
      BY <1>1, <1>5
    <3>2. Rank(Result(search), SortKey(search), t, r) \in 0 .. Cardinality(Result(search)) - 1
      BY <1>3, <3>1, RankType
    <3> QED BY <3>2
  <2> QED BY <1>3, <1>4, <2>1 DEF Ahead, LengthOf
<1>6. 0 <= IntMax
  BY SearchAssumption
<1> QED BY <1>1, <1>2, <1>3, <1>4, <1>5, <1>6 DEF WalkInv, LengthOf

LEMMA WalkInvNext == ASSUME WalkFits, WalkInv, [SiteNext]_siteVars PROVE WalkInv'
<1>1. CASE UNCHANGED <<table, kind, search, page, seen, atStart, done, reading>>
  BY <1>1 DEF WalkInv, Ahead, UniqueTime, Result, Matches, SortKey, LengthOf
<1>2. CASE AtForm
  BY <1>1, <1>2 DEF AtForm, vars, readerVars
<1>3. CASE ToResults
  BY <1>3 DEF ToResults, WalkInv
<1>4. CASE AtResults
  BY <1>4, InsertKeepsWalk, BeginKeepsWalk, RestKeepsWalk, HtmlKeepsWalk DEF AtResults, Next
<1>5. CASE UNCHANGED siteVars
  BY <1>1, <1>5 DEF siteVars, vars, readerVars
<1> QED BY <1>2, <1>3, <1>4, <1>5 DEF SiteNext

(* Who goes through all pages has seen every row that was there when he    *)
(* started and shares its time with no other, for all rows, searches,      *)
(* lengths, and insertions between the pages.                              *)
THEOREM WalksComplete == ASSUME WalkFits PROVE SiteSpec => []WalkComplete
<1>1. SiteInit => WalkInv
  BY DEF SiteInit, Init, WalkInv
<1>2. WalkInv /\ [SiteNext]_siteVars => WalkInv'
  BY WalkInvNext
<1>3. WalkInv => WalkComplete
  BY DEF WalkInv, WalkComplete
<1> QED BY <1>1, <1>2, <1>3, PTL DEF SiteSpec
-----------------------------------------------------------------------------
(* The types of the values of a form, of which some inputs may be missing. *)
Typed(v) ==
    /\ \A n \in TextInputs \cap DOMAIN v : v[n] \in Texts[n] \cup {""}
    /\ "stamp" \in DOMAIN v => v["stamp"] \in Range(Timestamp) \cup {""}
    /\ \A n \in Boxes \cap DOMAIN v : v[n] \in BOOLEAN

FormTypes ==
    /\ DOMAIN value = Inputs /\ Typed(value)
    /\ disabled \subseteq Inputs \ {"stamp"}
    /\ nameless \subseteq Inputs
    /\ cached # <<>> => DOMAIN cached[1] \subseteq Inputs /\ Typed(cached[1])
    /\ sent # <<>> => DOMAIN sent[1] \subseteq Inputs \ Boxes
    /\ again \in BOOLEAN

LEMMA FormTypesHold == FormTypes => FormTypeOK
BY DEF FormTypes, FormTypeOK, Typed, Inputs, TextInputs, Boxes

LEMMA EmptyTyped == DOMAIN EmptyForm = Inputs /\ Typed(EmptyForm)
BY DEF Typed, EmptyForm, Inputs, TextInputs, Boxes

LEMMA DisabledTyped ==
    ASSUME NEW v, NEW d, d \subseteq Inputs \ {"stamp"}
    PROVE  Disabled(v, d) \subseteq Inputs \ {"stamp"}
BY DEF Disabled, Inputs, TextInputs, Boxes

(* What is kept of a form has the types of the form, and so has a form     *)
(* that is filled in from it.                                              *)
LEMMA SerializedTyped ==
    ASSUME NEW v, DOMAIN v = Inputs, Typed(v), NEW d, NEW without
    PROVE  /\ DOMAIN Serialized(v, d, without) \subseteq Inputs \ without
           /\ Typed(Serialized(v, d, without))
<1> DEFINE kept == {n \in Inputs \ (d \cup without) : n \in Boxes => v[n]}
           params == Serialized(v, d, without)
<1>1. DOMAIN params = kept /\ \A n \in kept : params[n] = v[n]
  BY DEF Serialized, Restrict
<1>2. kept \subseteq Inputs \ without
  OBVIOUS
<1> HIDE DEF kept, params
<1>3. Typed(params)
  BY <1>1, <1>2 DEF Typed
<1> QED BY <1>1, <1>2, <1>3 DEF params

LEMMA DeserializedTyped ==
    ASSUME NEW params, DOMAIN params \subseteq Inputs, Typed(params)
    PROVE  DOMAIN Deserialized(params) = Inputs /\ Typed(Deserialized(params))
<1> DEFINE v == Deserialized(params)
<1>1. /\ DOMAIN v = Inputs
      /\ \A n \in Inputs : v[n] = IF n \in DOMAIN params THEN params[n] ELSE EmptyForm[n]
  BY DEF Deserialized
<1> HIDE DEF v
<1>2. Typed(v)
  BY <1>1, EmptyTyped DEF Typed
<1> QED BY <1>1, <1>2 DEF v

LEMMA ConvertedTyped ==
    ASSUME NEW v, DOMAIN v = Inputs, Typed(v)
    PROVE  DOMAIN Converted(v) = Inputs /\ Typed(Converted(v))
<1>1. CASE v["dated"] /\ v["date"] # ""
  <2> DEFINE w == Converted(v)
  <2>1. "date" \in Inputs /\ "stamp" \in Inputs /\ "date" \in TextInputs
    BY DEF Inputs, TextInputs
  <2>2. v["date"] \in Texts["date"]
    BY <1>1, <2>1 DEF Typed
  <2>3. Timestamp[v["date"]] \in Range(Timestamp)
    BY <2>2, FormAssumption DEF Range
  <2>4. /\ DOMAIN w = Inputs
        /\ w["date"] = "" /\ w["stamp"] = Timestamp[v["date"]]
        /\ \A n \in Inputs \ {"date", "stamp"} : w[n] = v[n]
    BY <1>1, <2>1 DEF Converted
  <2>5. "stamp" \notin TextInputs /\ "stamp" \notin Boxes /\ "date" \notin Boxes
    BY DEF TextInputs, Boxes
  <2> HIDE DEF w
  <2>6. Typed(w)
    BY <2>3, <2>4, <2>5 DEF Typed
  <2> QED BY <2>4, <2>6 DEF w
<1>2. CASE ~(v["dated"] /\ v["date"] # "")
  BY <1>2 DEF Converted
<1> QED BY <1>1, <1>2

LEMMA ChangeTyped ==
    ASSUME FormTypes, NEW n \in Inputs, NEW x, n # "stamp",
           n \in TextInputs => x \in Texts[n] \cup {""}, n \in Boxes => x \in BOOLEAN,
           Change(n, x)
    PROVE  FormTypes'
<1>1. /\ DOMAIN value' = Inputs /\ value'[n] = x
      /\ \A i \in Inputs \ {n} : value'[i] = value[i]
  BY DEF FormTypes, Change
<1>2. Typed(value)'
  BY <1>1 DEF FormTypes, Typed
<1>3. (disabled \subseteq Inputs \ {"stamp"})'
  BY DisabledTyped DEF FormTypes, Change
<1> QED BY <1>1, <1>2, <1>3 DEF FormTypes, Change

LEMMA ClickTyped == FormTypes /\ Click => FormTypes'
<1> SUFFICES ASSUME FormTypes, Click PROVE FormTypes'
  OBVIOUS
<1> DEFINE v == Converted(value)
           gone == nameless \cup Useless(v)
<1>1. DOMAIN v = Inputs /\ Typed(v)
  BY ConvertedTyped DEF FormTypes
<1>2. gone \subseteq Inputs /\ Boxes \subseteq gone
  BY DEF FormTypes, Useless, Inputs
<1>3. /\ value' = v /\ nameless' = gone /\ cached' = <<Kept(value)>>
      /\ sent' = <<Serialized(v, disabled, gone)>> /\ again' \in BOOLEAN
      /\ disabled' = disabled
  BY DEF Click, FormTypes
<1>4. DOMAIN Kept(value) \subseteq Inputs /\ Typed(Kept(value))
  BY SerializedTyped DEF Kept, FormTypes
<1> HIDE DEF v, gone
<1>5. DOMAIN Serialized(v, disabled, gone) \subseteq Inputs \ Boxes
  BY <1>1, <1>2, SerializedTyped
<1>6. cached'[1] = Kept(value) /\ sent'[1] = Serialized(v, disabled, gone)
  BY <1>3
<1>7. Typed(value)' /\ Typed(cached[1])'
  BY <1>1, <1>3, <1>4, <1>6 DEF Typed
<1>8. disabled \subseteq Inputs \ {"stamp"}
  BY DEF FormTypes
<1> QED BY ONLY <1>1, <1>2, <1>3, <1>4, <1>5, <1>6, <1>7, <1>8 DEF FormTypes

LEMMA ArriveTyped == FormTypes /\ Arrive => FormTypes'
<1> SUFFICES ASSUME FormTypes, Arrive PROVE FormTypes'
  OBVIOUS
<1> DEFINE v == IF cached = <<>> THEN EmptyForm ELSE Deserialized(cached[1])
<1>1. DOMAIN v = Inputs /\ Typed(v)
  BY EmptyTyped, DeserializedTyped DEF FormTypes
<1>2. /\ value' = v /\ disabled' = Disabled(v, {}) /\ nameless' = {} /\ sent' = <<>>
      /\ cached' = cached /\ again' = again
  BY DEF Arrive
<1> HIDE DEF v
<1>3. Disabled(v, {}) \subseteq Inputs \ {"stamp"}
  BY DisabledTyped
<1>4. Typed(value)' /\ (cached # <<>> => Typed(cached[1]))'
  BY <1>1, <1>2 DEF Typed, FormTypes
<1> QED BY <1>1, <1>2, <1>3, <1>4 DEF FormTypes

(* The rows of a page are rows of the table.                               *)
LEMMA PageRows ==
    ASSUME NEW S, NEW key, NEW t, NEW p
    PROVE  RestPage(S, key, t, p) \subseteq S /\ HtmlPage(S, key, t, p) \subseteq S
BY DEF RestPage, HtmlPage, HtmlFetch, Fetch

LEMMA PagingTyped == TypeOK /\ [Next]_vars => TypeOK'
<1> SUFFICES ASSUME TypeOK, [Next]_vars PROVE TypeOK'
  OBVIOUS
<1>1. Result(search) \subseteq table /\ table \subseteq Rows /\ seen \subseteq Rows
  BY DEF Result, TypeOK
<1>2. CASE UNCHANGED vars
  BY <1>2 DEF TypeOK, vars, readerVars
<1>3. ASSUME NEW r \in Rows, Insert(r) PROVE TypeOK'
  BY <1>3 DEF TypeOK, Insert, readerVars
<1>4. CASE Begin
  BY <1>1, <1>4 DEF TypeOK, Begin
<1>5. CASE RestSearch
  <2>1. PICK t \in TieBreaks :
          LET shown == RestPage(Result(search), SortKey(search), t, page)
          IN  /\ seen' = seen \cup shown
              /\ done' = (shown = {})
              /\ page' = IF shown = {} THEN page ELSE page + 1
    BY <1>5 DEF RestSearch
  <2>2. seen' \subseteq Rows
    BY <1>1, <2>1, PageRows
  <2>3. page' \in Nat \ {0} /\ done' \in BOOLEAN
    BY <2>1 DEF TypeOK
  <2> QED BY <1>5, <2>2, <2>3 DEF RestSearch, TypeOK
<1>6. CASE HtmlSearch
  <2>1. PICK t \in TieBreaks :
          LET S == Result(search)
              key == SortKey(search)
              shown == HtmlPage(S, key, t, page)
              last == \/ shown = {}
                      \/ page = BarEnd(page, Cardinality(HtmlFetch(S, key, t, page)))
          IN  /\ seen' = seen \cup shown
              /\ done' = last
              /\ page' = IF last THEN page ELSE NextPage(page)
    BY <1>6 DEF HtmlSearch
  <2>2. seen' \subseteq Rows
    BY <1>1, <2>1, PageRows
  <2>3. page' \in Nat \ {0} /\ done' \in BOOLEAN
    BY <2>1 DEF TypeOK, NextPage
  <2> QED BY <1>6, <2>2, <2>3 DEF HtmlSearch, TypeOK
<1> QED BY <1>2, <1>3, <1>4, <1>5, <1>6 DEF Next

LEMMA SiteTypesNext ==
    TypeOK /\ FormTypes /\ reading \in BOOLEAN /\ [SiteNext]_siteVars
      => (TypeOK /\ FormTypes /\ reading \in BOOLEAN)'
<1> SUFFICES ASSUME TypeOK, FormTypes, reading \in BOOLEAN, [SiteNext]_siteVars
             PROVE  (TypeOK /\ FormTypes /\ reading \in BOOLEAN)'
  OBVIOUS
<1>1. UNCHANGED formVars => FormTypes'
  BY DEF FormTypes, Typed, formVars
<1>2. UNCHANGED vars => TypeOK'
  BY DEF TypeOK, vars, readerVars
<1>3. CASE UNCHANGED siteVars
  BY <1>1, <1>2, <1>3 DEF siteVars
<1>4. CASE AtForm
  <2>1. ASSUME NEW n \in TextInputs, NEW x \in Texts[n] \cup {""}, Type(n, x) PROVE FormTypes'
    <3>1. n \in Inputs /\ n # "stamp" /\ n \notin Boxes
      BY DEF Inputs, TextInputs, Boxes
    <3> QED BY <2>1, <3>1, ChangeTyped DEF Type
  <2>2. ASSUME NEW n \in Boxes, Toggle(n) PROVE FormTypes'
    <3>1. n \in Inputs /\ n # "stamp" /\ n \notin TextInputs
      BY DEF Inputs, TextInputs, Boxes
    <3>2. (~value[n]) \in BOOLEAN
      OBVIOUS
    <3> QED BY <2>2, <3>1, <3>2, ChangeTyped DEF Toggle
  <2>3. FormTypes'
    BY <1>4, <2>1, <2>2, ClickTyped, ArriveTyped DEF AtForm, FormNext
  <2> QED BY <1>2, <1>4, <2>3 DEF AtForm
<1>5. CASE ToResults
  <2>1. DOMAIN search' = Parameters
    BY <1>5 DEF ToResults, AsSearch, Parameters
  <2>2. FormTypes'
    <3>1. /\ value' = EmptyForm /\ disabled' = Disabled(EmptyForm, {}) /\ nameless' = {}
          /\ cached' = <<>> /\ sent' = <<>> /\ again' = FALSE
      BY <1>5 DEF ToResults
    <3>2. Typed(value)'
      BY <3>1, EmptyTyped DEF Typed
    <3>3. disabled' \subseteq Inputs \ {"stamp"}
      BY <3>1, DisabledTyped
    <3> QED BY <3>1, <3>2, <3>3, EmptyTyped DEF FormTypes
  <2> QED BY <1>5, <2>1, <2>2 DEF ToResults, TypeOK
<1>6. CASE AtResults
  BY <1>1, <1>6, PagingTyped DEF AtResults
<1> QED BY <1>3, <1>4, <1>5, <1>6 DEF SiteNext

(* Every variable of the search page has its type, also when the reader    *)
(* clicks twice on one page.                                               *)
THEOREM SiteTypeCorrect == SiteSpec => []SiteTypeOK
<1>1. SiteInit => TypeOK /\ FormTypes /\ reading \in BOOLEAN
  <2> SUFFICES ASSUME SiteInit PROVE TypeOK /\ FormTypes
    BY DEF SiteInit
  <2>1. TypeOK
    <3>1. DOMAIN search = Parameters
      BY SearchAssumption DEF SiteInit, Init
    <3>2. kind = "none" /\ page = 1 /\ table = {} /\ seen = {} /\ atStart = {}
      BY DEF SiteInit, Init
    <3>3. page \in Nat \ {0}
      BY <3>2
    <3>4. done \in BOOLEAN
      BY DEF SiteInit, Init
    <3> QED BY ONLY <3>1, <3>2, <3>3, <3>4, Zenon DEF TypeOK
  <2>2. FormTypes
    BY EmptyTyped, DisabledTyped DEF SiteInit, FormInit, FormTypes
  <2> QED BY <2>1, <2>2
<1>2. TypeOK /\ FormTypes /\ reading \in BOOLEAN => SiteTypeOK
  BY FormTypesHold DEF SiteTypeOK
<1> QED BY <1>1, <1>2, SiteTypesNext, PTL DEF SiteSpec
=============================================================================
