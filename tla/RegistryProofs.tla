--------------------------- MODULE RegistryProofs ---------------------------
(***************************************************************************)
(* Proofs that INSTANCE settles, that limits are those of the cluster, and *)
(* that no list of names stays incomplete, for any number of requests and  *)
(* any types and files.                                                    *)
(*                                                                         *)
(* The lists stay complete because a request that finds no table has put   *)
(* nothing yet: whoever allocates a table over that of another thread has  *)
(* all types still to put.  So the names that are there and those that one *)
(* of the threads has still to put are always all names.                   *)
(***************************************************************************)
EXTENDS Registry, Functions, TLAPS, WellFoundedInduction

(* A set of types has a first one.                                         *)
LEMMA PlaceType == \A t \in AllTypes : Place(t) \in Nat
<1>1. \A t \in AllTypes : Place(t) \in DOMAIN Types
  BY DEF AllTypes, Place
<1>2. DOMAIN Types = 1 .. Len(Types) /\ Len(Types) \in Nat
  BY RegistryAssumption
<1> QED BY <1>1, <1>2

LEMMA FirstType ==
    ASSUME NEW S \in SUBSET AllTypes, S # {}
    PROVE  First(S) \in S
<1> DEFINE places == {Place(t) : t \in S}
<1>1. places \subseteq Nat /\ places # {}
  BY PlaceType
<1>2. PICK n \in places : \A m \in places : <<m, n>> \notin OpToRel(<, Nat)
  <2> HIDE DEF places
  <2> QED BY <1>1, NatLessThanWellFounded, WFMin, Zenon
<1>3. \A m \in places : ~(m < n)
  BY <1>1, <1>2, Zenon DEF OpToRel
<1>4. \A m \in places : n <= m
  BY <1>1, <1>3
<1>5. \E t \in S : \A u \in S : Place(t) <= Place(u)
  BY <1>4
<1> QED BY <1>5 DEF First

LEMMA SupportedTypes == Supported \subseteq AllTypes
BY RegistryAssumption DEF Supported

-----------------------------------------------------------------------------
(* Where everything is, and what the main thread of the daemon has done.   *)
RegistryInv ==
    /\ TypeOK
    /\ daemon \in {"load", "construct"} <=> made = 0
    /\ daemon = "runs" => instance # 0
    /\ \A r \in Requests : /\ pc[r] = "return" => instance # 0
                           /\ pc[r] = "allocate" => todo[r] # {}
                           /\ pc[r] = "next" => ahead[r] # {}
    /\ LimitsOfCluster

(* What TypeOK says of the registries and of the one a request has.        *)
LEMMA ContextType ==
    ASSUME TypeOK
    PROVE  /\ contexts \in Seq(Contexts) /\ Len(contexts) \in Nat
           /\ DOMAIN contexts = 1 .. Len(contexts)
           /\ \A c \in DOMAIN contexts : /\ contexts[c] \in Contexts
                                         /\ contexts[c].names \in SUBSET Supported
                                         /\ contexts[c].mods \in Nat
           /\ \A r \in Requests : /\ context[r] \in 0 .. Len(contexts)
                                  /\ context[r] # 0 => context[r] \in DOMAIN contexts
<1>1. contexts \in Seq(Contexts)
  BY DEF TypeOK
<1>2. \A r \in Requests : context[r] \in 0 .. Len(contexts)
  BY DEF TypeOK
<1>3. /\ Len(contexts) \in Nat /\ DOMAIN contexts = 1 .. Len(contexts)
      /\ \A c \in DOMAIN contexts : contexts[c] \in Contexts
  BY <1>1
<1>4. \A c \in Contexts : c.names \in SUBSET Supported /\ c.mods \in Nat
  BY DEF Contexts
<1> QED BY <1>1, <1>2, <1>3, <1>4

(* A new registry comes last and takes nothing from those before it.       *)
LEMMA Appended ==
    ASSUME TypeOK, contexts' = Append(contexts, NewContext)
    PROVE  /\ contexts' \in Seq(Contexts)
           /\ Len(contexts) \in Nat
           /\ Len(contexts') = Len(contexts) + 1
           /\ \A i \in 1 .. Len(contexts) : contexts'[i] = contexts[i]
           /\ contexts'[Len(contexts')] = NewContext
           /\ NewContext \in Contexts
<1>1. NewContext \in Contexts
  BY DEF TypeOK, Contexts, NewContext
<1>2. contexts \in Seq(Contexts)
  BY DEF TypeOK
<1> HIDE DEF NewContext
<1> QED BY <1>1, <1>2

LEMMA WithType ==
    ASSUME NEW c \in Contexts, NEW kept \in SUBSET Supported, NEW t \in Supported
    PROVE  /\ With(c, kept, t) \in Contexts
           /\ With(c, kept, t).names = kept \cup {t}
           /\ With(c, kept, t).limits = c.limits
<1>1. c.mods \in Nat /\ c = [limits |-> c.limits, names |-> c.names, mods |-> c.mods]
  BY DEF Contexts
<1>2. DOMAIN c = {"limits", "names", "mods"}
  BY DEF Contexts
<1>3. /\ DOMAIN With(c, kept, t) = {"limits", "names", "mods"}
      /\ With(c, kept, t).names = kept \cup {t}
      /\ With(c, kept, t).limits = c.limits
      /\ With(c, kept, t).mods \in Nat
  BY <1>1, <1>2 DEF With
<1> QED BY <1>3 DEF Contexts, With

(* A request that puts names changes them and their count in its registry. *)
LEMMA PutNames ==
    ASSUME TypeOK, NEW r \in Requests, context[r] # 0, todo[r] # {},
           NEW kept \in SUBSET Supported, Put(r, kept)
    PROVE  /\ First(todo[r]) \in todo[r]
           /\ contexts' \in Seq(Contexts)
           /\ DOMAIN contexts' = DOMAIN contexts
           /\ Len(contexts') = Len(contexts)
           /\ context[r] \in DOMAIN contexts
           /\ contexts'[context[r]].names = kept \cup {First(todo[r])}
           /\ contexts'[context[r]].limits = contexts[context[r]].limits
           /\ \A c \in DOMAIN contexts \ {context[r]} : contexts'[c] = contexts[c]
           /\ todo' = [todo EXCEPT ![r] = @ \ {First(todo[r])}]
           /\ todo' \in [Requests -> SUBSET Supported]
<1> DEFINE t == First(todo[r])
           old == contexts[context[r]]
           new == With(old, kept, t)
<1>1. todo[r] \in SUBSET Supported
  BY DEF TypeOK
<1>2. t \in todo[r]
  BY <1>1, FirstType, SupportedTypes
<1>3. /\ contexts \in Seq(Contexts) /\ context[r] \in 1 .. Len(contexts)
      /\ DOMAIN contexts = 1 .. Len(contexts) /\ Len(contexts) \in Nat
      /\ old \in Contexts
  BY ContextType
<1>4. new \in Contexts /\ new.names = kept \cup {t} /\ new.limits = old.limits
  <2> HIDE DEF t, old
  <2>1. t \in Supported /\ old \in Contexts
    BY <1>1, <1>2, <1>3
  <2> QED BY ONLY <2>1, WithType, kept \in SUBSET Supported
<1>5. contexts' = [contexts EXCEPT ![context[r]] = new] /\ todo' = [todo EXCEPT ![r] = @ \ {t}]
  BY DEF Put
<1> HIDE DEF t, new
<1>6. /\ contexts' \in Seq(Contexts) /\ Len(contexts') = Len(contexts)
      /\ DOMAIN contexts' = DOMAIN contexts /\ contexts'[context[r]] = new
      /\ \A c \in DOMAIN contexts \ {context[r]} : contexts'[c] = contexts[c]
  BY <1>3, <1>4, <1>5
<1>7. todo' \in [Requests -> SUBSET Supported]
  BY <1>1, <1>5 DEF TypeOK
<1> QED BY <1>2, <1>3, <1>4, <1>5, <1>6, <1>7 DEF t

(* The last limits of a registry change nothing else of it.                *)
LEMMA FinishLimits ==
    ASSUME TypeOK, NEW r \in Requests, Finish(r)
    PROVE  /\ contexts' \in Seq(Contexts)
           /\ DOMAIN contexts' = DOMAIN contexts
           /\ Len(contexts') = Len(contexts)
           /\ context[r] \in DOMAIN contexts
           /\ contexts'[context[r]].limits = contexts[context[r]].limits \cup {blockSize}
           /\ \A c \in DOMAIN contexts \ {context[r]} : contexts'[c] = contexts[c]
           /\ \A c \in DOMAIN contexts : contexts'[c].names = contexts[c].names
<1> DEFINE old == contexts[context[r]]
           new == [old EXCEPT !.limits = @ \cup {blockSize}]
<1>1. context[r] # 0
  BY DEF Finish, TypeOK
<1>2. /\ contexts \in Seq(Contexts) /\ context[r] \in 1 .. Len(contexts)
      /\ DOMAIN contexts = 1 .. Len(contexts) /\ Len(contexts) \in Nat
      /\ old \in Contexts
  BY <1>1, ContextType
<1>3. new \in Contexts /\ new.names = old.names /\ new.limits = old.limits \cup {blockSize}
  <2>1. blockSize \in {"default", "cluster"}
    BY DEF TypeOK
  <2> HIDE DEF old
  <2> QED BY <1>2, <2>1 DEF Contexts
<1>4. contexts' = [contexts EXCEPT ![context[r]] = new]
  BY DEF Finish
<1> HIDE DEF new
<1> QED BY <1>2, <1>3, <1>4

LEMMA RegistryInvInit == Init => RegistryInv
<1> SUFFICES ASSUME Init PROVE RegistryInv
  OBVIOUS
<1>1. contexts \in Seq(Contexts) /\ Len(contexts) = 0
  BY DEF Init
<1> QED BY <1>1 DEF Init, RegistryInv, TypeOK, LimitsOfCluster

(* A registry more leaves everything typed.                                *)
LEMMA MoreContexts ==
    ASSUME TypeOK, contexts' \in Seq(Contexts), Len(contexts') = Len(contexts) + 1
    PROVE  /\ instance \in 0 .. Len(contexts') /\ made \in 0 .. Len(contexts')
           /\ context \in [Requests -> 0 .. Len(contexts')]
           /\ Len(contexts') \in 1 .. Len(contexts')
<1>1. Len(contexts) \in Nat
  BY ContextType
<1>2. 0 .. Len(contexts) \subseteq 0 .. Len(contexts') /\ Len(contexts') \in 1 .. Len(contexts')
  BY <1>1
<1>3. /\ instance \in 0 .. Len(contexts) /\ made \in 0 .. Len(contexts)
      /\ context \in [Requests -> 0 .. Len(contexts)]
  BY DEF TypeOK
<1> QED BY <1>2, <1>3

LEMMA RegistryInvNext == RegistryInv /\ [Next]_vars => RegistryInv'
<1> SUFFICES ASSUME RegistryInv, [Next]_vars PROVE RegistryInv'
  OBVIOUS
<1> USE DEF RegistryInv
<1>0. /\ Len(contexts) \in Nat /\ DOMAIN contexts = 1 .. Len(contexts)
      /\ made \in 0 .. Len(contexts)
  BY ContextType DEF TypeOK
<1>1. CASE LoadBlockSize
  BY <1>1 DEF LoadBlockSize, TypeOK, LimitsOfCluster, requestVars
<1>2. CASE InitConstruct
  <2>1. /\ contexts' \in Seq(Contexts)
        /\ Len(contexts') = Len(contexts) + 1
        /\ contexts'[Len(contexts')].limits = {blockSize}
    BY <1>2, Appended DEF InitConstruct, NewContext
  <2>2. TypeOK'
    <3>1. /\ instance \in 0 .. Len(contexts')
          /\ context \in [Requests -> 0 .. Len(contexts')]
          /\ Len(contexts') \in 0 .. Len(contexts')
      BY <2>1, MoreContexts
    <3> QED BY <1>2, <2>1, <3>1 DEF InitConstruct, TypeOK, requestVars
  <2>3. LimitsOfCluster'
    BY <1>0, <1>2, <2>1 DEF InitConstruct, LimitsOfCluster
  <2>4. made' # 0
    BY <1>0, <1>2, <2>1 DEF InitConstruct
  <2> QED BY <1>2, <2>2, <2>3, <2>4 DEF InitConstruct, requestVars
<1>3. CASE InitAssign
  BY <1>3 DEF InitAssign, TypeOK, LimitsOfCluster, requestVars
<1>4. ASSUME NEW r \in Requests, Construct(r) PROVE RegistryInv'
  <2>1. /\ contexts' \in Seq(Contexts)
        /\ Len(contexts') = Len(contexts) + 1
        /\ \A i \in 1 .. Len(contexts) : contexts'[i] = contexts[i]
        /\ contexts'[Len(contexts')].limits = {blockSize}
    BY <1>4, Appended DEF Construct, NewContext
  <2>2. /\ instance \in 0 .. Len(contexts') /\ made \in 0 .. Len(contexts')
        /\ context \in [Requests -> 0 .. Len(contexts')]
        /\ Len(contexts') \in 0 .. Len(contexts') /\ Len(contexts') # 0
    BY <2>1, MoreContexts
  <2>3. context' \in [Requests -> 0 .. Len(contexts')] /\ context'[r] # 0
    BY <1>4, <2>2 DEF Construct
  <2>4. TypeOK'
    BY <1>4, <2>1, <2>2, <2>3 DEF Construct, TypeOK
  <2>5. \A c \in made .. Len(contexts') :
           made # 0 => \/ c \in made .. Len(contexts) /\ c \in 1 .. Len(contexts)
                       \/ c = Len(contexts')
    BY <1>0, <2>1
  <2>6. LimitsOfCluster'
    BY <1>0, <1>4, <2>1, <2>5 DEF Construct, LimitsOfCluster
  <2> QED BY <1>4, <2>1, <2>4, <2>6 DEF Construct, TypeOK
<1>5. ASSUME NEW r \in Requests, Put(r, Names(r)) \/ Put(r, {}), todo[r] # {},
             pc[r] \in {"fill", "allocate"}, pc' = [pc EXCEPT ![r] = "fill"],
             UNCHANGED <<daemon, blockSize, instance, made, context, expected, ahead,
                         shown, calm>>
      PROVE  RegistryInv'
  <2>0. context[r] # 0
    BY <1>5 DEF TypeOK
  <2>1. PICK kept \in SUBSET Supported : Put(r, kept)
    <3>1. Names(r) \in SUBSET Supported
      BY <2>0, ContextType DEF Names
    <3> QED BY <1>5, <3>1
  <2>2. /\ contexts' \in Seq(Contexts) /\ Len(contexts') = Len(contexts)
        /\ DOMAIN contexts' = DOMAIN contexts
        /\ context[r] \in DOMAIN contexts
        /\ contexts'[context[r]].limits = contexts[context[r]].limits
        /\ \A c \in DOMAIN contexts \ {context[r]} : contexts'[c] = contexts[c]
        /\ todo' = [todo EXCEPT ![r] = @ \ {First(todo[r])}]
        /\ todo' \in [Requests -> SUBSET Supported]
    BY <1>5, <2>0, <2>1, PutNames
  <2>3. \A c \in DOMAIN contexts : contexts'[c].limits = contexts[c].limits
    BY <2>2
  <2>4. TypeOK'
    BY <1>5, <2>0, <2>2 DEF TypeOK
  <2>5. \A c \in made .. Len(contexts) : made # 0 => c \in DOMAIN contexts
    BY <1>0
  <2>6. LimitsOfCluster'
    BY <1>5, <2>2, <2>3, <2>5 DEF LimitsOfCluster
  <2>7. \A q \in Requests : /\ pc'[q] = "return" => pc[q] = "return"
                            /\ pc'[q] = "next" => pc[q] = "next"
                            /\ pc'[q] = "allocate" => pc[q] = "allocate" /\ todo'[q] = todo[q]
    BY <1>5, <2>2 DEF TypeOK
  <2> QED BY <1>5, <2>4, <2>6, <2>7
<1>6. ASSUME NEW r \in Requests, FillPut(r) \/ Allocate(r) PROVE RegistryInv'
  <2>1. CASE Allocate(r)
    BY <1>5, <2>1 DEF Allocate
  <2>2. CASE FillPut(r) /\ Names(r) # {}
    <3>1. pc' = [pc EXCEPT ![r] = "fill"]
      BY <2>2 DEF FillPut, TypeOK
    <3> QED BY <1>5, <2>2, <3>1 DEF FillPut
  <2>3. CASE FillPut(r) /\ Names(r) = {}
    BY <2>3 DEF FillPut, TypeOK, LimitsOfCluster
  <2> QED BY <1>6, <2>1, <2>2, <2>3
<1>7. ASSUME NEW r \in Requests, Ask(r) \/ Assign(r) \/ Return(r) PROVE RegistryInv'
  <2>1. CASE Ask(r)
    <3>1. Quiet \in BOOLEAN
      BY DEF Quiet
    <3>2. calm' \in [Requests -> BOOLEAN]
      BY <2>1, <3>1 DEF Ask, TypeOK
    <3>3. TypeOK'
      BY <2>1, <3>2 DEF Ask, TypeOK
    <3> QED BY <2>1, <3>3 DEF Ask, TypeOK, LimitsOfCluster
  <2>2. CASE Assign(r)
    BY <2>2 DEF Assign, TypeOK, LimitsOfCluster
  <2>3. CASE Return(r)
    BY <2>3 DEF Return, TypeOK, LimitsOfCluster
  <2> QED BY <1>7, <2>1, <2>2, <2>3
<1>8. ASSUME NEW r \in Requests, AskNames(r) PROVE RegistryInv'
  BY <1>8 DEF AskNames, TypeOK, LimitsOfCluster
<1>9. ASSUME NEW r \in Requests, StartIterator(r) \/ NextEntry(r) \/ Modified(r)
      PROVE  RegistryInv'
  <2>1. CASE StartIterator(r)
    <3>1. context[r] # 0
      BY <2>1 DEF StartIterator, TypeOK
    <3>2. contexts[context[r]].mods \in Nat
      BY <3>1, ContextType
    <3> DEFINE S == From(Supported, Names(r))
    <3>3. S \in SUBSET Supported
      BY DEF From
    <3> HIDE DEF S
    <3> QED BY <2>1, <3>1, <3>2, <3>3 DEF StartIterator, MoveTo, TypeOK, LimitsOfCluster, S
  <2>2. CASE NextEntry(r)
    <3> DEFINE t == First(ahead[r])
               S == From(ahead[r] \ {t}, Names(r))
    <3>1. ahead[r] \in SUBSET Supported /\ ahead[r] # {}
      BY <2>2 DEF NextEntry, TypeOK
    <3>2. t \in Supported
      BY <3>1, FirstType, SupportedTypes
    <3>3. S \in SUBSET Supported
      BY <3>1 DEF From
    <3>4. shown' \in [Requests -> SUBSET Supported]
      BY <2>2, <3>2 DEF NextEntry, TypeOK
    <3> HIDE DEF t, S
    <3>5. /\ ahead' = [ahead EXCEPT ![r] = S]
          /\ pc' = [pc EXCEPT ![r] = IF S = {} THEN "done" ELSE "next"]
      BY <2>2 DEF NextEntry, MoveTo, t, S
    <3> QED BY <2>2, <3>3, <3>4, <3>5 DEF NextEntry, TypeOK, LimitsOfCluster
  <2>3. CASE Modified(r)
    BY <2>3 DEF Modified, TypeOK, LimitsOfCluster
  <2> QED BY <1>9, <2>1, <2>2, <2>3
<1>10. CASE UNCHANGED vars
  BY <1>10 DEF vars, requestVars, TypeOK, LimitsOfCluster
<1>11. ASSUME NEW r \in Requests, Finish(r) PROVE RegistryInv'
  <2>1. /\ contexts' \in Seq(Contexts) /\ Len(contexts') = Len(contexts)
        /\ DOMAIN contexts' = DOMAIN contexts
        /\ \A c \in DOMAIN contexts :
              contexts'[c].limits \in {contexts[c].limits, contexts[c].limits \cup {blockSize}}
    BY <1>11, FinishLimits
  <2>2. TypeOK'
    BY <1>11, <2>1 DEF Finish, TypeOK
  <2>3. \A c \in made .. Len(contexts) : made # 0 => c \in DOMAIN contexts
    BY <1>0
  <2>4. LimitsOfCluster'
    BY <1>11, <2>1, <2>3 DEF Finish, LimitsOfCluster
  <2> QED BY <1>11, <2>2, <2>4 DEF Finish, TypeOK
<1> QED BY <1>1, <1>2, <1>3, <1>4, <1>6, <1>7, <1>8, <1>9, <1>10, <1>11 DEF Next, Request

LEMMA RegistryInvariant == Spec => []RegistryInv
<1>1. Init => RegistryInv
  BY RegistryInvInit
<1>2. RegistryInv /\ [Next]_vars => RegistryInv'
  BY RegistryInvNext
<1> QED BY <1>1, <1>2, PTL DEF Spec

(* Every variable of the registry has its type, and a request that has     *)
(* gone past instance() has a registry to work with.                       *)
THEOREM RegistryTypes == Spec => []TypeOK
<1>1. RegistryInv => TypeOK
  BY DEF RegistryInv
<1> QED BY <1>1, RegistryInvariant, PTL

(* The block size is read before the daemon makes its registry, so it and  *)
(* those that come after it judge file sizes by the block size of the      *)
(* cluster, however many requests make registries meanwhile.               *)
THEOREM LimitsFollowCluster == Spec => []LimitsOfCluster
<1>1. RegistryInv => LimitsOfCluster
  BY DEF RegistryInv
<1> QED BY <1>1, RegistryInvariant, PTL

-----------------------------------------------------------------------------
(* Once the daemon runs and no request makes a registry, INSTANCE is the   *)
(* same for ever.                                                          *)
LEMMA SettledStep ==
    ASSUME RegistryInv, [Next]_vars, Settled
    PROVE  /\ Settled' /\ instance' = instance /\ Len(contexts') = Len(contexts)
           /\ \A r \in Requests : ~Construct(r) /\ ~Finish(r) /\ ~Assign(r)
           /\ ~LoadBlockSize /\ ~InitConstruct /\ ~InitAssign
<1> USE DEF Settled
<1>1. ~LoadBlockSize /\ ~InitConstruct /\ ~InitAssign
  BY DEF LoadBlockSize, InitConstruct, InitAssign
<1>2. \A r \in Requests : ~Construct(r) /\ ~Finish(r) /\ ~Assign(r)
  BY DEF Construct, Finish, Assign
<1>3. pc \in [Requests -> Range(pc)] /\ instance # 0
  BY DEF RegistryInv, TypeOK, Range
<1>4. CASE UNCHANGED vars
  BY <1>1, <1>2, <1>4 DEF vars, requestVars
<1>5. ASSUME NEW r \in Requests, FillPut(r) \/ Allocate(r)
      PROVE  Settled' /\ instance' = instance /\ Len(contexts') = Len(contexts)
  <2>1. context[r] # 0
    BY <1>5 DEF FillPut, Allocate, RegistryInv, TypeOK
  <2>2. Len(contexts') = Len(contexts)
    <3>1. CASE contexts' = contexts
      BY <3>1
    <3>2. CASE contexts' # contexts
      <4>1. Put(r, Names(r)) \/ Put(r, {})
        BY <1>5, <3>2 DEF FillPut, Allocate
      <4>2. Names(r) \in SUBSET Supported /\ {} \in SUBSET Supported
        BY <2>1, ContextType DEF RegistryInv, Names
      <4>3. todo[r] # {}
        BY <1>5 DEF FillPut, Allocate, RegistryInv
      <4> QED BY <2>1, <4>1, <4>2, <4>3, PutNames DEF RegistryInv
    <3> QED BY <3>1, <3>2
  <2> QED BY <1>3, <1>5, <2>2 DEF FillPut, Allocate
<1>6. ASSUME NEW r \in Requests,
             Ask(r) \/ Return(r) \/ AskNames(r) \/ StartIterator(r) \/ NextEntry(r) \/ Modified(r)
      PROVE  Settled' /\ instance' = instance /\ Len(contexts') = Len(contexts)
  BY <1>3, <1>6 DEF Ask, Return, AskNames, StartIterator, NextEntry, MoveTo, Modified
<1> QED BY <1>1, <1>2, <1>4, <1>5, <1>6 DEF Next, Request

(* After the daemon has made its registry, and while no request makes one, *)
(* INSTANCE never changes again and no registry is made.                   *)
THEOREM InstanceStays == Spec => InstanceSettles
<1>1. RegistryInv /\ [Next]_vars => [Settled => Settled' /\ UNCHANGED <<instance, Len(contexts)>>]_vars
  BY SettledStep
<1> QED BY <1>1, RegistryInvariant, PTL DEF Spec, InstanceSettles

-----------------------------------------------------------------------------
(* A request that has all types still to put has put none; the names in a  *)
(* registry and those some request has still to put there are all names.   *)
NoneYet(r) ==
    /\ pc[r] = "allocate" => todo[r] = Supported
    /\ pc[r] = "fill" => todo[r] = Supported \/ Names(r) # {}

Fills(r, c) == context[r] = c /\ Filling(r) /\ contexts[c].names \cup todo[r] = Supported

NamesInv ==
    /\ \A r \in Requests : NoneYet(r)
    /\ \A c \in DOMAIN contexts :
          contexts[c].names \in {{}, Supported} \/ \E r \in Requests : Fills(r, c)

LEMMA NamesInvInit == Init => NamesInv
BY DEF Init, NamesInv, NoneYet

(* Requests that are not filling may move, and registries may be added.    *)
LEMMA NamesKept ==
    ASSUME RegistryInv, NamesInv, NEW R \in SUBSET Requests,
           \A q \in R : ~Filling(q) /\ NoneYet(q)',
           \A q \in Requests \ R :
              pc'[q] = pc[q] /\ context'[q] = context[q] /\ todo'[q] = todo[q],
           \A c \in DOMAIN contexts :
              c \in DOMAIN contexts' /\ contexts'[c].names = contexts[c].names,
           \A c \in DOMAIN contexts' \ DOMAIN contexts : contexts'[c].names = {}
    PROVE  NamesInv'
<1>1. ASSUME NEW q \in Requests PROVE NoneYet(q)'
  <2>1. CASE q \in R
    BY <2>1
  <2>2. CASE q \notin R /\ pc[q] \in {"fill", "allocate"}
    <3>1. context[q] \in DOMAIN contexts
      BY <2>2, ContextType DEF RegistryInv, TypeOK
    <3> QED BY <2>2, <3>1 DEF NamesInv, NoneYet, Names
  <2>3. CASE q \notin R /\ pc[q] \notin {"fill", "allocate"}
    BY <2>3 DEF NoneYet
  <2> QED BY <2>1, <2>2, <2>3
<1>2. ASSUME NEW c \in DOMAIN contexts, NEW q \in Requests, Fills(q, c) PROVE Fills(q, c)'
  BY <1>2 DEF Fills, Filling
<1>3. ASSUME NEW c \in DOMAIN contexts'
      PROVE  contexts'[c].names \in {{}, Supported} \/ \E r \in Requests : Fills(r, c)'
  <2>1. CASE c \in DOMAIN contexts
    BY <1>2, <2>1 DEF NamesInv
  <2>2. CASE c \notin DOMAIN contexts
    BY <1>3, <2>2
  <2> QED BY <2>1, <2>2
<1> QED BY <1>1, <1>3 DEF NamesInv

(* A request that puts names of its registry's lists completes them with   *)
(* what it has still to put: it builds on a list that is empty, on one     *)
(* that is complete with what somebody has still to put, or it has all     *)
(* names still to put.                                                     *)
LEMMA NamesPut ==
    ASSUME RegistryInv, NamesInv, NEW r \in Requests, todo[r] # {},
           NEW kept, Put(r, kept),
           \/ pc[r] = "fill" /\ kept = Names(r) /\ Names(r) # {}
           \/ pc[r] = "allocate" /\ kept = {},
           pc' = [pc EXCEPT ![r] = "fill"], context' = context
    PROVE  NamesInv'
<1> DEFINE t == First(todo[r])
<1>1. PICK here \in DOMAIN contexts :
         here # 0 /\ here = context[r] /\ contexts[here].names \in SUBSET Supported
  BY ContextType DEF RegistryInv, TypeOK
<1>2. kept \in SUBSET Supported
  BY <1>1 DEF Names
<1>3. /\ t \in todo[r] /\ todo[r] \subseteq Supported
      /\ DOMAIN contexts' = DOMAIN contexts
      /\ contexts'[here].names = kept \cup {t}
      /\ \A c \in DOMAIN contexts \ {here} : contexts'[c] = contexts[c]
      /\ todo' = [todo EXCEPT ![r] = @ \ {t}]
  BY <1>1, <1>2, PutNames DEF RegistryInv, TypeOK
<1>4. /\ pc'[r] = "fill" /\ todo'[r] = todo[r] \ {t}
      /\ \A q \in Requests \ {r} : pc'[q] = pc[q] /\ todo'[q] = todo[q]
  BY <1>3 DEF RegistryInv, TypeOK
<1> HIDE DEF t
<1>5. ASSUME NEW q \in Requests PROVE NoneYet(q)'
  <2>1. CASE context[q] = here /\ (q = r \/ pc[q] # "allocate")
    BY <1>1, <1>3, <1>4, <2>1 DEF NoneYet, Names
  <2>2. CASE q # r /\ pc[q] = "allocate"
    BY <1>1, <1>4, <2>2 DEF NamesInv, NoneYet
  <2>3. CASE q # r /\ context[q] # here /\ pc[q] = "fill"
    <3>1. context[q] \in DOMAIN contexts
      BY <1>1, <2>3, ContextType DEF RegistryInv, TypeOK
    <3> QED BY <1>1, <1>3, <1>4, <2>3, <3>1 DEF NamesInv, NoneYet, Names
  <2>4. CASE q # r /\ pc[q] \notin {"fill", "allocate"}
    BY <1>1, <1>4, <2>4 DEF NoneYet
  <2> QED BY <1>1, <2>1, <2>2, <2>3, <2>4
<1>6. ASSUME NEW c \in DOMAIN contexts, c # here
      PROVE  contexts'[c].names \in {{}, Supported} \/ \E q \in Requests : Fills(q, c)'
  <2>1. ASSUME NEW q \in Requests, Fills(q, c) PROVE Fills(q, c)'
    BY <1>1, <1>3, <1>4, <1>6, <2>1 DEF Fills, Filling
  <2> QED BY <1>1, <1>3, <1>6, <2>1 DEF NamesInv
<1>7. contexts'[here].names \in {{}, Supported} \/ \E q \in Requests : Fills(q, here)'
  <2>1. CASE kept \cup todo[r] = Supported
    <3>1. contexts'[here].names \cup todo'[r] = Supported
      BY <1>1, <1>2, <1>3, <1>4, <2>1
    <3> QED BY <1>1, <1>4, <3>1 DEF Fills, Filling
  <2>2. CASE kept = Supported
    BY <1>1, <1>3, <2>2
  <2>3. CASE \E q \in Requests \ {r} : Fills(q, here) /\ kept = contexts[here].names
    <3>1. PICK q \in Requests \ {r} : Fills(q, here) /\ kept = contexts[here].names
      BY <1>1, <2>3
    <3>2. contexts'[here].names \cup todo[q] = Supported
      BY <1>1, <1>2, <1>3, <3>1 DEF Fills
    <3>3. /\ context'[q] = here /\ pc'[q] = pc[q] /\ todo'[q] = todo[q]
          /\ pc[q] \in {"fill", "allocate"} /\ todo[q] # {}
      BY <1>1, <1>4, <3>1 DEF Fills, Filling
    <3>4. Fills(q, here)'
      BY <1>1, <3>2, <3>3 DEF Fills, Filling
    <3> QED BY <1>1, <3>4
  <2>4. CASE pc[r] = "allocate"
    BY <1>1, <2>1, <2>4 DEF NamesInv, NoneYet
  <2>5. CASE pc[r] = "fill"
    <3>1. kept = contexts[here].names /\ kept # {}
      BY <1>1, <2>5 DEF Names
    <3>2. kept = Supported \/ \E q \in Requests : Fills(q, here)
      BY <1>1, <3>1 DEF NamesInv
    <3>3. CASE Fills(r, here)
      BY <1>1, <2>1, <3>1, <3>3 DEF Fills
    <3> QED BY <1>1, <2>2, <2>3, <3>1, <3>2, <3>3
  <2> QED BY <1>1, <2>4, <2>5
<1>8. \A c \in DOMAIN contexts' :
         contexts'[c].names \in {{}, Supported} \/ \E q \in Requests : Fills(q, c)'
  BY <1>3, <1>6, <1>7
<1> QED BY <1>5, <1>8 DEF NamesInv

LEMMA NamesInvNext == RegistryInv /\ NamesInv /\ [Next]_vars => NamesInv'
<1> SUFFICES ASSUME RegistryInv, NamesInv, [Next]_vars PROVE NamesInv'
  OBVIOUS
<1>0. TypeOK /\ Len(contexts) \in Nat /\ DOMAIN contexts = 1 .. Len(contexts)
  BY ContextType DEF RegistryInv
<1>1. CASE LoadBlockSize \/ InitAssign \/ UNCHANGED vars
  BY <1>1 DEF LoadBlockSize, InitAssign, vars, requestVars, NamesInv, NoneYet, Names, Fills, Filling
<1>2. ASSUME contexts' = Append(contexts, NewContext)
      PROVE  /\ \A c \in DOMAIN contexts : c \in DOMAIN contexts' /\ contexts'[c] = contexts[c]
             /\ \A c \in DOMAIN contexts' \ DOMAIN contexts : contexts'[c].names = {}
  <2>1. /\ contexts' \in Seq(Contexts) /\ Len(contexts') = Len(contexts) + 1
        /\ \A i \in 1 .. Len(contexts) : contexts'[i] = contexts[i]
        /\ contexts'[Len(contexts')].names = {}
    BY <1>0, <1>2, Appended DEF NewContext
  <2>2. DOMAIN contexts' = 1 .. Len(contexts')
    BY <2>1
  <2> QED BY <1>0, <2>1, <2>2
<1>3. CASE InitConstruct
  BY <1>2, <1>3, NamesKept DEF InitConstruct, requestVars
<1>4. ASSUME NEW r \in Requests, Construct(r) PROVE NamesInv'
  <2>1. ~Filling(r) /\ NoneYet(r)'
    BY <1>0, <1>4 DEF Construct, Filling, NoneYet, TypeOK
  <2>2. \A q \in Requests \ {r} : pc'[q] = pc[q] /\ context'[q] = context[q] /\ todo'[q] = todo[q]
    BY <1>0, <1>4 DEF Construct, TypeOK
  <2>3. contexts' = Append(contexts, NewContext)
    BY <1>4 DEF Construct
  <2>4. {r} \in SUBSET Requests /\ \A q \in {r} : ~Filling(q) /\ NoneYet(q)'
    BY <2>1
  <2> QED BY <1>2, <2>2, <2>3, <2>4, NamesKept
<1>5. ASSUME NEW r \in Requests,
             \/ Ask(r) \/ Assign(r) \/ Return(r) \/ AskNames(r)
             \/ StartIterator(r) \/ NextEntry(r) \/ Modified(r)
      PROVE  NamesInv'
  <2> USE <1>0 DEF TypeOK
  <2>1. contexts' = contexts
    BY <1>5 DEF Ask, Assign, Return, AskNames, StartIterator, NextEntry, Modified
  <2>2. ~Filling(r)
    BY <1>5 DEF Ask, Assign, Return, AskNames, StartIterator, NextEntry, Modified, Filling
  <2>3. \A q \in Requests \ {r} : pc'[q] = pc[q] /\ context'[q] = context[q] /\ todo'[q] = todo[q]
    BY <1>5 DEF Ask, Assign, Return, AskNames, StartIterator, NextEntry, MoveTo, Modified
  <2>4. NoneYet(r)'
    <3>1. CASE AskNames(r)
      <4>1. /\ pc'[r] = "fill" /\ context'[r] = context[r]
            /\ todo'[r] = IF Names(r) = {} THEN Supported ELSE {}
        BY <3>1 DEF AskNames
      <4> QED BY <2>1, <4>1 DEF NoneYet, Names
    <3>2. CASE ~AskNames(r)
      <4>1. pc'[r] \notin {"fill", "allocate"}
        BY <1>5, <3>2 DEF Ask, Assign, Return, StartIterator, NextEntry, MoveTo, Modified
      <4> QED BY <4>1 DEF NoneYet
    <3> QED BY <3>1, <3>2
  <2>5. {r} \in SUBSET Requests /\ \A q \in {r} : ~Filling(q) /\ NoneYet(q)'
    BY <2>2, <2>4
  <2> QED BY <2>1, <2>3, <2>5, NamesKept
<1>6. ASSUME NEW r \in Requests, Allocate(r) PROVE NamesInv'
  <2>1. todo[r] # {}
    BY <1>6 DEF Allocate, RegistryInv
  <2> QED BY <1>6, <2>1, NamesPut DEF Allocate
<1>7. ASSUME NEW r \in Requests, FillPut(r) PROVE NamesInv'
  <2>1. CASE Names(r) # {}
    <3>1. pc' = [pc EXCEPT ![r] = "fill"]
      BY <1>0, <1>7, <2>1 DEF FillPut, TypeOK
    <3> QED BY <1>7, <2>1, <3>1, NamesPut DEF FillPut
  <2>2. CASE Names(r) = {}
    <3>1. /\ pc' = [pc EXCEPT ![r] = "allocate"] /\ UNCHANGED <<contexts, todo, context>>
          /\ pc[r] = "fill"
      BY <1>7, <2>2 DEF FillPut
    <3>2. todo[r] = Supported
      BY <2>2, <3>1 DEF NamesInv, NoneYet
    <3>3. \A q \in Requests : NoneYet(q)'
      BY <1>0, <3>1, <3>2 DEF NamesInv, NoneYet, Names, TypeOK
    <3>4. \A q \in Requests : Filling(q) => Filling(q)'
      BY <1>0, <3>1 DEF Filling, TypeOK
    <3>5. \A q \in Requests, c \in DOMAIN contexts : Fills(q, c) => Fills(q, c)'
      BY <3>1, <3>4 DEF Fills
    <3> QED BY <3>1, <3>3, <3>5 DEF NamesInv
  <2> QED BY <2>1, <2>2
<1>8. ASSUME NEW r \in Requests, Finish(r) PROVE NamesInv'
  <2>1. ~Filling(r) /\ NoneYet(r)'
    BY <1>0, <1>8 DEF Finish, Filling, NoneYet, TypeOK
  <2>2. \A q \in Requests \ {r} : pc'[q] = pc[q] /\ context'[q] = context[q] /\ todo'[q] = todo[q]
    BY <1>0, <1>8 DEF Finish, TypeOK
  <2>3. /\ DOMAIN contexts' = DOMAIN contexts
        /\ \A c \in DOMAIN contexts : contexts'[c].names = contexts[c].names
    BY <1>0, <1>8, FinishLimits
  <2>4. {r} \in SUBSET Requests /\ \A q \in {r} : ~Filling(q) /\ NoneYet(q)'
    BY <2>1
  <2> QED BY <2>2, <2>3, <2>4, NamesKept
<1> QED BY <1>1, <1>3, <1>4, <1>5, <1>6, <1>7, <1>8 DEF Next, Request

LEMMA NamesInvariant == Spec => []NamesInv
<1>1. Init => NamesInv
  BY NamesInvInit
<1>2. RegistryInv /\ NamesInv /\ [Next]_vars => NamesInv'
  BY NamesInvNext
<1> QED BY <1>1, <1>2, RegistryInvariant, PTL DEF Spec

(* Once no request is at it, a list of names is empty or has every         *)
(* supported type, however requests that filled it crossed.                *)
THEOREM NamesComplete == Spec => []NamesCompleteAtRest
<1>1. NamesInv => NamesCompleteAtRest
  BY DEF NamesInv, NamesCompleteAtRest, Fills, Supported
<1> QED BY <1>1, NamesInvariant, PTL

-----------------------------------------------------------------------------
(* A request that came in quiet keeps what made it quiet: INSTANCE has all *)
(* names and nobody writes to it, not even a request that still fills a    *)
(* registry of before.  Its iterator then meets every entry.               *)
Full ==
    /\ Settled
    /\ instance \in DOMAIN contexts
    /\ contexts[instance].names = Supported
    /\ Supported # {}
    /\ \A r \in Requests : context[r] = instance => ~Filling(r)

CalmAt(r) ==
    /\ Full
    /\ pc[r] \notin {"idle", "allocate", "failed"}
    /\ pc[r] \in {"ask names", "fill", "next", "done"} => context[r] = instance
    /\ pc[r] = "next" => /\ expected[r] = contexts[instance].mods
                         /\ shown[r] \cup ahead[r] = Supported
    /\ pc[r] = "done" => shown[r] = Supported

CalmInv == \A r \in Requests : calm[r] => CalmAt(r)

LEMMA FullStep ==
    ASSUME RegistryInv, [Next]_vars, Full
    PROVE  Full' /\ instance' = instance /\ contexts'[instance] = contexts[instance]
<1>1. /\ Settled' /\ instance' = instance
      /\ \A r \in Requests : ~Construct(r) /\ ~Finish(r) /\ ~Assign(r)
      /\ ~LoadBlockSize /\ ~InitConstruct /\ ~InitAssign
  BY SettledStep DEF Full
<1>2. TypeOK
  BY DEF RegistryInv
<1>3. CASE UNCHANGED vars
  BY <1>1, <1>3 DEF vars, requestVars, Full, Filling
<1>4. ASSUME NEW r \in Requests,
             \/ Ask(r) \/ Return(r) \/ AskNames(r)
             \/ StartIterator(r) \/ NextEntry(r) \/ Modified(r)
      PROVE  Full' /\ contexts' = contexts
  <2>1. /\ contexts' = contexts
        /\ \A q \in Requests \ {r} : pc'[q] = pc[q] /\ context'[q] = context[q] /\ todo'[q] = todo[q]
    BY <1>2, <1>4
       DEF TypeOK, Ask, Return, AskNames, StartIterator, NextEntry, MoveTo, Modified
  <2>2. context'[r] = instance => ~Filling(r)'
    <3>1. CASE AskNames(r)
      <4>1. context'[r] = context[r] /\ todo'[r] = IF Names(r) = {} THEN Supported ELSE {}
        BY <1>2, <3>1 DEF AskNames, TypeOK
      <4> QED BY <4>1 DEF Filling, Names, Full
    <3>2. CASE ~AskNames(r)
      <4>1. pc'[r] \notin {"fill", "allocate"}
        BY <1>2, <1>4, <3>2 DEF TypeOK, Ask, Return, StartIterator, NextEntry, MoveTo, Modified
      <4> QED BY <4>1 DEF Filling
    <3> QED BY <3>1, <3>2
  <2>3. \A q \in Requests : context'[q] = instance => ~Filling(q)'
    BY <2>1, <2>2 DEF Full, Filling
  <2> QED BY <1>1, <2>1, <2>3 DEF Full
<1>5. ASSUME NEW r \in Requests, FillPut(r) \/ Allocate(r)
      PROVE  Full' /\ contexts'[instance] = contexts[instance]
  <2>1. Filling(r)
    BY <1>5 DEF FillPut, Allocate, Filling, RegistryInv
  <2>2. context[r] # instance /\ context[r] # 0
    BY <2>1, <1>2 DEF Full, Filling, TypeOK
  <2>3. contexts'[instance] = contexts[instance] /\ DOMAIN contexts' = DOMAIN contexts
    <3>1. CASE contexts' = contexts
      BY <3>1
    <3>2. CASE contexts' # contexts
      <4>1. Put(r, Names(r)) \/ Put(r, {})
        BY <1>5, <3>2 DEF FillPut, Allocate
      <4>2. Names(r) \in SUBSET Supported /\ {} \in SUBSET Supported
        BY <2>2, <1>2, ContextType DEF Names
      <4> QED BY <1>2, <2>1, <2>2, <4>1, <4>2, PutNames DEF Full, Filling
    <3> QED BY <3>1, <3>2
  <2>4. /\ context' = context
        /\ \A q \in Requests \ {r} : pc'[q] = pc[q] /\ todo'[q] = todo[q]
    BY <1>2, <1>5 DEF FillPut, Allocate, Put, TypeOK
  <2>5. \A q \in Requests : context'[q] = instance => ~Filling(q)'
    BY <2>2, <2>4 DEF Full, Filling
  <2> QED BY <1>1, <2>3, <2>5 DEF Full
<1> QED BY <1>1, <1>3, <1>4, <1>5 DEF Next, Request

(* It is quiet when a calm request comes, so that all names are there.     *)
LEMMA QuietFull == RegistryInv /\ NamesInv /\ Quiet => Full
<1> SUFFICES ASSUME RegistryInv, NamesInv, Quiet PROVE Full
  OBVIOUS
<1>1. instance # 0 /\ instance \in DOMAIN contexts
  <2>1. instance \in 0 .. Len(contexts) /\ instance # 0
    BY DEF RegistryInv, TypeOK, Quiet
  <2> QED BY <2>1, ContextType DEF RegistryInv
<1>2. contexts[instance].names \in SUBSET Supported
  BY <1>1, ContextType DEF RegistryInv
<1>3. contexts[instance].names = Supported
  BY <1>1 DEF NamesInv, Quiet, Fills
<1> QED BY <1>1, <1>2, <1>3 DEF Full, Quiet, Settled

LEMMA FromAll ==
    ASSUME NEW S \in SUBSET Supported PROVE From(S, Supported) = S
<1>1. \A t \in S : Place(t) \in Nat
  BY PlaceType, SupportedTypes
<1> QED BY <1>1 DEF From

LEMMA CalmInvNext == RegistryInv /\ NamesInv /\ CalmInv /\ [Next]_vars => CalmInv'
<1> SUFFICES ASSUME RegistryInv, NamesInv, [Next]_vars,
                    NEW r \in Requests, calm[r] => CalmAt(r), calm'[r]
             PROVE  CalmAt(r)'
  BY DEF CalmInv
<1>1. TypeOK
  BY DEF RegistryInv
<1>2. CASE ~calm[r]
  <2>1. Ask(r)
    <3>1. CASE \E q \in Requests : Ask(q)
      BY <1>1, <1>2, <3>1 DEF Ask, TypeOK
    <3>2. CASE \E q \in Requests : Request(q) /\ ~Ask(q)
      <4>1. calm' = calm
        BY <3>2 DEF Request, Construct, Finish, Assign, Return, AskNames, FillPut, Allocate,
              StartIterator, NextEntry, Modified
      <4> QED BY <1>2, <4>1
    <3>3. CASE LoadBlockSize \/ InitConstruct \/ InitAssign \/ UNCHANGED vars
      BY <1>2, <3>3 DEF LoadBlockSize, InitConstruct, InitAssign, vars, requestVars
    <3> QED BY <3>1, <3>2, <3>3 DEF Next
  <2>2. Quiet
    BY <1>1, <2>1 DEF Ask, TypeOK
  <2>3. Full
    BY <2>2, QuietFull
  <2>4. Full' /\ instance' = instance
    BY <2>3, FullStep
  <2>5. pc'[r] = "return"
    BY <1>1, <2>1, <2>2 DEF Ask, TypeOK, Quiet, RegistryInv
  <2> QED BY <2>4, <2>5 DEF CalmAt
<1>3. CASE calm[r]
  <2>1. CalmAt(r)
    BY <1>3
  <2>2. Full' /\ instance' = instance /\ contexts'[instance] = contexts[instance]
    BY <2>1, FullStep DEF CalmAt
  <2>3. /\ pc[r] \notin {"construct", "finish", "assign"} /\ ~Construct(r) /\ ~Finish(r) /\ ~Assign(r)
        /\ ~LoadBlockSize /\ ~InitConstruct /\ ~InitAssign
    BY <2>1, SettledStep DEF CalmAt, Full, Settled
  <2>4. ~Ask(r) /\ ~FillPut(r) /\ ~Allocate(r)
    BY <2>1 DEF CalmAt, Full, Filling, Ask, FillPut, Allocate
  <2>5. CASE pc'[r] = pc[r] /\ context'[r] = context[r] /\ expected'[r] = expected[r]
             /\ ahead'[r] = ahead[r] /\ shown'[r] = shown[r]
    BY <2>1, <2>2, <2>5 DEF CalmAt
  <2>6. CASE Return(r)
    BY <1>1, <2>2, <2>6 DEF Return, TypeOK, CalmAt
  <2>7. CASE AskNames(r)
    BY <1>1, <2>1, <2>2, <2>7 DEF AskNames, TypeOK, CalmAt
  <2>8. CASE StartIterator(r)
    <3>1. context[r] = instance /\ context' = context
      BY <2>1, <2>8 DEF StartIterator, CalmAt
    <3>2. From(Supported, Names(r)) = Supported
      BY <2>1, <3>1, FromAll DEF Names, CalmAt, Full
    <3>3. /\ ahead'[r] = Supported /\ pc'[r] = "next" /\ shown'[r] = shown[r]
          /\ expected'[r] = contexts[instance].mods
      BY <1>1, <2>1, <2>8, <3>1, <3>2 DEF StartIterator, MoveTo, TypeOK, CalmAt, Full
    <3>4. shown[r] \subseteq Supported
      BY <1>1 DEF TypeOK
    <3> QED BY <2>2, <3>1, <3>3, <3>4 DEF CalmAt
  <2>9. CASE NextEntry(r)
    <3> DEFINE t == First(ahead[r])
    <3>1. context[r] = instance /\ context' = context /\ expected' = expected /\ pc[r] = "next"
      BY <2>1, <2>9 DEF NextEntry, CalmAt
    <3>2. ahead[r] \in SUBSET Supported /\ ahead[r] # {}
      BY <1>1, <3>1 DEF TypeOK, RegistryInv
    <3>3. t \in ahead[r]
      BY <3>2, FirstType, SupportedTypes
    <3>4. From(ahead[r] \ {t}, Names(r)) = ahead[r] \ {t}
      BY <2>1, <3>1, <3>2, FromAll DEF Names, CalmAt, Full
    <3>5. shown'[r] = shown[r] \cup {t}
      BY <1>1, <2>9 DEF NextEntry, TypeOK
    <3>6. /\ ahead'[r] = ahead[r] \ {t}
          /\ pc'[r] = IF ahead[r] \ {t} = {} THEN "done" ELSE "next"
      BY <1>1, <2>9, <3>4 DEF NextEntry, MoveTo, TypeOK
    <3> HIDE DEF t
    <3>7. shown'[r] \cup ahead'[r] = Supported
      BY <2>1, <3>1, <3>2, <3>3, <3>5, <3>6 DEF CalmAt
    <3>8. pc'[r] = "done" => shown'[r] = Supported
      BY <3>6, <3>7
    <3> QED BY <2>1, <2>2, <3>1, <3>6, <3>7, <3>8 DEF CalmAt
  <2>10. ~Modified(r)
    BY <2>1 DEF Modified, CalmAt
  <2>11. ASSUME NEW q \in Requests \ {r}, Request(q)
         PROVE  pc'[r] = pc[r] /\ context'[r] = context[r] /\ expected'[r] = expected[r]
                /\ ahead'[r] = ahead[r] /\ shown'[r] = shown[r]
    BY <1>1, <2>11 DEF Request, Ask, Construct, Finish, Assign, Return, AskNames, FillPut, Put, Allocate,
          StartIterator, NextEntry, MoveTo, Modified, TypeOK
  <2>12. CASE UNCHANGED vars
    BY <2>5, <2>12 DEF vars, requestVars
  <2>13. CASE \E q \in Requests : Request(q)
    <3>1. CASE Request(r)
      BY <2>3, <2>4, <2>6, <2>7, <2>8, <2>9, <2>10, <3>1 DEF Request
    <3> QED BY <2>5, <2>11, <2>13, <3>1
  <2> QED BY <2>3, <2>12, <2>13 DEF Next
<1> QED BY <1>2, <1>3

(* A request that came when the lists were made and nobody was writing     *)
(* shows every supported type and is never lost to a concurrent change.    *)
THEOREM CalmRequestsComplete == Spec => []CalmRequestComplete
<1>1. Init => CalmInv
  BY DEF Init, CalmInv
<1>2. RegistryInv /\ NamesInv /\ CalmInv /\ [Next]_vars => CalmInv'
  BY CalmInvNext
<1>3. CalmInv => CalmRequestComplete
  BY DEF CalmInv, CalmAt, CalmRequestComplete, Supported
<1> QED BY <1>1, <1>2, <1>3, RegistryInvariant, NamesInvariant, PTL DEF Spec
=============================================================================
