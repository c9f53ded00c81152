------------------------------ MODULE Registry ------------------------------
(***************************************************************************)
(* ElephantContext, the registry of fetchers, heuristics and job types: it *)
(* is made by the daemon when it starts, or by any request for a page that *)
(* comes before, and the requests build the lists of heuristic names that  *)
(* the search and help pages show in a HashMap of it.  Nothing is locked.  *)
(*                                                                         *)
(* The configuration is valid.  Fields written by the constructor are seen *)
(* by every thread that sees the registry, and a map has so few entries    *)
(* that its table never grows.  Of the races on the HashMap, the model has *)
(* that of threads that allocate its table (a thread that found none makes *)
(* one and installs it, as in Java 7); an entry of the allocated table,    *)
(* its count and its modification count are written in one step.           *)
(***************************************************************************)
EXTENDS Naturals, FiniteSets, Sequences

CONSTANTS
    Requests,           \* requests for the search or the help page
    Types,              \* application types, in the order of the HashMaps
    Fetched,            \* types with a fetcher in FetcherConf.xml
    Judged,             \* types with a heuristic in HeuristicConf.xml
    Classified          \* types with a job type in JobTypeConf.xml

AllTypes == {Types[i] : i \in DOMAIN Types}

ASSUME RegistryAssumption ==
    /\ IsFiniteSet(Requests)
    /\ Types \in Seq(AllTypes)
    /\ \A i, j \in DOMAIN Types : Types[i] = Types[j] => i = j
    /\ Fetched \subseteq AllTypes
    /\ Judged \subseteq AllTypes
    /\ Classified \subseteq AllTypes

VARIABLES
    daemon,             \* where the main thread of the daemon is
    blockSize,          \* HDFS_BLOCK_SIZE: "default" or that of the "cluster"
    instance,           \* INSTANCE: a place in contexts, 0 if null
    contexts,           \* the ElephantContexts made so far
    made,               \* the one the daemon made, 0 if none yet
    pc,                 \* where each request is
    context,            \* the one each request works with, 0 if none yet
    todo,               \* types whose names it has still to put
    expected,           \* expectedModCount of its iterator
    ahead,              \* entries its iterator has still to give
    shown,              \* types whose names are on its page
    calm                \* nobody was writing to the registry when it came

requestVars == <<pc, context, todo, expected, ahead, shown, calm>>
vars == <<daemon, blockSize, instance, contexts, made, requestVars>>

(* The keys of _typeToHeuristics once configureSupportedApplicationTypes   *)
(* has kept the types that are configured in all three files; the mutant   *)
(* forgets the job types.                                                  *)
SupportedUnclassified == Fetched \cap Judged

Supported == (Fetched \cap Judged) \cap Classified

(* The order in which the HashMaps give them.                              *)
Place(t) == CHOOSE i \in DOMAIN Types : Types[i] = t

First(S) == CHOOSE t \in S : \A u \in S : Place(t) <= Place(u)

(* limits has the block sizes that the limits of the data skew heuristics  *)
(* on file sizes are fractions of; names is the key set of                 *)
(* _heuristicGroupedNames, mods its modCount.                              *)
Contexts ==
    [limits : SUBSET {"default", "cluster"}, names : SUBSET Supported, mods : Nat]

NewContext == [limits |-> {blockSize}, names |-> {}, mods |-> 0]

Init ==
    /\ daemon = "load"
    /\ blockSize = "default"
    /\ instance = 0
    /\ contexts = <<>>
    /\ made = 0
    /\ pc = [r \in Requests |-> "idle"]
    /\ context = [r \in Requests |-> 0]
    /\ todo = [r \in Requests |-> {}]
    /\ expected = [r \in Requests |-> 0]
    /\ ahead = [r \in Requests |-> {}]
    /\ shown = [r \in Requests |-> {}]
    /\ calm = [r \in Requests |-> FALSE]

-----------------------------------------------------------------------------
(* The daemon starts: HDFSContext.load, which keeps the default when it    *)
(* fails, then ElephantContext.init.                                       *)
LoadBlockSize ==
    /\ daemon = "load"
    /\ blockSize' \in {blockSize, "cluster"}
    /\ daemon' = "construct"
    /\ UNCHANGED <<instance, contexts, made, requestVars>>

(* The mutant makes the registry before it has read the block size.        *)
InitConstructEarly ==
    /\ daemon = "load"
    /\ made = 0
    /\ contexts' = Append(contexts, NewContext)
    /\ made' = Len(contexts')
    /\ UNCHANGED <<daemon, blockSize, instance, requestVars>>

(* Nobody writes the block size any more: it is the same for all limits.   *)
InitConstruct ==
    /\ daemon = "construct"
    /\ contexts' = Append(contexts, NewContext)
    /\ made' = Len(contexts')
    /\ daemon' = "assign"
    /\ UNCHANGED <<blockSize, instance, requestVars>>

InitAssign ==
    /\ daemon = "assign"
    /\ instance' = made
    /\ daemon' = "runs"
    /\ UNCHANGED <<blockSize, contexts, made, requestVars>>

-----------------------------------------------------------------------------
(* A request calls instance(): is INSTANCE null?  The mutant does not ask. *)
Filling(r) == pc[r] \in {"fill", "allocate"} /\ todo[r] # {}

Quiet ==
    /\ daemon = "runs"
    /\ contexts[instance].names # {}
    /\ \A r \in Requests : pc[r] \notin {"construct", "finish", "assign"} /\ ~Filling(r)

AskNothing(r) ==
    /\ pc[r] = "idle"
    /\ pc' = [pc EXCEPT ![r] = "construct"]
    /\ calm' = [calm EXCEPT ![r] = Quiet]
    /\ UNCHANGED <<daemon, blockSize, instance, contexts, made, context, todo,
                   expected, ahead, shown>>

Ask(r) ==
    /\ pc[r] = "idle"
    /\ pc' = [pc EXCEPT ![r] = IF instance = 0 THEN "construct" ELSE "return"]
    /\ calm' = [calm EXCEPT ![r] = Quiet]
    /\ UNCHANGED <<daemon, blockSize, instance, contexts, made, context, todo,
                   expected, ahead, shown>>

(* The constructor makes the data skew heuristic of mappers, later that of *)
(* reducers, and each multiplies its limits by the block size of then.     *)
Construct(r) ==
    /\ pc[r] = "construct"
    /\ contexts' = Append(contexts, NewContext)
    /\ context' = [context EXCEPT ![r] = Len(contexts')]
    /\ pc' = [pc EXCEPT ![r] = "finish"]
    /\ UNCHANGED <<daemon, blockSize, instance, made, todo, expected, ahead, shown, calm>>

Finish(r) ==
    /\ pc[r] = "finish"
    /\ contexts' = [contexts EXCEPT ![context[r]].limits = @ \cup {blockSize}]
    /\ pc' = [pc EXCEPT ![r] = "assign"]
    /\ UNCHANGED <<daemon, blockSize, instance, made, context, todo, expected,
                   ahead, shown, calm>>

Assign(r) ==
    /\ pc[r] = "assign"
    /\ instance' = context[r]
    /\ pc' = [pc EXCEPT ![r] = "return"]
    /\ UNCHANGED <<daemon, blockSize, contexts, made, context, todo, expected,
                   ahead, shown, calm>>

(* instance() returns what INSTANCE is by now, not what it has assigned;   *)
(* the mutant returns only what it has assigned.                           *)
ReturnAssigned(r) ==
    /\ pc[r] = "return"
    /\ pc' = [pc EXCEPT ![r] = "ask names"]
    /\ UNCHANGED <<daemon, blockSize, instance, contexts, made, context, todo,
                   expected, ahead, shown, calm>>

Return(r) ==
    /\ pc[r] = "return"
    /\ context' = [context EXCEPT ![r] = instance]
    /\ pc' = [pc EXCEPT ![r] = "ask names"]
    /\ UNCHANGED <<daemon, blockSize, instance, contexts, made, todo, expected,
                   ahead, shown, calm>>

-----------------------------------------------------------------------------
(* getAllHeuristicNames fills the map if it finds it empty.                *)
Names(r) == contexts[context[r]].names

AskNames(r) ==
    /\ pc[r] = "ask names"
    /\ todo' = [todo EXCEPT ![r] = IF Names(r) = {} THEN Supported ELSE {}]
    /\ pc' = [pc EXCEPT ![r] = "fill"]
    /\ UNCHANGED <<daemon, blockSize, instance, contexts, made, context, expected,
                   ahead, shown, calm>>

(* A registry once the names of type t are put into a table of which kept  *)
(* is what was found in it; a new key counts as a modification.            *)
With(c, kept, t) ==
    [c EXCEPT !.names = kept \cup {t}, !.mods = IF t \in kept THEN @ ELSE @ + 1]

Put(r, kept) ==
    LET t == First(todo[r])
    IN  /\ contexts' = [contexts EXCEPT ![context[r]] = With(@, kept, t)]
        /\ todo' = [todo EXCEPT ![r] = @ \ {t}]

(* put() finds no table, or puts into the one it finds.                    *)
FillPut(r) ==
    /\ pc[r] = "fill"
    /\ todo[r] # {}
    /\ IF Names(r) = {}
       THEN /\ pc' = [pc EXCEPT ![r] = "allocate"]
            /\ UNCHANGED <<contexts, todo>>
       ELSE Put(r, Names(r)) /\ UNCHANGED pc
    /\ UNCHANGED <<daemon, blockSize, instance, made, context, expected, ahead,
                   shown, calm>>

(* The new table replaces the one another thread may have allocated.  The  *)
(* mutant finds the map filled then and leaves.                            *)
AllocateAndLeave(r) ==
    /\ pc[r] = "allocate"
    /\ Put(r, {})
    /\ pc' = [pc EXCEPT ![r] = "ask names"]
    /\ UNCHANGED <<daemon, blockSize, instance, made, context, expected, ahead,
                   shown, calm>>

Allocate(r) ==
    /\ pc[r] = "allocate"
    /\ Put(r, {})
    /\ pc' = [pc EXCEPT ![r] = "fill"]
    /\ UNCHANGED <<daemon, blockSize, instance, made, context, expected, ahead,
                   shown, calm>>

-----------------------------------------------------------------------------
(* The page iterates over the map once it is filled.  The iterator stands  *)
(* at the entry it gives next, and looks for its successor when it gives   *)
(* it; "ahead" is that entry with the types behind it, which may or may    *)
(* not be in the map by then.                                              *)
From(S, present) == {t \in S : \E u \in S \cap present : Place(u) <= Place(t)}

MoveTo(r, S) ==
    /\ ahead' = [ahead EXCEPT ![r] = S]
    /\ pc' = [pc EXCEPT ![r] = IF S = {} THEN "done" ELSE "next"]

StartIterator(r) ==
    /\ pc[r] = "fill"
    /\ todo[r] = {}
    /\ expected' = [expected EXCEPT ![r] = contexts[context[r]].mods]
    /\ MoveTo(r, From(Supported, Names(r)))
    /\ UNCHANGED <<daemon, blockSize, instance, contexts, made, context, todo, shown, calm>>

NextEntry(r) ==
    /\ pc[r] = "next"
    /\ contexts[context[r]].mods = expected[r]
    /\ shown' = [shown EXCEPT ![r] = @ \cup {First(ahead[r])}]
    /\ MoveTo(r, From(ahead[r] \ {First(ahead[r])}, Names(r)))
    /\ UNCHANGED <<daemon, blockSize, instance, contexts, made, context, todo,
                   expected, calm>>

(* ConcurrentModificationException: no page.                               *)
Modified(r) ==
    /\ pc[r] = "next"
    /\ contexts[context[r]].mods # expected[r]
    /\ pc' = [pc EXCEPT ![r] = "failed"]
    /\ UNCHANGED <<daemon, blockSize, instance, contexts, made, context, todo,
                   expected, ahead, shown, calm>>

Request(r) ==
    \/ Ask(r) \/ Construct(r) \/ Finish(r) \/ Assign(r) \/ Return(r)
    \/ AskNames(r) \/ FillPut(r) \/ Allocate(r)
    \/ StartIterator(r) \/ NextEntry(r) \/ Modified(r)

Next == LoadBlockSize \/ InitConstruct \/ InitAssign \/ \E r \in Requests : Request(r)

Spec == Init /\ [][Next]_vars

-----------------------------------------------------------------------------
(* Every variable has its type; a request that has gone past instance()    *)
(* has a registry.                                                         *)
TypeOK ==
    /\ daemon \in {"load", "construct", "assign", "runs"}
    /\ blockSize \in {"default", "cluster"}
    /\ contexts \in Seq(Contexts)
    /\ instance \in 0..Len(contexts)
    /\ made \in 0..Len(contexts)
    /\ pc \in [Requests -> {"idle", "construct", "finish", "assign", "return",
                            "ask names", "fill", "allocate", "next", "failed", "done"}]
    /\ context \in [Requests -> 0..Len(contexts)]
    /\ todo \in [Requests -> SUBSET Supported]
    /\ expected \in [Requests -> Nat]
    /\ ahead \in [Requests -> SUBSET Supported]
    /\ shown \in [Requests -> SUBSET Supported]
    /\ calm \in [Requests -> BOOLEAN]
    /\ \A r \in Requests :
          pc[r] \notin {"idle", "construct", "return"} => context[r] # 0

(* getAllHeuristicNames: requests that fill the same map may lose each     *)
(* other's entries when they allocate its table, but once none of them is  *)
(* at it the map is empty or has every supported type: what is cached for  *)
(* ever is never a part of the lists.                                      *)
NamesCompleteAtRest ==
    \A c \in DOMAIN contexts :
        \/ contexts[c].names \in {{}, (Fetched \cap Judged) \cap Classified}
        \/ \E r \in Requests : context[r] = c /\ Filling(r)

(* A page whose request came when the daemon ran, the lists were made and  *)
(* nobody was writing to the registry shows every supported type, and is   *)
(* not lost to a ConcurrentModificationException: no later request can     *)
(* start to make the lists again.                                          *)
CalmRequestComplete ==
    \A r \in Requests : calm[r] =>
        /\ pc[r] # "failed"
        /\ pc[r] = "done" => shown[r] = (Fetched \cap Judged) \cap Classified

(* instance(), init(): once the daemon runs and no request is making a     *)
(* registry, none is ever made again and INSTANCE never changes.  Until    *)
(* then it may, even after the executors have begun to use it.             *)
Settled ==
    daemon = "runs" /\ \A r \in Requests : pc[r] \notin {"construct", "finish", "assign"}

InstanceSettles == [][Settled => Settled' /\ UNCHANGED <<instance, Len(contexts)>>]_vars

(* HDFSContext.load comes before ElephantContext.init: if the block size   *)
(* could be read, all limits on file sizes are fractions of it in the      *)
(* daemon's registry and in any begun after it.  One that a request began  *)
(* before may mix them with the default's, or have only those, and may     *)
(* still take INSTANCE.                                                    *)
LimitsOfCluster ==
    (made # 0 /\ blockSize = "cluster") =>
        \A c \in made..Len(contexts) : contexts[c].limits = {"cluster"}
=============================================================================
