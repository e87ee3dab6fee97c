------------------------------ MODULE DiGraph ------------------------------
(***************************************************************************)
(* The dependency-injection checks (ownlang/di.py): five searches over the *)
(* registrations, each from every singleton in turn, along the strong      *)
(* dependencies of transients.                                             *)
(*                                                                         *)
(*   DI001  a singleton's dependencies reach a scoped service              *)
(*   DI003  they reach a disposable transient                              *)
(*   DI002  its weak references reach a scoped service                     *)
(*   DI004  what it resolves by hand reaches a disposable transient        *)
(*   DI005  what it caches from a scope of its own reaches a scoped one    *)
(*                                                                         *)
(* DI001 and DI003 judge a service when they see the edge to it, the       *)
(* others when they take it from the stack.  A name may be registered more *)
(* than once, or not at all: a name stands for its last registration.      *)
(***************************************************************************)
EXTENDS Naturals, Sequences, SequencesExt

CONSTANT Registrations   \* inputs: lists of services

Lives == {"singleton", "scoped", "transient"}
Codes == <<"DI001", "DI003", "DI002", "DI004", "DI005">>

Registration ==
  [name : STRING, life : Lives, disposable : BOOLEAN, deps : Seq(STRING),
   weak : Seq(STRING), roots : Seq(STRING), cached : Seq(STRING)]

ASSUME RegistrationsAssumption == Registrations \subseteq Seq(Registration)

VARIABLES
  services,   \* the registrations, in order
  check,      \* the search going on, an index of Codes
  single,     \* the registration it starts from
  entries,    \* DI005: the cached types not searched from yet
  walk,       \* the stack of the search: <<name, path>>
  edges,      \* DI001, DI003: those of the service in hand not looked at yet
  reported,   \* captured services (DI005: cached types) already reported
  visited,    \* transients followed
  captives    \* findings: [code, single, captured, path]

divars ==
  <<services, check, single, entries, walk, edges, reported, visited, captives>>

Registered(n) == {j \in DOMAIN services : services[j].name = n}
Node(n) ==
  services[CHOOSE j \in Registered(n) : \A k \in Registered(n) : k <= j]

Code   == Codes[check]
Holder == services[single]

\* What the search is after.
Wanted(s) ==
  IF Code \in {"DI003", "DI004"} THEN s.life = "transient" /\ s.disposable
  ELSE s.life = "scoped"

\* The names a search of registration s starts at, under the singleton itself.
From(s) ==
  CASE Code = "DI002" -> s.weak
    [] Code = "DI004" -> s.roots
    [] OTHER          -> << >>

Under(s, names) == [j \in DOMAIN names |-> <<names[j], <<s.name, names[j]>> >>]

-----------------------------------------------------------------------------
DiInit(given) ==
  /\ services \in given
  /\ check = 1 /\ single = 0
  /\ entries = << >> /\ walk = << >> /\ edges = << >>
  /\ reported = {} /\ visited = {}
  /\ captives = << >>

Searching == walk # << >> \/ edges # << >> \/ entries # << >>
DiDone    == check > Len(Codes)

\* Mutant of NextSingle: what one singleton reported is not reported again.
NextSingleKeeps ==
  /\ ~ DiDone /\ ~ Searching /\ single < Len(services)
  /\ single' = single + 1
  /\ LET s == services[single + 1] IN
       IF s.life # "singleton" THEN UNCHANGED <<entries, walk>>
       ELSE /\ entries' = IF Code = "DI005" THEN s.cached ELSE << >>
            /\ walk' = IF Code \in {"DI001", "DI003"}
                       THEN << <<s.name, <<s.name>> >> >> ELSE Under(s, From(s))
  /\ UNCHANGED <<services, check, edges, reported, visited, captives>>

\* for s in services: only singletons are searched from.
NextSingle ==
  /\ ~ DiDone /\ ~ Searching /\ single < Len(services)
  /\ single' = single + 1
  /\ LET s == services[single + 1] IN
       IF s.life # "singleton" THEN UNCHANGED <<entries, walk>>
       ELSE /\ entries' = IF Code = "DI005" THEN s.cached ELSE << >>
            /\ walk' = IF Code \in {"DI001", "DI003"}
                       THEN << <<s.name, <<s.name>> >> >> ELSE Under(s, From(s))
  /\ reported' = {} /\ visited' = {}
  /\ UNCHANGED <<services, check, edges, captives>>

NextCheck ==
  /\ ~ DiDone /\ ~ Searching /\ single = Len(services)
  /\ check' = check + 1 /\ single' = 0
  /\ UNCHANGED <<services, entries, walk, edges, reported, visited, captives>>

\* for entry in s.scope_cached: a search of its own for each cached type.
NextEntry ==
  /\ walk = << >> /\ entries # << >>
  /\ entries' = Tail(entries)
  /\ walk' = IF Head(entries) \in reported THEN << >>
             ELSE Under(Holder, <<Head(entries)>>)
  /\ visited' = {}
  /\ UNCHANGED <<services, check, single, edges, reported, captives>>

Current == Last(walk)[1]
Path    == Last(walk)[2]
Beneath == Front(walk)

Captive(name, path) ==
  [code |-> Code, single |-> single, captured |-> name, path |-> path]

\* What the service taken from the stack depends on, with the chains there.
Onward ==
  [j \in DOMAIN Node(Current).deps |->
     <<Node(Current).deps[j], Append(Path, Node(Current).deps[j])>>]

\* DI001, DI003: for dep in node.deps
PopEdges ==
  /\ walk # << >> /\ edges = << >> /\ Code \in {"DI001", "DI003"}
  /\ edges' = IF Registered(Current) = {} THEN << >> ELSE Onward
  /\ walk' = Beneath
  /\ UNCHANGED <<services, check, single, entries, reported, visited, captives>>

Dep == Head(edges)[1]
New == Registered(Dep) # {} /\ Wanted(Node(Dep)) /\ Dep \notin reported
Go  == Registered(Dep) # {} /\ Node(Dep).life = "transient" /\ Dep \notin visited

\* Mutant of Edge: the chain leaves out the transients in between.
EdgeShort ==
  /\ edges # << >>
  /\ edges' = Tail(edges)
  /\ reported' = IF New THEN reported \cup {Dep} ELSE reported
  /\ captives' = IF New THEN Append(captives, Captive(Dep, <<Holder.name, Dep>>))
                 ELSE captives
  /\ visited' = IF Go THEN visited \cup {Dep} ELSE visited
  /\ walk' = IF Go THEN Append(walk, Head(edges)) ELSE walk
  /\ UNCHANGED <<services, check, single, entries>>

\* The service at the end of an edge is judged, and kept to be followed.
Edge ==
  /\ edges # << >>
  /\ edges' = Tail(edges)
  /\ reported' = IF New THEN reported \cup {Dep} ELSE reported
  /\ captives' = IF New THEN Append(captives, Captive(Dep, Head(edges)[2]))
                 ELSE captives
  /\ visited' = IF Go THEN visited \cup {Dep} ELSE visited
  /\ walk' = IF Go THEN Append(walk, Head(edges)) ELSE walk
  /\ UNCHANGED <<services, check, single, entries>>

\* A transient is followed once, along its strong dependencies.
Follow(node) ==
  IF node.life = "transient" /\ Current \notin visited
  THEN /\ visited' = visited \cup {Current}
       /\ walk' = Beneath \o Onward
  ELSE walk' = Beneath /\ UNCHANGED visited

PopUnknown ==
  /\ walk # << >> /\ Code \notin {"DI001", "DI003"}
  /\ Registered(Current) = {}
  /\ walk' = Beneath
  /\ UNCHANGED <<services, check, single, entries, edges, reported, visited, captives>>

\* DI002, DI004: the service itself is judged, then followed.
PopNode ==
  /\ walk # << >> /\ Code \in {"DI002", "DI004"}
  /\ Registered(Current) # {}
  /\ IF Wanted(Node(Current)) /\ Current \notin reported
     THEN /\ reported' = reported \cup {Current}
          /\ captives' = Append(captives, Captive(Current, Path))
     ELSE UNCHANGED <<reported, captives>>
  /\ Follow(Node(Current))
  /\ UNCHANGED <<services, check, single, entries, edges>>

\* DI005: the first scoped service ends the search of its cached type.
PopCached ==
  /\ walk # << >> /\ Code = "DI005"
  /\ Registered(Current) # {}
  /\ IF Wanted(Node(Current))
     THEN /\ reported' = reported \cup {Path[2]}
          /\ captives' = Append(captives, Captive(Current, Path))
          /\ walk' = << >>
          /\ UNCHANGED visited
     ELSE Follow(Node(Current)) /\ UNCHANGED <<reported, captives>>
  /\ UNCHANGED <<services, check, single, entries, edges>>

DiNext ==
  \/ NextSingle \/ NextCheck \/ NextEntry
  \/ PopEdges \/ Edge \/ PopUnknown \/ PopNode \/ PopCached

-----------------------------------------------------------------------------
(* The reference: what a name brings along when it is resolved. *)

Deps(n) == {Node(n).deps[j] : j \in DOMAIN Node(n).deps}

StrongFrom(n) ==
  IF Registered(n) # {} /\ Node(n).life = "transient" THEN Deps(n) ELSE {}

Named == UNION {{services[j].name} \cup ToSet(services[j].deps)
                  \cup ToSet(services[j].weak) \cup ToSet(services[j].roots)
                  \cup ToSet(services[j].cached) : j \in DOMAIN services}

Brings(names) ==
  LET closed == {S \in SUBSET Named : /\ names \subseteq S
                                      /\ \A x \in S : StrongFrom(x) \subseteq S}
  IN {x \in Named : \A S \in closed : x \in S}

OfInterest(code) ==
  {n \in Named : /\ Registered(n) # {}
                 /\ IF code \in {"DI003", "DI004"}
                    THEN Node(n).life = "transient" /\ Node(n).disposable
                    ELSE Node(n).life = "scoped"}

\* The names a singleton holds, in the sense of the check.
Holds(code, s) ==
  CASE code \in {"DI001", "DI003"} -> Deps(s.name)
    [] code = "DI002" -> ToSet(s.weak)
    [] code = "DI004" -> ToSet(s.roots)
    [] code = "DI005" -> ToSet(s.cached)

Found(code, j) == {k \in DOMAIN captives : captives[k].code = code /\ captives[k].single = j}

Singles == {j \in DOMAIN services : services[j].life = "singleton"}

(***************************************************************************)
(* Each check reports each captive of each singleton, once, and nothing    *)
(* else: a captive is a wanted service that what the singleton holds       *)
(* brings along, through cycles of transients and past services already    *)
(* visited.  DI005 reports each cached type that brings a scoped service.  *)
(***************************************************************************)
CaptivesExact ==
  DiDone =>
    \A code \in ToSet(Codes), j \in DOMAIN services :
      LET found == Found(code, j)
          holds == Holds(code, services[j])
      IN IF j \notin Singles THEN found = {}
         ELSE IF code = "DI005"
         THEN /\ {captives[k].path[2] : k \in found}
                   = {n \in holds : Brings({n}) \cap OfInterest(code) # {}}
              /\ \A k, l \in found : captives[k].path[2] = captives[l].path[2] => k = l
         ELSE /\ {captives[k].captured : k \in found} = Brings(holds) \cap OfInterest(code)
              /\ \A k, l \in found : captives[k].captured = captives[l].captured => k = l

(***************************************************************************)
(* The chain a finding shows is one of real dependencies, from what the    *)
(* singleton holds through transients to the captive, without a turn       *)
(* through a cycle.                                                        *)
(***************************************************************************)
ChainIsReal ==
  DiDone =>
    \A k \in DOMAIN captives :
      LET p == captives[k].path
          s == services[captives[k].single]
      IN /\ p[1] = s.name /\ p[Len(p)] = captives[k].captured
         /\ p[2] \in Holds(captives[k].code, s)
         /\ captives[k].captured \in OfInterest(captives[k].code)
         /\ \A j \in 2 .. Len(p) - 1 : p[j + 1] \in StrongFrom(p[j])
         /\ \A i, j \in 2 .. Len(p) : p[i] = p[j] => i = j
=============================================================================
