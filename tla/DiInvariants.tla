---------------------------- MODULE DiInvariants -----------------------------
(***************************************************************************)
(* The inductive invariant of the dependency-injection checks, as          *)
(* conjunctions of named parts: what is on the stacks leads to its service *)
(* through transients already followed, what was followed has nothing left *)
(* but what is on the stacks, and the searches that are over reported what *)
(* they should.  DiGraphProofs shows that it holds.                        *)
(***************************************************************************)
EXTENDS DiGraph

Chains  == STRING \X Seq(STRING)
Finding == [code : ToSet(Codes), single : Nat, captured : STRING, path : Seq(STRING)]

ByEdge == Code \in {"DI001", "DI003"}

DiTyped ==
  /\ services \in Seq(Registration)
  /\ check \in 1 .. 6 /\ single \in 0 .. Len(services)
  /\ entries \in Seq(STRING) /\ walk \in Seq(Chains) /\ edges \in Seq(Chains)
  /\ reported \subseteq STRING /\ visited \subseteq STRING
  /\ captives \in Seq(Finding)

(* The cached type searched from, and what a search starts at.              *)
Entry   == Holder.cached[Len(Holder.cached) - Len(entries)]
Starts == IF Code = "DI005" THEN {Entry} ELSE Holds(Code, Holder)

(* A search that may still report.                                          *)
Active ==
  /\ single \in Singles
  /\ Code = "DI005" => Len(entries) < Len(Holder.cached) /\ Entry \notin reported

DiShape ==
  /\ check = 6 => single = 0
  /\ Searching => check <= 5 /\ single \in Singles
  /\ walk # << >> \/ edges # << >> => Active
  /\ edges # << >> => ByEdge
  /\ entries # << >> => Code = "DI005"
  /\ single \in Singles /\ Code = "DI005" =>
       /\ Len(entries) <= Len(Holder.cached)
       /\ \A j \in DOMAIN entries :
            entries[j] = Holder.cached[Len(Holder.cached) - Len(entries) + j]
  /\ single >= 1 /\ single \notin Singles => reported = {}

(* The chain to a service found, through transients already visited.        *)
Trail(p, seen) ==
  /\ Len(p) >= 2 /\ p[1] = Holder.name /\ p[2] \in Starts
  /\ \A j \in 2 .. Len(p) - 1 : p[j] \in seen /\ p[j + 1] \in StrongFrom(p[j])
  /\ \A i, j \in 2 .. Len(p) - 1 : p[i] = p[j] => i = j

Led(w, seen) ==
  w[2][Len(w[2])] = w[1] /\ Trail(w[2], seen) /\ w[1] \in Brings(Starts)

Walked(w, seen) ==
  IF ByEdge
  THEN \/ w = <<Holder.name, <<Holder.name>> >>
       \/ /\ Led(w, seen) /\ w[1] \in seen
          /\ \A j \in 2 .. Len(w[2]) - 1 : w[2][j] # w[1]
  ELSE Led(w, seen)

DiTrails ==
  /\ \A j \in DOMAIN walk : Walked(walk[j], visited)
  /\ \A j \in DOMAIN edges : Led(edges[j], visited)

DiFollowed ==
  single >= 1 => \A v \in visited :
    /\ Registered(v) # {} /\ Node(v).life = "transient"
    /\ Wanted(Node(v)) => v \in reported

NamesIn(seq) == {seq[j][1] : j \in DOMAIN seq}

(* Nothing more has to be done for a name.                                  *)
Handled(x) ==
  \/ Registered(x) = {}
  \/ /\ Wanted(Node(x)) => Code # "DI005" /\ x \in reported
     /\ Node(x).life = "transient" => x \in visited

Pending == IF ByEdge THEN NamesIn(edges) ELSE NamesIn(walk)
SeenTo(x)  == x \in Pending \/ Handled(x)

DiCovered ==
  Active =>
    IF ByEdge
    THEN \A n \in visited \cup {Holder.name} :
           n \in NamesIn(walk) \/ \A d \in Deps(n) : SeenTo(d)
    ELSE /\ \A x \in Starts : SeenTo(x)
         /\ \A n \in visited : \A d \in Deps(n) : SeenTo(d)

Bringing(code, s) ==
  IF code = "DI005"
  THEN {n \in ToSet(s.cached) : Brings({n}) \cap OfInterest(code) # {}}
  ELSE Brings(Holds(code, s)) \cap OfInterest(code)

DiSound == single >= 1 => reported \subseteq Bringing(Code, Holder)

DiCachedDone ==
  single \in Singles /\ Code = "DI005" =>
    \A j \in 1 .. Len(Holder.cached) - Len(entries) - 1 :
      Holder.cached[j] \in Bringing("DI005", Holder) => Holder.cached[j] \in reported

Key(f) == IF f.code = "DI005" THEN f.path[2] ELSE f.captured

DiTally ==
  single >= 1 =>
    /\ reported = {Key(captives[k]) : k \in Found(Code, single)}
    /\ \A k, l \in Found(Code, single) : Key(captives[k]) = Key(captives[l]) => k = l

Exactly(code, j) ==
  /\ {Key(captives[k]) : k \in Found(code, j)} =
        IF j \in Singles THEN Bringing(code, services[j]) ELSE {}
  /\ \A k, l \in Found(code, j) : Key(captives[k]) = Key(captives[l]) => k = l

Over(c, j) == c < check \/ (c = check /\ j < single)

DiPast ==
  /\ \A c \in 1 .. 5, j \in DOMAIN services : Over(c, j) => Exactly(Codes[c], j)
  /\ \A k \in DOMAIN captives : \E c \in 1 .. 5 :
       captives[k].code = Codes[c] /\ (\/ Over(c, captives[k].single)
                                       \/ c = check /\ captives[k].single = single)

Real(f) ==
  LET p == f.path  s == services[f.single] IN
  /\ f.single \in DOMAIN services /\ Len(p) >= 2
  /\ p[1] = s.name /\ p[Len(p)] = f.captured
  /\ p[2] \in Holds(f.code, s)
  /\ f.captured \in OfInterest(f.code)
  /\ \A j \in 2 .. Len(p) - 1 : p[j + 1] \in StrongFrom(p[j])
  /\ \A i, j \in 2 .. Len(p) : p[i] = p[j] => i = j

DiReal == \A k \in DOMAIN captives : Real(captives[k])

DiInv ==
  /\ DiTyped /\ DiShape /\ DiTrails /\ DiFollowed /\ DiCovered /\ DiSound
  /\ DiCachedDone /\ DiTally /\ DiPast /\ DiReal
==============================================================================
