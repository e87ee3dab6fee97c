---------------------------- MODULE DiGraphProofs ----------------------------
(***************************************************************************)
(* The dependency-injection checks, for every list of registrations: DiInv *)
(* holds at the start, every step of the five searches keeps it, and when  *)
(* they are over it says that each captive was reported once with a real   *)
(* chain, and nothing else was.                                            *)
(***************************************************************************)
EXTENDS DiInvariants, WellFoundedInduction, TLAPS

(* The activation at the top, and those below it. *)
LEMMA TopOf ==
  ASSUME NEW S, NEW s \in Seq(S), s # << >>
  PROVE  LET b == SubSeq(s, 1, Len(s) - 1) IN
         /\ Len(s) \in Nat /\ Len(s) >= 1 /\ s[Len(s)] \in S
         /\ b \in Seq(S) /\ Len(b) = Len(s) - 1 /\ DOMAIN b = 1 .. Len(s) - 1
         /\ \A j \in 1 .. Len(s) - 1 : b[j] = s[j]
<1>1. Len(s) \in Nat /\ Len(s) >= 1 /\ s[Len(s)] \in S /\ DOMAIN s = 1 .. Len(s)
  OBVIOUS
<1> QED BY <1>1

(* A set of positions has a last one. *)
LEMMA LastPosition ==
  ASSUME NEW n \in Nat, NEW T, T \subseteq 1 .. n, T # {}
  PROVE  \E x \in T : \A y \in T : y <= x
<1> DEFINE U == {n - x : x \in T}
<1>0. \A x \in T : x \in Nat /\ n - x \in Nat
  OBVIOUS
<1>1. U \subseteq Nat /\ U # {}
  BY <1>0
<1>2. PICK l \in U : \A m \in U : ~ (<<m, l>> \in OpToRel(<, Nat))
  BY <1>1, WFMin, NatLessThanWellFounded
<1>3. \A m \in U : ~ (m < l)
  BY <1>1, <1>2 DEF OpToRel
<1>4. PICK x \in T : l = n - x
  OBVIOUS
<1>5. ASSUME NEW y \in T PROVE y <= x
  <2>1. n - y \in U
    OBVIOUS
  <2>2. ~ (n - y < n - x)
    BY <1>3, <1>4, <2>1
  <2> QED BY <1>0, <2>2
<1> QED BY <1>5

(* A registered name stands for one of its registrations. *)
LEMMA NodeRegistered ==
  ASSUME services \in Seq(Registration), NEW n, Registered(n) # {}
  PROVE  /\ \E j \in DOMAIN services : services[j].name = n /\ Node(n) = services[j]
         /\ Node(n) \in Registration
<1>1. Len(services) \in Nat /\ DOMAIN services = 1 .. Len(services)
  OBVIOUS
<1>2. Registered(n) \subseteq 1 .. Len(services)
  BY <1>1 DEF Registered
<1>3. \E j \in Registered(n) : \A k \in Registered(n) : k <= j
  BY <1>1, <1>2, LastPosition
<1>4. PICK j \in Registered(n) : Node(n) = services[j]
  BY <1>3 DEF Node
<1> QED BY <1>4 DEF Registered

(* The names of a registration are names of the document. *)
LEMMA NamesNamed ==
  ASSUME services \in Seq(Registration), NEW j \in DOMAIN services
  PROVE  /\ services[j] \in Registration
         /\ services[j].name \in Named /\ Registered(services[j].name) # {}
         /\ ToSet(services[j].deps) \subseteq Named
         /\ ToSet(services[j].weak) \subseteq Named
         /\ ToSet(services[j].roots) \subseteq Named
         /\ ToSet(services[j].cached) \subseteq Named
  BY DEF Named, Registered

(* So are those a name depends on. *)
LEMMA DepsNamed ==
  ASSUME services \in Seq(Registration), NEW n, Registered(n) # {}
  PROVE  /\ n \in Named /\ Deps(n) \subseteq Named
         /\ Node(n).deps \in Seq(STRING)
         /\ Deps(n) = ToSet(Node(n).deps)
<1>1. PICK j \in DOMAIN services : services[j].name = n /\ Node(n) = services[j]
  BY NodeRegistered
<1>2. Deps(n) = ToSet(services[j].deps)
  BY <1>1 DEF Deps, ToSet
<1> QED BY <1>1, <1>2, NamesNamed DEF Registration

(* The strong dependencies of a name are names of the document. *)
LEMMA StrongNamed ==
  ASSUME services \in Seq(Registration) PROVE \A n : StrongFrom(n) \subseteq Named
  BY DepsNamed DEF StrongFrom

(* A name of the document is a string. *)
LEMMA NamedStrings ==
  ASSUME services \in Seq(Registration) PROVE Named \subseteq STRING
<1>1. ASSUME NEW j \in DOMAIN services
      PROVE  /\ services[j].name \in STRING
             /\ ToSet(services[j].deps) \subseteq STRING
             /\ ToSet(services[j].weak) \subseteq STRING
             /\ ToSet(services[j].roots) \subseteq STRING
             /\ ToSet(services[j].cached) \subseteq STRING
  <2>1. services[j] \in Registration
    OBVIOUS
  <2> QED BY <2>1 DEF Registration, ToSet
<1> QED BY <1>1 DEF Named

(* What names bring along is what they name, and on along strong            *)
(* dependencies; and no more.                                               *)
LEMMA BringsSelf ==
  ASSUME NEW names, NEW x \in names, x \in Named PROVE x \in Brings(names)
  BY DEF Brings

(* What is brought along brings its strong dependencies. *)
LEMMA BringsOn ==
  ASSUME services \in Seq(Registration), NEW names, NEW x \in Brings(names),
         NEW d \in StrongFrom(x)
  PROVE  d \in Brings(names)
  BY StrongNamed DEF Brings

(* It is the least such set. *)
LEMMA BringsWithin ==
  ASSUME NEW names, NEW S, S \subseteq Named, names \subseteq S,
         \A x \in S : StrongFrom(x) \subseteq S
  PROVE  Brings(names) \subseteq S
  BY DEF Brings

(* It is a set of names of the document. *)
LEMMA BringsNamed == \A names : Brings(names) \subseteq Named
  BY DEF Brings

(* The codes are five different ones. *)
LEMMA CodesFive ==
  /\ Codes[1] = "DI001" /\ Codes[2] = "DI003" /\ Codes[3] = "DI002"
  /\ Codes[4] = "DI004" /\ Codes[5] = "DI005" /\ Len(Codes) = 5
  /\ \A c, d \in 1 .. 5 : Codes[c] = Codes[d] => c = d
  /\ ToSet(Codes) = {Codes[c] : c \in 1 .. 5}
  BY DEF Codes, ToSet

(* What a singleton holds are names of the document. *)
LEMMA HoldsNamed ==
  ASSUME services \in Seq(Registration), NEW j \in DOMAIN services, NEW c \in 1 .. 5
  PROVE  Holds(Codes[c], services[j]) \subseteq Named
  BY NamesNamed, DepsNamed, CodesFive DEF Holds

(* The registrations stay, and with them what is said of names. *)
LEMMA ServicesStay ==
  ASSUME services' = services
  PROVE  /\ \A n : Registered(n)' = Registered(n) /\ Node(n)' = Node(n)
         /\ \A n : Deps(n)' = Deps(n) /\ StrongFrom(n)' = StrongFrom(n)
         /\ Named' = Named /\ Singles' = Singles
         /\ \A names : Brings(names)' = Brings(names)
         /\ \A code : OfInterest(code)' = OfInterest(code)
         /\ \A code, s : Holds(code, s)' = Holds(code, s) /\ Bringing(code, s)' = Bringing(code, s)
<1>1. \A n : Registered(n)' = Registered(n) /\ Node(n)' = Node(n)
  BY DEF Registered, Node
<1>2. \A n : Deps(n)' = Deps(n) /\ StrongFrom(n)' = StrongFrom(n)
  BY <1>1 DEF Deps, StrongFrom
<1>3. Named' = Named /\ Singles' = Singles
  BY DEF Named, Singles
<1>4. \A names : Brings(names)' = Brings(names)
  BY <1>2, <1>3 DEF Brings
<1>5. \A code : OfInterest(code)' = OfInterest(code)
  BY <1>1, <1>3 DEF OfInterest
<1>6. \A code, s : Holds(code, s)' = Holds(code, s)
  BY <1>2 DEF Holds
<1>7. \A code, s : Bringing(code, s)' = Bringing(code, s)
  BY <1>4, <1>5, <1>6 DEF Bringing
<1> QED BY <1>1, <1>2, <1>3, <1>4, <1>5, <1>6, <1>7

(* A step within a search leaves what the search is about. *)
LEMMA SameSearch ==
  ASSUME UNCHANGED <<services, check, single>>
  PROVE  /\ Code' = Code /\ Holder' = Holder /\ (ByEdge' <=> ByEdge)
         /\ \A s : Wanted(s)' <=> Wanted(s)
         /\ entries' = entries =>
              /\ Entry' = Entry /\ Starts' = Starts
              /\ \A p, seen : Trail(p, seen)' <=> Trail(p, seen)
              /\ \A w, seen : Led(w, seen)' <=> Led(w, seen)
              /\ \A w, seen : Walked(w, seen)' <=> Walked(w, seen)
<1>1. Code' = Code /\ Holder' = Holder /\ (ByEdge' <=> ByEdge)
  BY DEF Code, Holder, ByEdge
<1>2. \A s : Wanted(s)' <=> Wanted(s)
  BY <1>1 DEF Wanted
<1>3. entries' = entries =>
              /\ Entry' = Entry /\ Starts' = Starts
              /\ \A p, seen : Trail(p, seen)' <=> Trail(p, seen)
              /\ \A w, seen : Led(w, seen)' <=> Led(w, seen)
              /\ \A w, seen : Walked(w, seen)' <=> Walked(w, seen)
  <2> SUFFICES ASSUME entries' = entries
      PROVE  /\ Entry' = Entry /\ Starts' = Starts
             /\ \A p, seen : Trail(p, seen)' <=> Trail(p, seen)
             /\ \A w, seen : Led(w, seen)' <=> Led(w, seen)
             /\ \A w, seen : Walked(w, seen)' <=> Walked(w, seen)
    OBVIOUS
  <2>1. Entry' = Entry
    BY <1>1 DEF Entry
  <2>2. Starts' = Starts
    BY <1>1, <2>1, ServicesStay DEF Starts
  <2>3. \A p, seen : Trail(p, seen)' <=> Trail(p, seen)
    BY <1>1, <2>2, ServicesStay DEF Trail
  <2>4. \A w, seen : Led(w, seen)' <=> Led(w, seen)
    BY <2>2, <2>3, ServicesStay DEF Led
  <2> QED BY <1>1, <2>1, <2>2, <2>3, <2>4 DEF Walked
<1> QED BY <1>1, <1>2, <1>3

(* A search is that of a code, from a registration. *)
LEMMA SearchOf ==
  ASSUME DiTyped, DiShape, single >= 1
  PROVE  /\ check \in 1 .. 5 /\ Code = Codes[check] /\ Code \in ToSet(Codes)
         /\ Len(services) \in Nat /\ DOMAIN services = 1 .. Len(services)
         /\ single \in DOMAIN services /\ Holder = services[single]
         /\ Holder \in Registration
<1>1. check \in 1 .. 5
  BY DEF DiTyped, DiShape
<1>2. single \in DOMAIN services /\ DOMAIN services = 1 .. Len(services) /\ Len(services) \in Nat
  BY DEF DiTyped
<1>3. services[single] \in Registration
  BY <1>2 DEF DiTyped
<1> QED BY <1>1, <1>2, <1>3, CodesFive DEF Code, Holder

(* A search from a singleton is one from a registration. *)
LEMMA SinglesAre ==
  ASSUME DiTyped, single \in Singles
  PROVE  single >= 1 /\ Holder = services[single]
  BY DEF DiTyped, Singles, Holder

(* A search starts at what the singleton holds. *)
LEMMA SourcesHeld ==
  ASSUME DiTyped, DiShape, Active
  PROVE  /\ Starts \subseteq Holds(Code, Holder) /\ Starts \subseteq Named
         /\ Code # "DI005" => Starts = Holds(Code, Holder)
         /\ Code = "DI005" => Entry \in ToSet(Holder.cached)
<1>1. single >= 1
  BY SinglesAre DEF Active
<1>2. Holds(Code, Holder) \subseteq Named
  BY <1>1, SearchOf, HoldsNamed DEF DiTyped
<1>3. ASSUME Code = "DI005" PROVE Entry \in ToSet(Holder.cached)
  <2>1. Holder.cached \in Seq(STRING) /\ entries \in Seq(STRING)
    BY <1>1, SearchOf DEF Registration, DiTyped
  <2>2. Len(entries) < Len(Holder.cached)
    BY <1>3 DEF Active
  <2>3. Len(Holder.cached) - Len(entries) \in DOMAIN Holder.cached
    BY <2>1, <2>2
  <2> QED BY <2>3 DEF Entry, ToSet
<1>4. Starts \subseteq Holds(Code, Holder)
  <2>1. CASE Code = "DI005"
    BY <1>3, <2>1 DEF Starts, Holds
  <2>2. CASE Code # "DI005"
    BY <2>2 DEF Starts
  <2> QED BY <2>1, <2>2
<1> QED BY <1>2, <1>3, <1>4 DEF Starts

(* With nothing left to look at, no wanted service is left out. *)
LEMMA Exhausted ==
  ASSUME DiTyped, DiShape, DiFollowed, DiCovered, Active, walk = << >>, edges = << >>
  PROVE  \A x \in Brings(Starts) \cap OfInterest(Code) : Code # "DI005" /\ x \in reported
<1> DEFINE S == {x \in Named : Handled(x)}
<1>1. single >= 1 /\ services \in Seq(Registration)
  BY SinglesAre DEF Active, DiTyped
<1>2. NamesIn(walk) = {} /\ Pending = {}
  BY DEF Pending, NamesIn
<1>3. Starts \subseteq Named
  BY SourcesHeld
<1>4. Registered(Holder.name) # {}
  BY <1>1, SearchOf, NamesNamed
<1>5. Starts \subseteq S
  <2>1. CASE ByEdge
    <3>1. Starts = Deps(Holder.name)
      BY <2>1 DEF Starts, Holds, ByEdge
    <3> QED BY <1>2, <1>3, <2>1, <3>1 DEF DiCovered, SeenTo
  <2>2. CASE ~ ByEdge
    BY <1>2, <1>3, <2>2 DEF DiCovered, SeenTo
  <2> QED BY <2>1, <2>2
<1>6. ASSUME NEW x \in S PROVE StrongFrom(x) \subseteq S
  <2>1. CASE Registered(x) # {} /\ Node(x).life = "transient"
    <3>1. x \in visited
      BY <2>1 DEF Handled
    <3>2. \A d \in Deps(x) : Handled(d)
      BY <1>2, <3>1 DEF DiCovered, SeenTo
    <3>3. Deps(x) \subseteq Named
      BY <1>1, <2>1, DepsNamed
    <3> QED BY <3>2, <3>3 DEF StrongFrom
  <2>2. CASE ~ (Registered(x) # {} /\ Node(x).life = "transient")
    BY <2>2 DEF StrongFrom
  <2> QED BY <2>1, <2>2
<1>7. Brings(Starts) \subseteq S
  <2>1. S \subseteq Named
    OBVIOUS
  <2> HIDE DEF S
  <2> QED BY <1>5, <1>6, <2>1, BringsWithin
<1>8. ASSUME NEW x \in S, x \in OfInterest(Code) PROVE Code # "DI005" /\ x \in reported
  <2>1. Registered(x) # {} /\ Wanted(Node(x))
    BY <1>8 DEF OfInterest, Wanted
  <2> QED BY <2>1 DEF Handled
<1> QED BY <1>7, <1>8

(* A cached type whose search has ended is reported if it brings one along. *)
LEMMA EntryOver ==
  ASSUME DiInv, Active, Code = "DI005", walk = << >>, edges = << >>
  PROVE  Brings({Entry}) \cap OfInterest("DI005") = {}
<1>1. Starts = {Entry}
  BY DEF Starts
<1> QED BY <1>1, Exhausted DEF DiInv

(* A search that is over has reported what it should. *)
LEMMA SearchOver ==
  ASSUME DiInv, ~ Searching, single >= 1
  PROVE  reported = IF single \in Singles THEN Bringing(Code, Holder) ELSE {}
<1>1. walk = << >> /\ edges = << >> /\ entries = << >>
  BY DEF Searching
<1>2. CASE single \notin Singles
  BY <1>2 DEF DiInv, DiShape
<1>3. CASE single \in Singles /\ Code # "DI005"
  <2>1. Active
    BY <1>3 DEF Active
  <2>2. Starts = Holds(Code, Holder)
    BY <1>3 DEF Starts
  <2>3. Brings(Starts) \cap OfInterest(Code) \subseteq reported
    BY <1>1, <2>1, Exhausted DEF DiInv
  <2> QED BY <1>3, <2>2, <2>3 DEF DiInv, DiSound, Bringing
<1>4. CASE single \in Singles /\ Code = "DI005"
  <2>1. PICK n : n = Len(Holder.cached)
    OBVIOUS
  <2>2. Holder.cached \in Seq(STRING) /\ n \in Nat /\ DOMAIN Holder.cached = 1 .. n
    BY <2>1, SearchOf DEF Registration, DiInv
  <2>3. Len(entries) = 0
    BY <1>1
  <2>4. \A j \in 1 .. n - 1 : Holder.cached[j] \in Bringing("DI005", Holder) => Holder.cached[j] \in reported
    BY <1>4, <2>1, <2>2, <2>3 DEF DiInv, DiCachedDone
  <2>5. ASSUME n \in 1 .. n, Holder.cached[n] \notin reported
        PROVE  Holder.cached[n] \notin Bringing("DI005", Holder)
    <3>1. Entry = Holder.cached[n]
      BY <2>1, <2>2, <2>3 DEF Entry
    <3>2. Active
      BY <1>4, <2>1, <2>2, <2>3, <2>5, <3>1 DEF Active
    <3> QED BY <1>1, <1>4, <3>1, <3>2, EntryOver DEF Bringing
  <2>6. Bringing("DI005", Holder) \subseteq reported
    <3>1. ASSUME NEW x \in Bringing("DI005", Holder) PROVE x \in reported
      <4>1. PICK j \in 1 .. n : x = Holder.cached[j]
        BY <2>2 DEF Bringing, ToSet
      <4>2. CASE j = n
        BY <2>5, <4>1, <4>2
      <4>3. CASE j # n
        <5>1. j \in 1 .. n - 1
          BY <2>2, <4>3
        <5> QED BY <2>4, <4>1, <5>1
      <4> QED BY <4>2, <4>3
    <3> QED BY <3>1
  <2> QED BY <1>4, <2>6 DEF DiInv, DiSound
<1> QED BY <1>2, <1>3, <1>4

(* So it joins the searches that are over. *)
LEMMA PastGrows ==
  ASSUME DiInv, ~ Searching
  PROVE  \A c \in 1 .. 5, j \in DOMAIN services :
           c < check \/ (c = check /\ j <= single) => Exactly(Codes[c], j)
<1> SUFFICES ASSUME NEW c \in 1 .. 5, NEW j \in DOMAIN services,
                    c < check \/ (c = check /\ j <= single)
             PROVE  Exactly(Codes[c], j)
  OBVIOUS
<1>0. DOMAIN services = 1 .. Len(services) /\ Len(services) \in Nat /\ check \in 1 .. 6
      /\ single \in 0 .. Len(services)
  BY DEF DiInv, DiTyped
<1>1. CASE c = check /\ j = single
  <2>1. single >= 1
    BY <1>0, <1>1
  <2>2. Codes[c] = Code /\ services[j] = Holder
    BY <1>1 DEF Code, Holder
  <2>3. reported = IF j \in Singles THEN Bringing(Code, Holder) ELSE {}
    BY <1>1, <2>1, SearchOver
  <2> QED BY <1>1, <2>1, <2>2, <2>3 DEF DiInv, DiTally, Exactly
<1>2. CASE ~ (c = check /\ j = single)
  <2>1. Over(c, j)
    BY <1>0, <1>2 DEF Over
  <2> QED BY <2>1 DEF DiInv, DiPast
<1> QED BY <1>1, <1>2

(* What is said of a finding depends on the registrations only. *)
LEMMA RealStays ==
  ASSUME services' = services PROVE \A f : Real(f)' <=> Real(f)
  BY ServicesStay DEF Real

(* A step that finds nothing leaves the findings right. *)
LEMMA CaptivesStay ==
  ASSUME DiTally, DiPast, DiReal, UNCHANGED <<services, check, single, captives, reported>>
  PROVE  DiTally' /\ DiPast' /\ DiReal'
<1>1. \A code, j : Found(code, j)' = Found(code, j)
  BY DEF Found
<1>2. ASSUME NEW code, NEW j PROVE Exactly(code, j)' <=> Exactly(code, j)
  <2>1. services' = services /\ captives' = captives /\ Singles' = Singles
    BY ServicesStay
  <2>2. Bringing(code, services[j])' = Bringing(code, services[j])
    BY <2>1, ServicesStay
  <2> QED BY <1>1, <2>1, <2>2 DEF Exactly, Key
<1>3. Code' = Code /\ \A c, j : Over(c, j)' <=> Over(c, j)
  BY DEF Code, Over
<1>4. DiTally'
  BY <1>1, <1>3 DEF DiTally, Key
<1>5. DiPast'
  BY <1>2, <1>3 DEF DiPast, Over
<1>6. DiReal'
  BY RealStays DEF DiReal
<1> QED BY <1>4, <1>5, <1>6

(* A new finding is one of the search that goes on, and of a key of its own. *)
LEMMA CaptivesGrow ==
  ASSUME DiTyped, DiShape, DiTally, DiPast, DiReal, single >= 1,
         UNCHANGED <<services, check, single>>,
         NEW f \in Finding, captives' = Append(captives, f),
         f.code = Code, f.single = single, Key(f) \notin reported,
         reported' = reported \cup {Key(f)}, Real(f)
  PROVE  DiTally' /\ DiPast' /\ DiReal' /\ captives' \in Seq(Finding)
<1>1. PICK n : n = Len(captives)
  OBVIOUS
<1>2. /\ n \in Nat /\ captives \in Seq(Finding) /\ captives' \in Seq(Finding)
      /\ DOMAIN captives = 1 .. n /\ DOMAIN captives' = 1 .. n + 1
      /\ captives'[n + 1] = f /\ \A k \in 1 .. n : captives'[k] = captives[k]
  BY <1>1 DEF DiTyped
<1>3. Code' = Code /\ \A c, j : Over(c, j)' <=> Over(c, j)
  BY DEF Code, Over
<1>4. check \in 1 .. 5 /\ Code = Codes[check]
  BY SearchOf
<1>5. \A code, j : \A k : k \in Found(code, j)' <=>
         k \in Found(code, j) \/ (k = n + 1 /\ code = Code /\ j = single)
  BY <1>2 DEF Found
<1>6. \A code, j : \A k \in Found(code, j) : captives'[k] = captives[k] /\ k \in 1 .. n
  BY <1>2 DEF Found
<1>7. \A g : Key(g)' = Key(g)
  BY DEF Key
<1>8. DiTally'
  <2>1. /\ reported = {Key(captives[k]) : k \in Found(Code, single)}
        /\ \A k, l \in Found(Code, single) : Key(captives[k]) = Key(captives[l]) => k = l
    BY DEF DiTally
  <2>2. PICK F, G : F = Found(Code, single) /\ G = F \cup {n + 1}
    OBVIOUS
  <2>3. \A c, j : c = Code /\ j = single => Found(c, j)' = G
    BY <1>5, <2>2
  <2>4. \A k \in F : captives'[k] = captives[k] /\ k # n + 1
    BY <1>2, <1>6, <2>2
  <2>5. \A k \in F : Key(captives'[k]) = Key(captives[k]) /\ Key(captives'[k]) \in reported
    BY <2>1, <2>2, <2>4
  <2>6. Key(captives'[n + 1]) = Key(f)
    BY <1>2
  <2>7. reported' = {Key(captives'[k]) : k \in G}
    <3>0. {Key(captives'[k]) : k \in F} = {Key(captives[k]) : k \in F}
      BY <2>5
    <3>1. reported = {Key(captives'[k]) : k \in F}
      BY <2>1, <2>2, <3>0
    <3> QED BY <2>2, <2>6, <3>1
  <2>8. \A k, l \in G : Key(captives'[k]) = Key(captives'[l]) => k = l
    <3>1. ASSUME NEW k \in G, NEW l \in G, Key(captives'[k]) = Key(captives'[l]) PROVE k = l
      <4>1. CASE k \in F /\ l \in F
        BY <2>1, <2>2, <2>5, <3>1, <4>1
      <4>2. CASE k = n + 1 \/ l = n + 1
        <5>1. k \in F \/ l \in F => Key(f) \in reported
          BY <2>4, <2>5, <2>6, <3>1, <4>2
        <5> QED BY <2>2, <4>2, <5>1
      <4> QED BY <2>2, <4>1, <4>2
    <3> QED BY <3>1
  <2>9. Found(Code, single)' = G
    BY <1>3, <2>3
  <2> QED BY <1>7, <2>7, <2>8, <2>9 DEF DiTally, Key
<1>9. DiPast'
  <2>1. ASSUME NEW c \in 1 .. 5, NEW j \in DOMAIN services, Over(c, j)
        PROVE  Exactly(Codes[c], j)'
    <3>1. PICK code : code = Codes[c]
      OBVIOUS
    <3>2. code # Code \/ j # single
      BY <1>4, <2>1, <3>1, CodesFive DEF Over, DiTyped
    <3>3. Found(code, j)' = Found(code, j)
      BY <1>2, <3>2 DEF Found
    <3>4. Exactly(code, j)
      BY <2>1, <3>1 DEF DiPast
    <3>5. \A k \in Found(code, j) : captives'[k] = captives[k]
      BY <1>6
    <3>6. {Key(captives'[k]) : k \in Found(code, j)} = {Key(captives[k]) : k \in Found(code, j)}
      BY <3>5
    <3>7. /\ {Key(captives'[k]) : k \in Found(code, j)} =
                IF j \in Singles THEN Bringing(code, services[j]) ELSE {}
          /\ \A k, l \in Found(code, j) : Key(captives'[k]) = Key(captives'[l]) => k = l
      BY <3>4, <3>5, <3>6 DEF Exactly
    <3>8. Exactly(code, j)'
      BY <3>3, <3>7, ServicesStay DEF Exactly, Key
    <3> QED BY <3>1, <3>8
  <2>2. ASSUME NEW k \in DOMAIN captives'
        PROVE  \E c \in 1 .. 5 : captives'[k].code = Codes[c] /\
                 (\/ Over(c, captives'[k].single)
                  \/ c = check /\ captives'[k].single = single)
    <3>1. CASE k = n + 1
      BY <1>2, <1>4, <3>1
    <3>2. CASE k # n + 1
      <4>1. k \in DOMAIN captives /\ captives'[k] = captives[k]
        BY <1>2, <3>2
      <4> QED BY <4>1 DEF DiPast
    <3> QED BY <3>1, <3>2
  <2> QED BY <1>3, <2>1, <2>2 DEF DiPast, Over
<1>10. DiReal'
  <2>1. \A k \in DOMAIN captives' : Real(captives'[k])
    BY <1>2 DEF DiReal
  <2>2. \A k \in DOMAIN captives' : \A g : g = captives'[k] => Real(g)'
    BY <2>1, RealStays
  <2> QED BY <2>2 DEF DiReal
<1> QED BY <1>2, <1>8, <1>9, <1>10

(* A chain to a service goes on along one of its strong dependencies. *)
LEMMA TrailOn ==
  ASSUME NEW p \in Seq(STRING), NEW seen, Trail(p, seen), NEW n, p[Len(p)] = n,
         NEW more, seen \subseteq more, n \in more,
         \A j \in 2 .. Len(p) - 1 : p[j] # n,
         NEW d \in STRING, d \in StrongFrom(n)
  PROVE  /\ Append(p, d) \in Seq(STRING) /\ Append(p, d)[Len(Append(p, d))] = d
         /\ Trail(Append(p, d), more)
<1>1. PICK q, l : q = Append(p, d) /\ l = Len(p)
  OBVIOUS
<1>2. /\ l \in Nat /\ l >= 2 /\ q \in Seq(STRING) /\ Len(q) = l + 1 /\ q[l + 1] = d
      /\ \A j \in 1 .. l : q[j] = p[j]
  BY <1>1 DEF Trail
<1>3. q[1] = Holder.name /\ q[2] \in Starts
  BY <1>2 DEF Trail
<1>4. ASSUME NEW j \in 2 .. l PROVE q[j] \in more /\ q[j + 1] \in StrongFrom(q[j])
  <2>1. CASE j = l
    <3>1. p[l] = n
      BY <1>1
    <3>2. q[l] = p[l] /\ q[l + 1] = d
      BY <1>2
    <3> QED BY <2>1, <3>1, <3>2
  <2>2. CASE j # l
    <3>1. j \in 2 .. l - 1 /\ q[j] = p[j] /\ q[j + 1] = p[j + 1]
      BY <1>2, <2>2
    <3> QED BY <1>1, <3>1 DEF Trail
  <2> QED BY <2>1, <2>2
<1>5. ASSUME NEW i \in 2 .. l, NEW j \in 2 .. l, q[i] = q[j] PROVE i = j
  <2>1. q[i] = p[i] /\ q[j] = p[j]
    BY <1>2
  <2>2. CASE i = l \/ j = l
    <3>1. p[l] = n /\ \A k \in 2 .. l : k # l => p[k] # n
      <4>1. \A k \in 2 .. l : k # l => k \in 2 .. Len(p) - 1
        BY <1>1, <1>2
      <4> QED BY <1>1, <4>1
    <3> QED BY <1>5, <2>1, <2>2, <3>1
  <2>3. CASE i # l /\ j # l
    <3>1. i \in 2 .. l - 1 /\ j \in 2 .. l - 1
      BY <1>2, <2>3
    <3> QED BY <1>1, <1>5, <2>1, <3>1 DEF Trail
  <2> QED BY <2>2, <2>3
<1>6. Trail(q, more)
  BY <1>2, <1>3, <1>4, <1>5 DEF Trail
<1> QED BY <1>1, <1>2, <1>6

(* A chain stays one when more is visited. *)
LEMMA TrailsWiden ==
  ASSUME NEW seen, NEW more, seen \subseteq more
  PROVE  \A w : (Led(w, seen) => Led(w, more)) /\ (Walked(w, seen) => Walked(w, more))
<1>1. \A p : Trail(p, seen) => Trail(p, more)
  BY DEF Trail
<1> QED BY <1>1 DEF Led, Walked

(* What is on top of the walk, and what is beneath it. *)
LEMMA WalkTop ==
  ASSUME DiTyped, walk # << >>
  PROVE  LET n == Len(walk) IN
         /\ n \in Nat /\ n >= 1 /\ DOMAIN walk = 1 .. n
         /\ Last(walk) = walk[n] /\ walk[n] = <<Current, Path>> /\ Last(walk) = <<Current, Path>>
         /\ Current \in STRING /\ Path \in Seq(STRING)
         /\ Beneath \in Seq(Chains) /\ DOMAIN Beneath = 1 .. n - 1
         /\ Len(Beneath) = n - 1
         /\ \A j \in 1 .. n - 1 : Beneath[j] = walk[j]
         /\ NamesIn(walk) = NamesIn(Beneath) \cup {Current}
<1>1. PICK n : n = Len(walk)
  OBVIOUS
<1>2. PICK b : b = Beneath
  OBVIOUS
<1>3. b = SubSeq(walk, 1, Len(walk) - 1) /\ Last(walk) = walk[n]
  BY <1>1, <1>2 DEF Beneath, Front, Last
<1>4. /\ n \in Nat /\ n >= 1 /\ walk[n] \in Chains /\ DOMAIN walk = 1 .. n
      /\ b \in Seq(Chains) /\ Len(b) = n - 1 /\ DOMAIN b = 1 .. n - 1
      /\ \A j \in 1 .. n - 1 : b[j] = walk[j]
  BY <1>1, <1>3, TopOf DEF DiTyped
<1>5. walk[n] = <<Current, Path>> /\ Current \in STRING /\ Path \in Seq(STRING)
  BY <1>3, <1>4 DEF Current, Path, Chains
<1>6. NamesIn(walk) = NamesIn(b) \cup {Current}
  <2>1. NamesIn(walk) = {walk[j][1] : j \in 1 .. n}
    BY <1>4 DEF NamesIn
  <2>2. NamesIn(b) = {walk[j][1] : j \in 1 .. n - 1}
    BY <1>4 DEF NamesIn
  <2>3. walk[n][1] = Current
    BY <1>5
  <2>4. \A j : j \in 1 .. n <=> j \in 1 .. n - 1 \/ j = n
    BY <1>4
  <2> QED BY <2>1, <2>2, <2>3, <2>4
<1> QED BY <1>1, <1>2, <1>3, <1>4, <1>5, <1>6

(* What is on top of the stack was led to. *)
LEMMA WalkedTop ==
  ASSUME DiTyped, DiTrails, walk # << >>
  PROVE  /\ Walked(<<Current, Path>>, visited)
         /\ \A j \in DOMAIN Beneath : Walked(Beneath[j], visited)
<1>1. PICK n : n = Len(walk)
  OBVIOUS
<1>2. /\ n \in DOMAIN walk /\ walk[n] = <<Current, Path>> /\ DOMAIN walk = 1 .. n /\ n \in Nat
      /\ DOMAIN Beneath = 1 .. n - 1 /\ \A j \in 1 .. n - 1 : Beneath[j] = walk[j]
  BY <1>1, WalkTop
<1>3. Walked(walk[n], visited)
  BY <1>2 DEF DiTrails
<1>4. ASSUME NEW j \in DOMAIN Beneath PROVE Walked(Beneath[j], visited)
  <2>1. j \in DOMAIN walk /\ Beneath[j] = walk[j]
    BY <1>2
  <2> QED BY <2>1 DEF DiTrails
<1> QED BY <1>2, <1>3, <1>4

(* The dependencies of the service taken, with the chains to them. *)
LEMMA OnwardChains ==
  ASSUME DiTyped, walk # << >>, Registered(Current) # {}
  PROVE  /\ Onward \in Seq(Chains) /\ NamesIn(Onward) = Deps(Current)
         /\ \A j \in DOMAIN Onward :
              Onward[j][1] \in Deps(Current) /\ Onward[j] = <<Onward[j][1], Append(Path, Onward[j][1])>>
<1>1. Current \in STRING /\ Path \in Seq(STRING)
  BY WalkTop
<1>2. PICK ds : ds = Node(Current).deps
  OBVIOUS
<1>3. ds \in Seq(STRING) /\ Deps(Current) = {ds[j] : j \in DOMAIN ds}
  BY <1>2, DepsNamed DEF DiTyped, Deps
<1>4. Onward = [j \in DOMAIN ds |-> <<ds[j], Append(Path, ds[j])>>]
  BY <1>2 DEF Onward
<1>5. PICK m : m = Len(ds)
  OBVIOUS
<1>6. m \in Nat /\ DOMAIN ds = 1 .. m /\ \A j \in 1 .. m : ds[j] \in STRING
  BY <1>3, <1>5
<1>7. \A j \in 1 .. m : <<ds[j], Append(Path, ds[j])>> \in Chains
  BY <1>1, <1>6 DEF Chains
<1>8. DOMAIN Onward = 1 .. m /\ \A j \in 1 .. m : Onward[j] = <<ds[j], Append(Path, ds[j])>>
  BY <1>4, <1>6
<1>9. Onward \in Seq(Chains)
  BY <1>4, <1>6, <1>7
<1>10. \A j \in 1 .. m : Onward[j][1] = ds[j]
  BY <1>8
<1>11. NamesIn(Onward) = Deps(Current)
  BY <1>3, <1>6, <1>8, <1>10 DEF NamesIn
<1> QED BY <1>3, <1>6, <1>8, <1>9, <1>10, <1>11

Within == UNCHANGED <<services, check, single, entries>>

(* A step within a search keeps what is said of its place in the check. *)
LEMMA ShapeKept ==
  ASSUME DiShape, Within, walk # << >> \/ edges # << >>,
         walk' # << >> \/ edges' # << >> => Active',
         edges' # << >> => ByEdge
  PROVE  DiShape'
<1>1. /\ Code' = Code /\ Holder' = Holder /\ (ByEdge' <=> ByEdge) /\ Singles' = Singles
      /\ services' = services /\ check' = check /\ single' = single /\ entries' = entries
  BY SameSearch, ServicesStay DEF Within
<1>2. Active /\ single \in Singles /\ check <= 5
  BY DEF DiShape, Active, Searching
<1> QED BY <1>1, <1>2 DEF DiShape, Searching

(* DI005: the cached types already searched from stay done. *)
LEMMA CachedKept ==
  ASSUME DiCachedDone, Within, reported \subseteq reported'
  PROVE  DiCachedDone'
<1>1. /\ Code' = Code /\ Holder' = Holder /\ Singles' = Singles
      /\ single' = single /\ entries' = entries
      /\ Bringing("DI005", Holder)' = Bringing("DI005", Holder)
  BY SameSearch, ServicesStay DEF Within
<1> QED BY <1>1 DEF DiCachedDone

(* A search that may report still may, until DI005 reports. *)
LEMMA ActiveKept ==
  ASSUME Active, Within, Code = "DI005" => reported' = reported
  PROVE  Active'
<1>1. /\ Code' = Code /\ Holder' = Holder /\ Singles' = Singles /\ Entry' = Entry
      /\ single' = single /\ entries' = entries
  BY SameSearch, ServicesStay DEF Within
<1> QED BY <1>1 DEF Active

(* What is handled stays handled. *)
LEMMA HandledKept ==
  ASSUME Within, reported \subseteq reported', visited \subseteq visited'
  PROVE  \A x : Handled(x) => Handled(x)'
<1>1. Code' = Code /\ (\A s : Wanted(s)' <=> Wanted(s))
      /\ \A n : Registered(n)' = Registered(n) /\ Node(n)' = Node(n)
  BY SameSearch, ServicesStay DEF Within
<1>2. ASSUME NEW x, Handled(x) PROVE Handled(x)'
  <2>1. Wanted(Node(x))' <=> Wanted(Node(x))
    BY <1>1, SameSearch DEF Within, Wanted
  <2> QED BY <1>1, <1>2, <2>1 DEF Handled
<1> QED BY <1>2

(* What was followed is a transient, reported if it is wanted. *)
LEMMA FollowedKept ==
  ASSUME DiFollowed, Within, single >= 1, reported \subseteq reported',
         \A v \in visited' \ visited :
           /\ Registered(v) # {} /\ Node(v).life = "transient"
           /\ Wanted(Node(v)) => v \in reported'
  PROVE  DiFollowed'
<1>1. (\A s : Wanted(s)' <=> Wanted(s))
      /\ \A n : Registered(n)' = Registered(n) /\ Node(n)' = Node(n)
  BY SameSearch, ServicesStay DEF Within
<1>2. \A n : Wanted(Node(n))' <=> Wanted(Node(n))
  BY <1>1, SameSearch DEF Within, Wanted
<1> QED BY <1>1, <1>2 DEF DiFollowed, Within

(* DI001, DI003: the edges of a service are taken up. *)
LEMMA DiPopEdges == ASSUME DiInv, PopEdges PROVE DiInv'
<1>1. /\ walk # << >> /\ edges = << >> /\ ByEdge /\ walk' = Beneath /\ Within
      /\ edges' = IF Registered(Current) = {} THEN << >> ELSE Onward
      /\ UNCHANGED <<reported, visited, captives>>
  BY DEF PopEdges, ByEdge, Within
<1>2. DiTyped /\ DiShape /\ DiTrails /\ DiFollowed /\ DiCovered /\ Active /\ single \in Singles
      /\ single >= 1 /\ Holder = services[single] /\ single \in DOMAIN services
  BY <1>1, SinglesAre DEF DiInv, DiShape, Active, Singles
<1>3. Walked(<<Current, Path>>, visited)
  BY <1>1, <1>2, WalkedTop
<1>4. \/ Current = Holder.name /\ Path = <<Holder.name>>
      \/ /\ Current \in visited /\ Led(<<Current, Path>>, visited)
         /\ \A j \in 2 .. Len(Path) - 1 : Path[j] # Current
  BY <1>1, <1>3 DEF Walked
<1>5. Registered(Current) # {}
  BY <1>2, <1>4, NamesNamed DEF DiTyped, DiFollowed
<1>6. /\ edges' = Onward /\ edges' \in Seq(Chains) /\ NamesIn(Onward) = Deps(Current)
      /\ \A j \in DOMAIN edges' :
           /\ edges'[j][1] \in Deps(Current)
           /\ edges'[j] = <<edges'[j][1], Append(Path, edges'[j][1])>>
  BY <1>1, <1>2, <1>5, OnwardChains
<1>7. DiTyped'
  BY <1>1, <1>2, <1>6, WalkTop DEF DiTyped, Within
<1>8. DiShape'
  BY <1>1, <1>2, ActiveKept, ShapeKept
<1>9. \A d \in Deps(Current) : Led(<<d, Append(Path, d)>>, visited)
  <2> SUFFICES ASSUME NEW d \in Deps(Current) PROVE Led(<<d, Append(Path, d)>>, visited)
    OBVIOUS
  <2>1. d \in Named /\ d \in STRING
    BY <1>2, <1>5, DepsNamed, NamedStrings DEF DiTyped
  <2>2. CASE Current = Holder.name /\ Path = <<Holder.name>>
    <3>1. Starts = Deps(Holder.name)
      BY <1>1 DEF Starts, Holds, ByEdge
    <3>2. PICK q : q = Append(Path, d)
      OBVIOUS
    <3>3. Len(q) = 2 /\ q[1] = Holder.name /\ q[2] = d
      BY <2>2, <3>2
    <3>4. Trail(q, visited)
      BY <2>2, <3>1, <3>3 DEF Trail
    <3>5. d \in Brings(Starts)
      BY <2>1, <2>2, <3>1, BringsSelf
    <3> QED BY <3>2, <3>3, <3>4, <3>5 DEF Led
  <2>3. CASE /\ Current \in visited /\ Led(<<Current, Path>>, visited)
             /\ \A j \in 2 .. Len(Path) - 1 : Path[j] # Current
    <3>1. d \in StrongFrom(Current)
      BY <1>2, <2>3 DEF StrongFrom, DiFollowed
    <3>2. Trail(Path, visited) /\ Path[Len(Path)] = Current /\ Current \in Brings(Starts)
      BY <2>3 DEF Led
    <3>3. d \in Brings(Starts)
      BY <1>2, <3>1, <3>2, BringsOn DEF DiTyped
    <3>4. Path \in Seq(STRING)
      BY <1>1, <1>2, WalkTop
    <3>5. Append(Path, d)[Len(Append(Path, d))] = d /\ Trail(Append(Path, d), visited)
      BY <2>1, <2>3, <3>1, <3>2, <3>4, TrailOn
    <3> QED BY <3>3, <3>5 DEF Led
  <2> QED BY <1>4, <2>2, <2>3
<1>10. /\ \A w : (Walked(w, visited)' <=> Walked(w, visited)) /\ (Led(w, visited)' <=> Led(w, visited))
  BY <1>1, SameSearch DEF Within
<1>11. DiTrails'
  <2>1. \A j \in DOMAIN walk' : Walked(walk'[j], visited)
    BY <1>1, <1>2, WalkedTop
  <2>2. \A j \in DOMAIN edges' : Led(edges'[j], visited)
    BY <1>6, <1>9
  <2>3. visited' = visited
    BY <1>1
  <2>4. \A j \in DOMAIN walk' : \A w : w = walk'[j] => Walked(w, visited)'
    BY <1>10, <2>1
  <2>5. \A j \in DOMAIN edges' : \A w : w = edges'[j] => Led(w, visited)'
    BY <1>10, <2>2
  <2> QED BY <2>4, <2>5 DEF DiTrails
<1>12. DiFollowed'
  BY <1>1, <1>2, FollowedKept
<1>13. DiCovered'
  <2>1. /\ NamesIn(walk) = NamesIn(walk') \cup {Current} /\ NamesIn(edges) = {}
        /\ NamesIn(edges') = Deps(Current)
    <3>1. NamesIn(walk) = NamesIn(Beneath) \cup {Current}
      BY <1>1, <1>2, WalkTop
    <3>2. NamesIn(edges) = {}
      BY <1>1 DEF NamesIn
    <3> QED BY <1>1, <1>6, <3>1, <3>2
  <2>2. /\ ByEdge' /\ Holder' = Holder /\ \A n : Deps(n)' = Deps(n)
    BY <1>1, SameSearch, ServicesStay DEF Within
  <2>3. \A d \in Deps(Current) : SeenTo(d)'
    BY <2>1, <2>2 DEF SeenTo, Pending, NamesIn
  <2>4. \A x : Handled(x) => SeenTo(x)'
    BY <1>1, HandledKept DEF SeenTo
  <2>5. ASSUME NEW n \in visited \cup {Holder.name}, n \notin NamesIn(walk')
        PROVE  \A d \in Deps(n) : SeenTo(d)'
    <3>1. CASE n = Current
      BY <2>3, <3>1
    <3>2. CASE n # Current
      <4>1. \A d \in Deps(n) : SeenTo(d)
        BY <1>1, <1>2, <2>1, <2>5, <3>2 DEF DiCovered
      <4> QED BY <1>1, <2>1, <2>4, <4>1 DEF SeenTo, Pending
    <3> QED BY <3>1, <3>2
  <2>6. NamesIn(walk)' = NamesIn(walk') /\ visited' = visited
    BY <1>1 DEF NamesIn
  <2> QED BY <2>2, <2>5, <2>6 DEF DiCovered
<1>14. DiSound' /\ DiCachedDone'
  <2>1. DiCachedDone'
    BY <1>1, CachedKept DEF DiInv
  <2>2. Code' = Code /\ Holder' = Holder /\ Bringing(Code, Holder)' = Bringing(Code, Holder)
    BY <1>1, SameSearch, ServicesStay DEF Within
  <2> QED BY <1>1, <2>1, <2>2 DEF DiInv, DiSound, Within
<1>15. DiTally' /\ DiPast' /\ DiReal'
  BY <1>1, CaptivesStay DEF DiInv, Within
<1> QED BY <1>7, <1>8, <1>11, <1>12, <1>13, <1>14, <1>15 DEF DiInv

(* A wanted service, not reported yet, makes a finding with its chain.      *)
LEMMA RealFound ==
  ASSUME DiTyped, DiShape, DiFollowed, Active, NEW n \in STRING, NEW p \in Seq(STRING),
         Led(<<n, p>>, visited), Registered(n) # {}, Wanted(Node(n)),
         Code = "DI005" \/ n \notin reported
  PROVE  LET f == Captive(n, p) IN
         /\ f \in Finding /\ f.code = Code /\ f.single = single /\ f.captured = n
         /\ f.path = p /\ Real(f)
         /\ Key(f) = IF Code = "DI005" THEN p[2] ELSE n
         /\ n \in OfInterest(Code) /\ p[2] \in Starts
<1>1. single >= 1 /\ single \in DOMAIN services /\ Holder = services[single] /\ single \in Nat
      /\ Code \in ToSet(Codes)
  BY SinglesAre, SearchOf DEF Active, DiTyped
<1>2. PICK f : f = Captive(n, p)
  OBVIOUS
<1>3. f \in Finding /\ f.code = Code /\ f.single = single /\ f.captured = n /\ f.path = p
  BY <1>1, <1>2 DEF Captive, Finding
<1>4. Trail(p, visited) /\ p[Len(p)] = n /\ n \in Brings(Starts)
  BY DEF Led
<1>5. n \in OfInterest(Code)
  BY <1>4, BringsNamed DEF OfInterest, Wanted
<1>6. PICK l : l = Len(p)
  OBVIOUS
<1>7. l \in Nat /\ l >= 2
  BY <1>4, <1>6 DEF Trail
<1>8. ASSUME NEW j \in 2 .. l - 1 PROVE p[j] # n
  <2>1. p[j] \in visited
    BY <1>4, <1>6 DEF Trail
  <2>2. n \in visited => Node(n).life = "transient" /\ n \in reported
    BY <1>1 DEF DiFollowed
  <2>3. Code = "DI005" => Node(n).life = "scoped"
    BY DEF Wanted
  <2> QED BY <2>1, <2>2, <2>3
<1>9. ASSUME NEW i \in 2 .. l, NEW j \in 2 .. l, p[i] = p[j] PROVE i = j
  <2>1. \A k \in 2 .. l : k = l \/ k \in 2 .. l - 1
    BY <1>7
  <2>2. CASE i = l \/ j = l
    <3>1. p[l] = n
      BY <1>4, <1>6
    <3> QED BY <1>8, <1>9, <2>1, <2>2, <3>1
  <2>3. CASE i # l /\ j # l
    <3>1. i \in 2 .. l - 1 /\ j \in 2 .. l - 1
      BY <2>1, <2>3
    <3> QED BY <1>4, <1>6, <1>9, <3>1 DEF Trail
  <2> QED BY <2>2, <2>3
<1>10. p[2] \in Starts /\ p[2] \in Holds(Code, Holder)
  BY <1>4, SourcesHeld DEF Trail
<1>11. Real(f)
  BY <1>1, <1>3, <1>4, <1>5, <1>6, <1>7, <1>9, <1>10 DEF Real, Trail
<1> QED BY <1>2, <1>3, <1>5, <1>10, <1>11 DEF Key

(* DI001, DI003: a dependency is looked at. *)
LEMMA DiEdge == ASSUME DiInv, Edge PROVE DiInv'
<1>1. PICK e, n, p : e = Head(edges) /\ n = Dep /\ p = e[2]
  OBVIOUS
<1>2. /\ edges # << >> /\ edges' = Tail(edges) /\ Within
      /\ reported' = IF New THEN reported \cup {n} ELSE reported
      /\ captives' = IF New THEN Append(captives, Captive(n, p)) ELSE captives
      /\ visited' = IF Go THEN visited \cup {n} ELSE visited
      /\ walk' = IF Go THEN Append(walk, e) ELSE walk
  BY <1>1 DEF Edge, Within
<1>3. /\ DiTyped /\ DiShape /\ DiTrails /\ DiFollowed /\ DiCovered /\ Active
      /\ ByEdge /\ Code # "DI005" /\ single >= 1
  BY <1>2, SinglesAre DEF DiInv, DiShape, Active, ByEdge
<1>4. /\ edges \in Seq(Chains) /\ e = edges[1] /\ 1 \in DOMAIN edges /\ e \in Chains
      /\ Tail(edges) \in Seq(Chains)
      /\ \A j \in DOMAIN Tail(edges) : j + 1 \in DOMAIN edges /\ Tail(edges)[j] = edges[j + 1]
      /\ \A j \in DOMAIN edges : j = 1 \/ (j - 1 \in DOMAIN Tail(edges) /\ Tail(edges)[j - 1] = edges[j])
  BY <1>1, <1>2, <1>3 DEF DiTyped
<1>5. e = <<n, p>> /\ n = e[1] /\ n \in STRING /\ p \in Seq(STRING)
  BY <1>1, <1>4 DEF Chains, Dep
<1>6. Led(<<n, p>>, visited)
  BY <1>3, <1>4, <1>5 DEF DiTrails
<1>7. /\ New => Registered(n) # {} /\ Wanted(Node(n)) /\ n \notin reported
      /\ Go => Registered(n) # {} /\ Node(n).life = "transient" /\ n \notin visited
      /\ Registered(n) # {} /\ Wanted(Node(n)) => n \in reported'
      /\ Registered(n) # {} /\ Node(n).life = "transient" => n \in visited'
  BY <1>1, <1>2 DEF New, Go
<1>8. /\ reported \subseteq reported' /\ visited \subseteq visited'
      /\ reported' \subseteq reported \cup {n} /\ visited' \subseteq visited \cup {n}
  BY <1>2
<1>9. DiTally' /\ DiPast' /\ DiReal' /\ captives' \in Seq(Finding)
  <2>1. CASE New
    <3>1. PICK f : f = Captive(n, p)
      OBVIOUS
    <3>2. /\ f \in Finding /\ f.code = Code /\ f.single = single /\ Real(f) /\ Key(f) = n
      BY <1>3, <1>5, <1>6, <1>7, <2>1, <3>1, RealFound
    <3>3. Key(f) \notin reported /\ reported' = reported \cup {Key(f)} /\ captives' = Append(captives, f)
      BY <1>2, <1>7, <2>1, <3>1, <3>2
    <3> QED BY <1>2, <1>3, <3>2, <3>3, CaptivesGrow DEF DiInv, Within
  <2>2. CASE ~ New
    BY <1>2, <1>3, <2>2, CaptivesStay DEF DiInv, Within, DiTyped
  <2> QED BY <2>1, <2>2
<1>10. DiTyped'
  <2>1. walk' \in Seq(Chains)
    BY <1>2, <1>3, <1>4 DEF DiTyped
  <2>2. reported' \subseteq STRING /\ visited' \subseteq STRING
    BY <1>3, <1>5, <1>8 DEF DiTyped
  <2> QED BY <1>2, <1>3, <1>4, <1>9, <2>1, <2>2 DEF DiTyped, Within
<1>11. DiShape'
  BY <1>2, <1>3, ActiveKept, ShapeKept
<1>12. DiTrails'
  <2>1. \A w : (Led(w, visited) => Led(w, visited')) /\ (Walked(w, visited) => Walked(w, visited'))
    BY <1>8, TrailsWiden
  <2>2. \A j \in DOMAIN edges' : Led(edges'[j], visited')
    BY <1>2, <1>3, <1>4, <2>1 DEF DiTrails
  <2>3. ASSUME Go PROVE Walked(e, visited')
    <3>1. Led(e, visited') /\ n \in visited'
      BY <1>2, <1>5, <1>6, <2>1, <2>3
    <3>2. \A j \in 2 .. Len(p) - 1 : p[j] # n
      BY <1>6, <1>7, <2>3 DEF Led, Trail
    <3> QED BY <1>1, <1>3, <1>5, <3>1, <3>2 DEF Walked
  <2>4. \A j \in DOMAIN walk' : Walked(walk'[j], visited')
    <3>1. CASE Go
      <4>1. walk' = Append(walk, e) /\ walk \in Seq(Chains)
        BY <1>2, <1>3, <3>1 DEF DiTyped
      <4>2. \A j \in DOMAIN walk' : walk'[j] = e \/ (j \in DOMAIN walk /\ walk'[j] = walk[j])
        BY <4>1
      <4> QED BY <1>3, <2>1, <2>3, <3>1, <4>2 DEF DiTrails
    <3>2. CASE ~ Go
      BY <1>2, <1>3, <2>1, <3>2 DEF DiTrails
    <3> QED BY <3>1, <3>2
  <2>5. \A w, seen : (Walked(w, seen)' <=> Walked(w, seen)) /\ (Led(w, seen)' <=> Led(w, seen))
    BY <1>2, SameSearch DEF Within
  <2>6. \A j \in DOMAIN walk' : \A w, seen : w = walk'[j] /\ seen = visited' => Walked(w, seen)'
    BY <2>4, <2>5
  <2>7. \A j \in DOMAIN edges' : \A w, seen : w = edges'[j] /\ seen = visited' => Led(w, seen)'
    BY <2>2, <2>5
  <2> QED BY <2>6, <2>7 DEF DiTrails
<1>13. DiFollowed'
  <2>1. \A v \in visited' \ visited : v = n /\ Go
    BY <1>2, <1>8
  <2> QED BY <1>2, <1>3, <1>7, <1>8, <2>1, FollowedKept DEF DiInv
<1>14. DiCovered'
  <2>1. NamesIn(edges) = NamesIn(edges') \cup {n}
    <3>1. \A j \in DOMAIN edges' : edges'[j][1] \in NamesIn(edges)
      BY <1>2, <1>4 DEF NamesIn
    <3>2. \A j \in DOMAIN edges : edges[j][1] = n \/ edges[j][1] \in NamesIn(edges')
      BY <1>2, <1>4, <1>5 DEF NamesIn
    <3>3. n \in NamesIn(edges)
      BY <1>4, <1>5 DEF NamesIn
    <3>4. \A x \in NamesIn(edges') : x \in NamesIn(edges)
      <4>1. \A x \in NamesIn(edges') : \E j \in DOMAIN edges' : x = edges'[j][1]
        BY DEF NamesIn
      <4> QED BY <3>1, <4>1
    <3>5. \A x \in NamesIn(edges) : x = n \/ x \in NamesIn(edges')
      <4>1. \A x \in NamesIn(edges) : \E j \in DOMAIN edges : x = edges[j][1]
        BY DEF NamesIn
      <4> QED BY <3>2, <4>1
    <3> QED BY <3>3, <3>4, <3>5
  <2>2. /\ NamesIn(walk) \subseteq NamesIn(walk')
        /\ Go => n \in NamesIn(walk')
    <3>1. CASE Go
      <4>1. walk' = Append(walk, e) /\ walk \in Seq(Chains)
        BY <1>2, <1>3, <3>1 DEF DiTyped
      <4>2. PICK l : l = Len(walk)
        OBVIOUS
      <4>3. /\ l \in Nat /\ DOMAIN walk = 1 .. l /\ DOMAIN walk' = 1 .. l + 1
            /\ walk'[l + 1] = e /\ \A j \in 1 .. l : walk'[j] = walk[j]
        BY <4>1, <4>2
      <4>4. n \in NamesIn(walk')
        <5>1. l + 1 \in DOMAIN walk' /\ walk'[l + 1][1] = n
          BY <1>5, <4>3
        <5> QED BY <5>1 DEF NamesIn
      <4>5. \A j \in DOMAIN walk : j \in DOMAIN walk' /\ walk'[j] = walk[j]
        BY <4>3
      <4> QED BY <4>4, <4>5 DEF NamesIn
    <3>2. CASE ~ Go
      BY <1>2, <3>2
    <3> QED BY <3>1, <3>2
  <2>3. /\ ByEdge' /\ Holder' = Holder /\ Code' = Code
        /\ (\A x : Deps(x)' = Deps(x) /\ Registered(x)' = Registered(x) /\ Node(x)' = Node(x))
        /\ \A s : Wanted(s)' <=> Wanted(s)
    BY <1>2, <1>3, SameSearch, ServicesStay DEF Within
  <2>4. \A x : x = n => Handled(x)'
    <3>1. Wanted(Node(n))' => Wanted(Node(n))
      BY <1>2, SameSearch, ServicesStay DEF Within, Wanted
    <3>2. ASSUME NEW x, x = n PROVE Handled(x)'
      <4>1. Wanted(Node(x))' <=> Wanted(Node(x))
        BY <1>2, SameSearch, ServicesStay DEF Within, Wanted
      <4> QED BY <1>3, <1>7, <2>3, <3>2, <4>1 DEF Handled
    <3> QED BY <3>2
  <2>5. \A x : SeenTo(x) => SeenTo(x)'
    <3>1. \A x : Handled(x) => Handled(x)'
      BY <1>2, <1>8, HandledKept
    <3>2. Pending = NamesIn(edges) /\ Pending' = NamesIn(edges')
      BY <1>3, <2>3 DEF Pending, NamesIn
    <3> QED BY <2>1, <2>4, <3>1, <3>2 DEF SeenTo
  <2>6. ASSUME NEW m \in visited' \cup {Holder.name}, m \notin NamesIn(walk')
        PROVE  \A d \in Deps(m) : SeenTo(d)'
    <3>1. m \in visited \cup {Holder.name} /\ m \notin NamesIn(walk)
      BY <1>2, <2>2, <2>6
    <3>2. \A d \in Deps(m) : SeenTo(d)
      BY <1>3, <3>1 DEF DiCovered
    <3> QED BY <2>5, <3>2
  <2>7. \A w : w = walk' => NamesIn(walk)' = NamesIn(w)
    BY DEF NamesIn
  <2> QED BY <2>3, <2>6, <2>7 DEF DiCovered
<1>15. DiSound' /\ DiCachedDone'
  <2>1. DiCachedDone'
    BY <1>2, <1>8, CachedKept DEF DiInv
  <2>2. Code' = Code /\ Holder' = Holder /\ Bringing(Code, Holder)' = Bringing(Code, Holder)
    BY <1>2, SameSearch, ServicesStay DEF Within
  <2>3. New => n \in Bringing(Code, Holder)
    <3>1. ASSUME New PROVE n \in OfInterest(Code)
      BY <1>3, <1>5, <1>6, <1>7, <3>1, RealFound
    <3>2. n \in Brings(Holds(Code, Holder))
      BY <1>3, <1>6 DEF Led, Starts
    <3> QED BY <1>3, <3>1, <3>2 DEF Bringing
  <2> QED BY <1>2, <1>3, <2>1, <2>2, <2>3 DEF DiInv, DiSound, Within
<1> QED BY <1>9, <1>10, <1>11, <1>12, <1>13, <1>14, <1>15 DEF DiInv

(* What is in two walks, one after the other.                               *)
LEMMA WalksJoined ==
  ASSUME NEW s \in Seq(Chains), NEW t \in Seq(Chains), NEW u, u = s \o t
  PROVE  /\ u \in Seq(Chains) /\ NamesIn(u) = NamesIn(s) \cup NamesIn(t)
         /\ \A k \in DOMAIN u : \/ \E j \in DOMAIN s : u[k] = s[j]
                               \/ \E j \in DOMAIN t : u[k] = t[j]
<1>1. PICK m, n : m = Len(s) /\ n = Len(t)
  OBVIOUS
<1>2. /\ m \in Nat /\ n \in Nat /\ DOMAIN s = 1 .. m /\ DOMAIN t = 1 .. n
      /\ u \in Seq(Chains) /\ DOMAIN u = 1 .. m + n
      /\ \A j \in 1 .. m : u[j] = s[j]
      /\ \A j \in 1 .. n : u[m + j] = t[j]
  BY <1>1
<1>3. ASSUME NEW k \in DOMAIN u
      PROVE  (k \in 1 .. m /\ u[k] = s[k]) \/ (k - m \in 1 .. n /\ u[k] = t[k - m])
  <2>1. CASE k \in 1 .. m
    BY <1>2, <2>1
  <2>2. CASE k \notin 1 .. m
    <3>1. PICK j : j = k - m
      OBVIOUS
    <3>2. j \in 1 .. n /\ k = m + j
      BY <1>2, <2>2, <3>1
    <3> QED BY <1>2, <3>1, <3>2
  <2> QED BY <2>1, <2>2
<1>4. \A k \in DOMAIN u : \/ \E j \in DOMAIN s : u[k] = s[j]
                         \/ \E j \in DOMAIN t : u[k] = t[j]
  BY <1>2, <1>3
<1>5. \A x \in NamesIn(u) : x \in NamesIn(s) \/ x \in NamesIn(t)
  BY <1>4 DEF NamesIn
<1>6. \A x \in NamesIn(s) : x \in NamesIn(u)
  <2>1. \A j \in DOMAIN s : j \in DOMAIN u /\ u[j] = s[j]
    BY <1>2
  <2> QED BY <2>1 DEF NamesIn
<1>7. \A x \in NamesIn(t) : x \in NamesIn(u)
  <2>1. ASSUME NEW j \in DOMAIN t PROVE t[j][1] \in NamesIn(u)
    <3>1. PICK k : k = m + j
      OBVIOUS
    <3>2. k \in DOMAIN u /\ u[k] = t[j]
      BY <1>2, <3>1
    <3> QED BY <3>2 DEF NamesIn
  <2> QED BY <2>1 DEF NamesIn
<1> QED BY <1>2, <1>4, <1>5, <1>6, <1>7

(* The walk after a service that is left, or followed. *)
Left     == walk' = Beneath /\ visited' = visited
Followed ==
  /\ walk' = Beneath \o Onward /\ visited' = visited \cup {Current}
  /\ Registered(Current) # {} /\ Node(Current).life = "transient" /\ Current \notin visited

(* DI002, DI004, DI005: a service is taken from the walk. *)
LEMMA NodeTaken ==
  ASSUME DiTyped, DiShape, DiTrails, DiFollowed, DiCovered, DiCachedDone, walk # << >>,
         ~ ByEdge, Within, edges' = edges, Left \/ Followed,
         reported \subseteq reported', Code = "DI005" => reported' = reported,
         Registered(Current) # {} =>
           /\ Wanted(Node(Current)) => Code # "DI005" /\ Current \in reported'
           /\ Node(Current).life = "transient" => Current \in visited'
  PROVE  /\ walk' \in Seq(Chains) /\ visited' \subseteq STRING
         /\ DiShape' /\ DiTrails' /\ DiFollowed' /\ DiCovered' /\ DiCachedDone'
<1>1. Active /\ single >= 1 /\ edges = << >> /\ services \in Seq(Registration)
  BY SinglesAre DEF DiShape, Active, DiTyped
<1>2. /\ Current \in STRING /\ Path \in Seq(STRING) /\ Beneath \in Seq(Chains)
      /\ NamesIn(walk) = NamesIn(Beneath) \cup {Current}
  BY WalkTop
<1>3. /\ Led(<<Current, Path>>, visited)
      /\ \A j \in DOMAIN Beneath : Led(Beneath[j], visited)
  BY WalkedTop DEF Walked
<1>4. Trail(Path, visited) /\ Path[Len(Path)] = Current /\ Current \in Brings(Starts)
  BY <1>3 DEF Led
<1>5. visited \subseteq visited'
  BY DEF Left, Followed
<1>6. Followed => /\ Onward \in Seq(Chains) /\ NamesIn(Onward) = Deps(Current)
                  /\ \A j \in DOMAIN Onward :
                       /\ Onward[j][1] \in Deps(Current)
                       /\ Onward[j] = <<Onward[j][1], Append(Path, Onward[j][1])>>
  BY OnwardChains DEF Followed
<1>7. /\ walk' \in Seq(Chains)
      /\ Left => NamesIn(walk') = NamesIn(Beneath)
      /\ Followed => NamesIn(walk') = NamesIn(Beneath) \cup Deps(Current)
  <2>1. CASE Left
    BY <1>2, <2>1 DEF Left, Followed
  <2>2. CASE Followed
    <3>1. walk' = Beneath \o Onward /\ ~ Left
      BY <2>2 DEF Followed, Left
    <3>2. Onward \in Seq(Chains) /\ NamesIn(Onward) = Deps(Current)
      BY <1>6, <2>2
    <3>3. walk' \in Seq(Chains) /\ NamesIn(walk') = NamesIn(Beneath) \cup NamesIn(Onward)
      BY <1>2, <3>1, <3>2, WalksJoined
    <3> QED BY <3>1, <3>2, <3>3
  <2> QED BY <2>1, <2>2
<1>8. visited' \subseteq STRING
  BY <1>2 DEF Left, Followed, DiTyped
<1>9. DiShape'
  BY <1>1, ActiveKept, ShapeKept
<1>10. \A w : Led(w, visited) => Led(w, visited')
  BY <1>5, TrailsWiden
<1>11. ASSUME Followed, NEW d \in Deps(Current)
       PROVE  Led(<<d, Append(Path, d)>>, visited')
  <2>1. d \in STRING /\ d \in StrongFrom(Current)
    BY <1>1, <1>11, DepsNamed, NamedStrings DEF Followed, StrongFrom
  <2>2. \A j \in 2 .. Len(Path) - 1 : Path[j] # Current
    BY <1>4, <1>11 DEF Trail, Followed
  <2>3. Append(Path, d)[Len(Append(Path, d))] = d /\ Trail(Append(Path, d), visited')
    <3>1. PICK more, p, n : more = visited' /\ p = Path /\ n = Current
      OBVIOUS
    <3>2. /\ visited \subseteq more /\ n \in more /\ p \in Seq(STRING) /\ p[Len(p)] = n
          /\ Trail(p, visited) /\ d \in STRING /\ d \in StrongFrom(n)
          /\ \A j \in 2 .. Len(p) - 1 : p[j] # n
      BY <1>2, <1>4, <1>5, <1>11, <2>1, <2>2, <3>1 DEF Followed
    <3>3. Append(p, d)[Len(Append(p, d))] = d /\ Trail(Append(p, d), more)
      BY <3>2, TrailOn
    <3> QED BY <3>1, <3>3
  <2>4. d \in Brings(Starts)
    BY <1>1, <1>4, <2>1, BringsOn
  <2> QED BY <2>3, <2>4 DEF Led
<1>12. \A k \in DOMAIN walk' : Led(walk'[k], visited')
  <2>1. \A j \in DOMAIN Beneath : Led(Beneath[j], visited')
    BY <1>3, <1>10
  <2>2. CASE Left
    BY <2>1, <2>2 DEF Left
  <2>3. CASE Followed
    <3>1. \A j \in DOMAIN Onward : Led(Onward[j], visited')
      BY <1>6, <1>11, <2>3
    <3>2. \A k \in DOMAIN walk' : \/ \E j \in DOMAIN Beneath : walk'[k] = Beneath[j]
                                  \/ \E j \in DOMAIN Onward : walk'[k] = Onward[j]
      <4>1. walk' = Beneath \o Onward /\ Onward \in Seq(Chains)
        BY <1>6, <2>3 DEF Followed
      <4>2. PICK s, t, u : s = Beneath /\ t = Onward /\ u = walk'
        OBVIOUS
      <4>3. s \in Seq(Chains) /\ t \in Seq(Chains) /\ u = s \o t
        BY <1>2, <4>1, <4>2
      <4>4. \A k \in DOMAIN u : \/ \E j \in DOMAIN s : u[k] = s[j]
                               \/ \E j \in DOMAIN t : u[k] = t[j]
        BY <4>3, WalksJoined
      <4> QED BY <4>2, <4>4
    <3> QED BY <2>1, <3>1, <3>2
  <2> QED BY <2>2, <2>3
<1>13. DiTrails'
  <2>1. \A w, seen : Led(w, seen) => Walked(w, seen)'
    BY SameSearch DEF Within, Walked
  <2>2. \A k \in DOMAIN walk' : \A w, seen : w = walk'[k] /\ seen = visited' => Walked(w, seen)'
    BY <1>12, <2>1
  <2>3. edges' = << >>
    BY <1>1
  <2> QED BY <2>2, <2>3 DEF DiTrails
<1>14. DiFollowed'
  BY <1>1, FollowedKept DEF Left, Followed
<1>15. DiCovered'
  <2>1. /\ ~ ByEdge' /\ Holder' = Holder /\ Code' = Code /\ Starts' = Starts
        /\ (\A x : Deps(x)' = Deps(x) /\ Registered(x)' = Registered(x) /\ Node(x)' = Node(x))
        /\ \A s : Wanted(s)' <=> Wanted(s)
    BY SameSearch, ServicesStay DEF Within
  <2>2. \A x : x = Current => Handled(x)'
    <3>1. ASSUME NEW x, x = Current PROVE Handled(x)'
      <4>1. Wanted(Node(x))' <=> Wanted(Node(x))
        BY SameSearch, ServicesStay DEF Within, Wanted
      <4> QED BY <2>1, <3>1, <4>1 DEF Handled
    <3> QED BY <3>1
  <2>3. \A x : Handled(x) => Handled(x)'
    BY <1>5, HandledKept
  <2>4. Pending = NamesIn(walk) /\ Pending' = NamesIn(walk')
    BY <2>1 DEF Pending, NamesIn
  <2>5. NamesIn(Beneath) \subseteq NamesIn(walk')
    BY <1>7
  <2>6. \A x : SeenTo(x) => SeenTo(x)'
    BY <1>2, <2>2, <2>3, <2>4, <2>5 DEF SeenTo
  <2>7. Followed => \A d \in Deps(Current) : SeenTo(d)'
    BY <1>7, <2>4 DEF SeenTo
  <2>8. \A x \in Starts : SeenTo(x)'
    BY <1>1, <2>6 DEF DiCovered
  <2>9. ASSUME NEW n \in visited' PROVE \A d \in Deps(n) : SeenTo(d)'
    <3>1. CASE n \in visited
      BY <1>1, <2>6, <3>1 DEF DiCovered
    <3>2. CASE n \notin visited
      BY <2>7, <2>9, <3>2 DEF Left, Followed
    <3> QED BY <3>1, <3>2
  <2> QED BY <2>1, <2>8, <2>9 DEF DiCovered
<1>16. DiCachedDone'
  BY CachedKept
<1> QED BY <1>7, <1>8, <1>9, <1>13, <1>14, <1>15, <1>16

(* What is reported stays among what should be. *)
LEMMA SoundKept ==
  ASSUME DiSound, Within, single >= 1, reported' \subseteq reported \cup Bringing(Code, Holder)
  PROVE  DiSound'
<1>1. Code' = Code /\ Holder' = Holder /\ Bringing(Code, Holder)' = Bringing(Code, Holder)
  BY SameSearch, ServicesStay DEF Within
<1> QED BY <1>1 DEF DiSound, Within

(* DI002, DI004, DI005: a name that is not registered brings nothing along. *)
LEMMA DiPopUnknown == ASSUME DiInv, PopUnknown PROVE DiInv'
<1>1. /\ walk # << >> /\ ~ ByEdge /\ Registered(Current) = {} /\ Left /\ Within
      /\ UNCHANGED <<edges, reported, captives>>
  BY DEF PopUnknown, ByEdge, Left, Within
<1>2. /\ walk' \in Seq(Chains) /\ visited' \subseteq STRING
      /\ DiShape' /\ DiTrails' /\ DiFollowed' /\ DiCovered' /\ DiCachedDone'
  BY <1>1, NodeTaken DEF DiInv
<1>3. DiTyped'
  BY <1>1, <1>2 DEF DiInv, DiTyped, Within
<1>4. DiTally' /\ DiPast' /\ DiReal'
  BY <1>1, CaptivesStay DEF DiInv, Within
<1>5. DiSound'
  <2>1. single >= 1
    BY <1>1, SinglesAre DEF DiInv, DiShape, Active
  <2> QED BY <1>1, <2>1, SoundKept DEF DiInv
<1> QED BY <1>2, <1>3, <1>4, <1>5 DEF DiInv

(* DI002, DI004: a service is judged, then followed. *)
LEMMA DiPopNode == ASSUME DiInv, PopNode PROVE DiInv'
<1> DEFINE Reports == Wanted(Node(Current)) /\ Current \notin reported
<1>1. /\ walk # << >> /\ ~ ByEdge /\ Code # "DI005" /\ Registered(Current) # {} /\ Within
      /\ edges' = edges
      /\ IF Reports
         THEN /\ reported' = reported \cup {Current}
              /\ captives' = Append(captives, Captive(Current, Path))
         ELSE UNCHANGED <<reported, captives>>
  BY DEF PopNode, ByEdge, Within
<1>2. /\ DiTyped /\ DiShape /\ DiTrails /\ DiFollowed /\ Active /\ single >= 1
      /\ DiCovered /\ DiCachedDone /\ DiSound
  BY <1>1, SinglesAre DEF DiInv, DiShape, Active
<1>3. Current \in STRING /\ Path \in Seq(STRING) /\ Led(<<Current, Path>>, visited)
  BY <1>1, <1>2, WalkTop, WalkedTop DEF Walked
<1>4. Left \/ Followed
  BY <1>1 DEF PopNode, Follow, Left, Followed
<1>5. Node(Current).life = "transient" => Current \in visited'
  BY <1>1 DEF PopNode, Follow
<1>6. /\ walk' \in Seq(Chains) /\ visited' \subseteq STRING
      /\ DiShape' /\ DiTrails' /\ DiFollowed' /\ DiCovered' /\ DiCachedDone'
  <2>1. reported \subseteq reported' /\ (Wanted(Node(Current)) => Current \in reported')
    BY <1>1
  <2> QED BY <1>1, <1>2, <1>4, <1>5, <2>1, NodeTaken
<1>7. CASE Reports
  <2>1. PICK f, n, p : f = Captive(Current, Path) /\ n = Current /\ p = Path
    OBVIOUS
  <2>2. /\ f \in Finding /\ f.code = Code /\ f.single = single /\ Real(f) /\ Key(f) = n
        /\ n \in OfInterest(Code)
    <3>1. /\ n \in STRING /\ p \in Seq(STRING) /\ Led(<<n, p>>, visited) /\ Registered(n) # {}
          /\ Wanted(Node(n)) /\ n \notin reported /\ f = Captive(n, p)
      BY <1>1, <1>3, <1>7, <2>1
    <3> QED BY <1>1, <1>2, <3>1, RealFound
  <2>3. Key(f) \notin reported /\ reported' = reported \cup {Key(f)} /\ captives' = Append(captives, f)
    BY <1>1, <1>7, <2>1, <2>2
  <2>4. DiTally' /\ DiPast' /\ DiReal' /\ captives' \in Seq(Finding)
    BY <1>1, <1>2, <2>2, <2>3, CaptivesGrow DEF DiInv, Within
  <2>5. DiTyped'
    BY <1>1, <1>2, <1>3, <1>6, <1>7, <2>4 DEF DiTyped, Within
  <2>6. n \in Bringing(Code, Holder)
    <3>1. n \in Brings(Holds(Code, Holder))
      BY <1>1, <1>3, <2>1 DEF Led, Starts
    <3> QED BY <1>1, <2>2, <3>1 DEF Bringing
  <2>7. DiSound'
    BY <1>1, <1>2, <1>7, <2>1, <2>6, SoundKept
  <2> QED BY <1>6, <2>4, <2>5, <2>7 DEF DiInv
<1>8. CASE ~ Reports
  <2>1. DiTally' /\ DiPast' /\ DiReal'
    BY <1>1, <1>8, CaptivesStay DEF DiInv, Within
  <2>2. DiTyped'
    BY <1>1, <1>2, <1>6, <1>8 DEF DiTyped, Within
  <2>3. DiSound'
    BY <1>1, <1>2, <1>8, SoundKept
  <2> QED BY <1>6, <2>1, <2>2, <2>3 DEF DiInv
<1> QED BY <1>7, <1>8

(* DI005: a scoped service ends the search of the cached type. *)
LEMMA DiPopCached == ASSUME DiInv, PopCached PROVE DiInv'
<1>1. /\ walk # << >> /\ ~ ByEdge /\ Code = "DI005" /\ Registered(Current) # {} /\ Within
      /\ edges' = edges
  BY DEF PopCached, ByEdge, Within
<1>2. /\ DiTyped /\ DiShape /\ DiTrails /\ DiFollowed /\ Active /\ single >= 1
      /\ DiCovered /\ DiCachedDone /\ DiSound /\ edges = << >>
  BY <1>1, SinglesAre DEF DiInv, DiShape, Active
<1>3. Current \in STRING /\ Path \in Seq(STRING) /\ Led(<<Current, Path>>, visited)
  BY <1>1, <1>2, WalkTop, WalkedTop DEF Walked
<1>4. CASE Wanted(Node(Current))
  <2>1. PICK f, n, p : f = Captive(Current, Path) /\ n = Current /\ p = Path
    OBVIOUS
  <2>2. /\ reported' = reported \cup {p[2]} /\ captives' = Append(captives, f) /\ walk' = << >>
        /\ visited' = visited
    BY <1>4, <2>1 DEF PopCached
  <2>3. /\ f \in Finding /\ f.code = Code /\ f.single = single /\ Real(f) /\ Key(f) = p[2]
        /\ n \in OfInterest(Code) /\ p[2] \in Starts
    <3>1. /\ n \in STRING /\ p \in Seq(STRING) /\ Led(<<n, p>>, visited) /\ Registered(n) # {}
          /\ Wanted(Node(n)) /\ f = Captive(n, p)
      BY <1>1, <1>3, <1>4, <2>1
    <3> QED BY <1>1, <1>2, <3>1, RealFound
  <2>4. p[2] = Entry /\ Entry \notin reported /\ Entry \in ToSet(Holder.cached) /\ Starts = {Entry}
        /\ Entry \in STRING
    <3>1. Starts = {Entry}
      BY <1>1 DEF Starts
    <3>2. Entry \in Named
      BY <1>2, <3>1, SourcesHeld
    <3>3. Entry \in ToSet(Holder.cached) /\ Entry \in STRING
      BY <1>1, <1>2, <3>2, SourcesHeld, NamedStrings DEF DiTyped
    <3> QED BY <1>1, <1>2, <2>3, <3>1, <3>3 DEF Active
  <2>5. DiTally' /\ DiPast' /\ DiReal' /\ captives' \in Seq(Finding)
    BY <1>1, <1>2, <2>2, <2>3, <2>4, CaptivesGrow DEF DiInv, Within
  <2>6. DiTyped'
    BY <1>1, <1>2, <2>2, <2>4, <2>5 DEF DiTyped, Within
  <2>7. p[2] \in Bringing(Code, Holder)
    <3>1. n \in Brings({Entry})
      BY <1>3, <2>1, <2>4 DEF Led
    <3> QED BY <1>1, <2>3, <2>4, <3>1 DEF Bringing
  <2>8. DiSound'
    BY <1>1, <1>2, <2>2, <2>7, SoundKept
  <2>9. walk' = << >> /\ edges' = << >> /\ ~ Active'
    <3>1. Code' = Code /\ Entry' = Entry
      BY <1>1, SameSearch DEF Within
    <3> QED BY <1>1, <1>2, <2>2, <2>4, <3>1 DEF Active
  <2>10. DiShape'
    BY <1>1, <1>2, <2>9, ShapeKept
  <2>11. DiTrails' /\ DiCovered'
    BY <2>9 DEF DiTrails, DiCovered
  <2>12. DiFollowed' /\ DiCachedDone'
    BY <1>1, <1>2, <2>2, FollowedKept, CachedKept
  <2> QED BY <2>5, <2>6, <2>8, <2>10, <2>11, <2>12 DEF DiInv
<1>5. CASE ~ Wanted(Node(Current))
  <2>1. Follow(Node(Current)) /\ UNCHANGED <<reported, captives>>
    BY <1>5 DEF PopCached
  <2>2. Left \/ Followed
    BY <1>1, <2>1 DEF Follow, Left, Followed
  <2>3. Node(Current).life = "transient" => Current \in visited'
    BY <2>1 DEF Follow
  <2>4. /\ walk' \in Seq(Chains) /\ visited' \subseteq STRING
        /\ DiShape' /\ DiTrails' /\ DiFollowed' /\ DiCovered' /\ DiCachedDone'
    BY <1>1, <1>2, <1>5, <2>1, <2>2, <2>3, NodeTaken
  <2>5. DiTally' /\ DiPast' /\ DiReal'
    BY <1>1, <2>1, CaptivesStay DEF DiInv, Within
  <2>6. DiTyped'
    BY <1>1, <1>2, <2>1, <2>4 DEF DiTyped, Within
  <2>7. DiSound'
    BY <1>1, <1>2, <2>1, SoundKept
  <2> QED BY <2>4, <2>5, <2>6, <2>7 DEF DiInv
<1> QED BY <1>4, <1>5

(* The walk a search starts with. *)
LEMMA UnderChains ==
  ASSUME NEW s, s.name \in STRING, NEW names \in Seq(STRING)
  PROVE  /\ Under(s, names) \in Seq(Chains) /\ NamesIn(Under(s, names)) = ToSet(names)
         /\ \A j \in DOMAIN Under(s, names) :
              \E x \in ToSet(names) : Under(s, names)[j] = <<x, <<s.name, x>> >>
         /\ names = << >> => Under(s, names) = << >>
<1>1. PICK u, m : u = Under(s, names) /\ m = Len(names)
  OBVIOUS
<1>2. m \in Nat /\ DOMAIN names = 1 .. m /\ \A j \in 1 .. m : names[j] \in STRING
  BY <1>1
<1>3. u = [j \in 1 .. m |-> <<names[j], <<s.name, names[j]>> >>]
  BY <1>1, <1>2 DEF Under
<1>4. ASSUME NEW j \in 1 .. m PROVE <<names[j], <<s.name, names[j]>> >> \in Chains
  <2>1. PICK x \in STRING : x = names[j]
    BY <1>2
  <2>2. PICK r \in STRING : r = s.name
    OBVIOUS
  <2>3. PICK q : q = <<r, x>>
    OBVIOUS
  <2>4. q \in Seq(STRING)
    BY <2>3
  <2>5. <<x, q>> \in Chains
    BY <2>4 DEF Chains
  <2> QED BY <2>1, <2>2, <2>3, <2>5
<1>5. u \in Seq(Chains)
  BY <1>2, <1>3, <1>4
<1>6. DOMAIN u = 1 .. m /\ \A j \in 1 .. m : u[j] = <<names[j], <<s.name, names[j]>> >> /\ u[j][1] = names[j]
  BY <1>3
<1>7. NamesIn(u) = ToSet(names)
  BY <1>2, <1>6 DEF NamesIn, ToSet
<1>8. \A j \in 1 .. m : names[j] \in ToSet(names)
  BY <1>2 DEF ToSet
<1>9. names = << >> => u = << >>
  BY <1>1, <1>2, <1>3
<1> QED BY <1>1, <1>5, <1>6, <1>7, <1>8, <1>9

(* A name the search starts at has a chain of its own. *)
LEMMA LedFirst ==
  ASSUME NEW x, x \in Starts', x \in Named', NEW n, n = (Holder.name)',
         NEW w, w = <<x, <<n, x>> >>
  PROVE  \A seen : Led(w, seen)'
<1> SUFFICES ASSUME NEW seen PROVE Led(w, seen)'
  OBVIOUS
<1>1. x \in Brings(Starts)'
  BY DEF Brings
<1>2. PICK q : q = <<n, x>>
  OBVIOUS
<1>3. Len(q) = 2 /\ q[1] = n /\ q[2] = x
  BY <1>2
<1>4. Trail(q, seen)'
  BY <1>3 DEF Trail
<1>5. w[1] = x /\ w[2] = q
  BY <1>2
<1> QED BY <1>1, <1>3, <1>4, <1>5 DEF Led

(* The findings of a search that has just begun. *)
LEMMA FindingsBegin ==
  ASSUME DiInv, ~ Searching, ~ DiDone, single < Len(services),
         single' = single + 1, reported' = {}, UNCHANGED <<services, check, captives>>
  PROVE  DiTally' /\ DiPast' /\ DiReal'
<1>1. single \in Nat /\ check \in 1 .. 5 /\ Code' = Code /\ Code = Codes[check]
  BY CodesFive DEF DiInv, DiTyped, DiDone, Code
<1>2. \A c, j : Found(c, j)' = Found(c, j)
  BY DEF Found
<1>3. ASSUME NEW c, NEW j PROVE Exactly(c, j) => Exactly(c, j)'
  <2>1. services' = services /\ captives' = captives /\ Singles' = Singles
    BY ServicesStay
  <2>2. Bringing(c, services[j])' = Bringing(c, services[j])
    BY <2>1, ServicesStay
  <2> QED BY <1>2, <2>1, <2>2 DEF Exactly, Key
<1>4. \A k \in DOMAIN captives : \E c \in 1 .. 5 :
        captives[k].code = Codes[c] /\ (c < check \/ (c = check /\ captives[k].single <= single))
  <2>1. ASSUME NEW k \in DOMAIN captives
        PROVE  \E c \in 1 .. 5 :
                 captives[k].code = Codes[c] /\ (c < check \/ (c = check /\ captives[k].single <= single))
    <3>1. captives[k] \in Finding
      BY DEF DiInv, DiTyped
    <3>2. captives[k].single \in Nat
      BY <3>1 DEF Finding
    <3>3. PICK c \in 1 .. 5 :
            captives[k].code = Codes[c] /\ (\/ Over(c, captives[k].single)
                                            \/ c = check /\ captives[k].single = single)
      BY DEF DiInv, DiPast
    <3>4. c < check \/ (c = check /\ captives[k].single <= single)
      BY <1>1, <3>2, <3>3 DEF Over
    <3> QED BY <3>3, <3>4
  <2> QED BY <2>1
<1>5. Found(Code, single + 1) = {}
  <2>1. ASSUME NEW k \in Found(Code, single + 1) PROVE FALSE
    <3>1. k \in DOMAIN captives /\ captives[k].code = Codes[check] /\ captives[k].single = single + 1
      BY <1>1, <2>1 DEF Found
    <3>2. PICK c \in 1 .. 5 :
            captives[k].code = Codes[c] /\ (c < check \/ (c = check /\ captives[k].single <= single))
      BY <1>4, <3>1
    <3>3. c = check
      BY <1>1, <3>1, <3>2, CodesFive
    <3> QED BY <1>1, <3>1, <3>2, <3>3
  <2> QED BY <2>1
<1>6. DiTally'
  <2>1. Found(Code, single)' = {}
    BY <1>1, <1>2, <1>5
  <2> QED BY <2>1 DEF DiTally
<1>7. DiPast'
  <2>1. \A c, j : Over(c, j)' <=> (c < check \/ (c = check /\ j < single + 1))
    BY DEF Over
  <2>2. ASSUME NEW c \in 1 .. 5, NEW j \in DOMAIN services, Over(c, j)'
        PROVE  Exactly(Codes[c], j)'
    <3>0. j \in Nat
      <4>1. services \in Seq(Registration)
        BY DEF DiInv, DiTyped
      <4> QED BY <4>1
    <3>1. c < check \/ (c = check /\ j <= single)
      BY <1>1, <2>1, <2>2, <3>0
    <3>2. PICK code : code = Codes[c]
      OBVIOUS
    <3>3. Exactly(code, j)
      BY <3>1, <3>2, PastGrows
    <3> QED BY <1>3, <3>2, <3>3
  <2>3. ASSUME NEW k \in DOMAIN captives
        PROVE  \E c \in 1 .. 5 : captives[k].code = Codes[c] /\ Over(c, captives[k].single)'
    <3>1. captives' = captives
      OBVIOUS
    <3>2. captives[k] \in Finding
      BY DEF DiInv, DiTyped
    <3>3. captives[k].single \in Nat
      BY <3>2 DEF Finding
    <3> QED BY <1>1, <1>4, <3>1, <3>3 DEF Over
  <2> QED BY <2>2, <2>3 DEF DiPast, Over
<1>8. DiReal'
  BY RealStays DEF DiInv, DiReal
<1> QED BY <1>6, <1>7, <1>8

(* The next registration: only singletons are searched from. *)
LEMMA DiNextSingle == ASSUME DiInv, NextSingle PROVE DiInv'
<1>1. PICK s : s = services[single + 1]
  OBVIOUS
<1>2. /\ ~ DiDone /\ ~ Searching /\ single < Len(services) /\ single' = single + 1
      /\ reported' = {} /\ visited' = {} /\ UNCHANGED <<services, check, edges, captives>>
      /\ walk = << >> /\ edges = << >> /\ entries = << >>
  BY DEF NextSingle, Searching
<1>3. /\ check \in 1 .. 5 /\ single \in Nat /\ single + 1 \in DOMAIN services /\ s \in Registration
      /\ single + 1 <= Len(services) /\ Len(services) \in Nat /\ services \in Seq(Registration)
  BY <1>1, <1>2, CodesFive DEF DiInv, DiTyped, DiDone
<1>4. /\ Code' = Code /\ (ByEdge' <=> ByEdge) /\ Holder' = s /\ Singles' = Singles /\ Named' = Named
      /\ single' \in Singles <=> s.life = "singleton"
  BY <1>1, <1>2, <1>3, ServicesStay DEF Code, ByEdge, Holder, Singles
<1>5. DiTally' /\ DiPast' /\ DiReal'
  BY <1>2, FindingsBegin
<1>6. DiFollowed' /\ DiSound'
  BY <1>2 DEF DiFollowed, DiSound
<1>7. CASE s.life # "singleton"
  <2>1. entries' = << >> /\ walk' = << >> /\ edges' = << >>
    BY <1>1, <1>2, <1>7 DEF NextSingle
  <2>2. DiTyped'
    BY <1>2, <1>3, <2>1 DEF DiInv, DiTyped
  <2>3. DiShape'
    BY <1>2, <1>3, <1>4, <1>7, <2>1 DEF DiShape, Searching
  <2>4. DiTrails' /\ DiCovered' /\ DiCachedDone'
    BY <1>4, <1>7, <2>1 DEF DiTrails, DiCovered, DiCachedDone, Active
  <2> QED BY <1>5, <1>6, <2>2, <2>3, <2>4 DEF DiInv
<1>8. CASE s.life = "singleton" /\ Code = "DI005"
  <2>1. entries' = s.cached /\ walk' = << >> /\ edges' = << >> /\ ~ ByEdge
    <3>1. From(s) = << >>
      BY <1>8 DEF From
    <3>2. s.name \in STRING /\ << >> \in Seq(STRING)
      BY <1>3 DEF Registration
    <3>3. Under(s, << >>) = << >>
      BY <3>2, UnderChains
    <3> QED BY <1>1, <1>2, <1>8, <3>1, <3>3 DEF NextSingle, ByEdge
  <2>2. s.cached \in Seq(STRING) /\ Len(s.cached) \in Nat /\ DOMAIN s.cached = 1 .. Len(s.cached)
    BY <1>3 DEF Registration
  <2>3. DiTyped'
    BY <1>2, <1>3, <2>1, <2>2 DEF DiInv, DiTyped
  <2>4. DiShape'
    <3>1. \A j \in 1 .. Len(s.cached) : Len(s.cached) - Len(s.cached) + j = j
      BY <2>2
    <3>2. \A j \in 1 .. Len(s.cached) : s.cached[j] = s.cached[Len(s.cached) - Len(s.cached) + j]
      BY <3>1
    <3> QED BY <1>2, <1>3, <1>4, <1>8, <2>1, <2>2, <3>2 DEF DiShape, Searching
  <2>5. ~ Active'
    BY <1>4, <1>8, <2>1, <2>2 DEF Active
  <2>6. DiTrails' /\ DiCovered' /\ DiCachedDone'
    BY <1>4, <2>1, <2>2, <2>5 DEF DiTrails, DiCovered, DiCachedDone
  <2> QED BY <1>5, <1>6, <2>3, <2>4, <2>6 DEF DiInv
<1>9. CASE s.life = "singleton" /\ Code # "DI005"
  <2>1. entries' = << >> /\ edges' = << >>
    BY <1>1, <1>2, <1>9 DEF NextSingle
  <2>2. Active'
    BY <1>4, <1>9 DEF Active
  <2>3. /\ walk' = IF ByEdge THEN << <<s.name, <<s.name>> >> >> ELSE Under(s, From(s))
        /\ s.name \in STRING /\ From(s) \in Seq(STRING)
    <3>1. /\ s.name \in STRING /\ s.weak \in Seq(STRING) /\ s.roots \in Seq(STRING)
          /\ << >> \in Seq(STRING)
      BY <1>3 DEF Registration
    <3>2. From(s) \in Seq(STRING)
      BY <3>1 DEF From
    <3> QED BY <1>1, <1>9, <3>1, <3>2 DEF NextSingle, ByEdge
  <2>4. walk' \in Seq(Chains)
    <3>1. CASE ByEdge
      <4>1. <<s.name, <<s.name>> >> \in Chains
        BY <2>3 DEF Chains
      <4> QED BY <2>3, <3>1, <4>1
    <3>2. CASE ~ ByEdge
      BY <2>3, <3>2, UnderChains
    <3> QED BY <3>1, <3>2
  <2>5. DiTyped'
    BY <1>2, <1>3, <2>1, <2>4 DEF DiInv, DiTyped
  <2>6. DiShape'
    BY <1>2, <1>3, <1>4, <1>9, <2>1, <2>2 DEF DiShape, Searching
  <2>7. DiTrails' /\ DiCovered'
    <3>1. CASE ByEdge
      <4>1. PICK w : w = <<s.name, <<s.name>> >>
        OBVIOUS
      <4>2. /\ DOMAIN walk' = {1} /\ walk'[1] = w /\ w[1] = s.name
        BY <2>3, <3>1, <4>1
      <4>3. \A seen : Walked(w, seen)'
        BY <1>4, <3>1, <4>1 DEF Walked
      <4>4. DiTrails'
        BY <2>1, <4>2, <4>3 DEF DiTrails
      <4>5. s.name \in NamesIn(walk)'
        BY <4>2 DEF NamesIn
      <4> QED BY <1>2, <1>4, <3>1, <4>4, <4>5 DEF DiCovered
    <3>2. CASE ~ ByEdge
      <4>1. Starts' = Holds(Code, s) /\ Starts' = ToSet(From(s))
        <5>1. Starts' = Holds(Code, s)
          BY <1>2, <1>4, <1>9, ServicesStay DEF Starts
        <5>2. Code = Codes[check] /\ Code \in {"DI002", "DI004"}
          BY <1>3, <1>9, <3>2, CodesFive DEF Code, ByEdge
        <5> QED BY <5>1, <5>2 DEF Holds, From
      <4>2. Starts' \subseteq Named'
        BY <1>1, <1>3, <1>4, <4>1, HoldsNamed DEF Code
      <4>3. /\ NamesIn(walk') = ToSet(From(s))
            /\ \A j \in DOMAIN walk' : \E x \in ToSet(From(s)) : walk'[j] = <<x, <<s.name, x>> >>
        BY <2>3, <3>2, UnderChains
      <4>4. \A j \in DOMAIN walk' : \A w : w = walk'[j] => \A seen : Led(w, seen)'
        <5>1. ASSUME NEW j \in DOMAIN walk', NEW w, w = walk'[j] PROVE \A seen : Led(w, seen)'
          <6>1. PICK x \in ToSet(From(s)) : w = <<x, <<s.name, x>> >>
            BY <4>3, <5>1
          <6>2. x \in Starts' /\ x \in Named' /\ s.name = (Holder.name)'
            BY <1>4, <4>1, <4>2
          <6> QED BY <6>1, <6>2, LedFirst
        <5> QED BY <5>1
      <4>5. DiTrails'
        BY <1>4, <2>1, <3>2, <4>4 DEF DiTrails, Walked
      <4>6. \A x \in Starts' : SeenTo(x)'
        <5>1. Pending' = NamesIn(walk')
          BY <1>4, <3>2 DEF Pending, NamesIn
        <5> QED BY <4>1, <4>3, <5>1 DEF SeenTo
      <4> QED BY <1>2, <1>4, <3>2, <4>5, <4>6 DEF DiCovered
    <3> QED BY <3>1, <3>2
  <2>8. DiCachedDone'
    BY <1>4, <1>9 DEF DiCachedDone
  <2> QED BY <1>5, <1>6, <2>5, <2>6, <2>7, <2>8 DEF DiInv
<1> QED BY <1>7, <1>8, <1>9

(* The findings when the first registration comes next. *)
LEMMA DiNextCheck == ASSUME DiInv, NextCheck PROVE DiInv'
<1>1. /\ ~ DiDone /\ ~ Searching /\ single = Len(services)
      /\ check' = check + 1 /\ single' = 0
      /\ UNCHANGED <<services, entries, walk, edges, reported, visited, captives>>
      /\ walk = << >> /\ edges = << >> /\ entries = << >>
  BY DEF NextCheck, Searching
<1>2. /\ check \in 1 .. 5 /\ services \in Seq(Registration) /\ Len(services) \in Nat
      /\ DOMAIN services = 1 .. Len(services)
  BY <1>1, CodesFive DEF DiInv, DiTyped, DiDone
<1>3. DiTyped'
  <2>1. check' \in 1 .. 6 /\ single' \in 0 .. Len(services')
    <3>1. Len(services') = Len(services)
      BY <1>1
    <3> QED BY <1>1, <1>2, <3>1
  <2> QED BY <1>1, <2>1 DEF DiInv, DiTyped
<1>4. ~ (single' \in Singles') /\ ~ (single' >= 1)
  BY <1>1, <1>2, ServicesStay DEF Singles
<1>5. DiShape' /\ ~ Active'
  BY <1>1, <1>2, <1>4 DEF DiShape, Searching, Active
<1>6. DiTrails' /\ DiFollowed' /\ DiCovered' /\ DiSound' /\ DiCachedDone' /\ DiTally'
  BY <1>1, <1>4, <1>5 DEF DiTrails, DiFollowed, DiCovered, DiSound, DiCachedDone, DiTally
<1>7. DiPast'
  <2>1. \A c, j : Over(c, j)' <=> (c < check + 1 \/ (c = check + 1 /\ j < 0))
    BY <1>1 DEF Over
  <2>2. ASSUME NEW c \in 1 .. 5, NEW j \in DOMAIN services, Over(c, j)'
        PROVE  Exactly(Codes[c], j)'
    <3>1. c < check \/ (c = check /\ j <= single)
      BY <1>1, <1>2, <2>1, <2>2
    <3>2. PICK code : code = Codes[c]
      OBVIOUS
    <3>3. Exactly(code, j)
      BY <1>1, <3>1, <3>2, PastGrows
    <3>4. Bringing(code, services[j])' = Bringing(code, services[j])
      <4>1. services' = services
        BY <1>1
      <4> QED BY <4>1, ServicesStay
    <3>5. services' = services /\ captives' = captives /\ Singles' = Singles
      BY <1>1, ServicesStay
    <3>6. Found(code, j)' = Found(code, j)
      BY <3>5 DEF Found
    <3>7. Exactly(code, j)'
      BY <3>3, <3>4, <3>5, <3>6 DEF Exactly, Key
    <3> QED BY <3>2, <3>7
  <2>3. ASSUME NEW k \in DOMAIN captives
        PROVE  \E c \in 1 .. 5 : captives[k].code = Codes[c] /\ Over(c, captives[k].single)'
    <3>1. captives' = captives
      BY <1>1
    <3>2. PICK c \in 1 .. 5 :
            captives[k].code = Codes[c] /\ (\/ Over(c, captives[k].single)
                                            \/ c = check /\ captives[k].single = single)
      BY DEF DiInv, DiPast
    <3>3. c < check + 1
      BY <1>2, <3>2 DEF Over
    <3> QED BY <2>1, <3>1, <3>2, <3>3
  <2> QED BY <1>1, <2>2, <2>3 DEF DiPast
<1>8. DiReal'
  BY <1>1, RealStays DEF DiInv, DiReal
<1> QED BY <1>3, <1>5, <1>6, <1>7, <1>8 DEF DiInv

(* DI005: the next cached type is searched from. *)
LEMMA DiNextEntry == ASSUME DiInv, NextEntry PROVE DiInv'
<1>1. /\ walk = << >> /\ entries # << >> /\ entries' = Tail(entries) /\ visited' = {}
      /\ UNCHANGED <<services, check, single, edges, reported, captives>>
      /\ walk' = IF Head(entries) \in reported THEN << >> ELSE Under(Holder, <<Head(entries)>>)
  BY DEF NextEntry
<1>2. /\ single \in Singles /\ Code = "DI005" /\ ~ ByEdge /\ check <= 5 /\ edges = << >>
  BY <1>1 DEF DiInv, DiShape, Searching, ByEdge
<1>3. single >= 1
  BY <1>2, SinglesAre DEF DiInv
<1>4. /\ Code' = Code /\ Holder' = Holder /\ (ByEdge' <=> ByEdge) /\ Singles' = Singles /\ Named' = Named
      /\ services' = services /\ single' = single /\ check' = check /\ edges' = edges
      /\ reported' = reported
  BY <1>1, SameSearch, ServicesStay
<1>5. PICK n, m, list : n = Len(list) /\ m = Len(entries) /\ list = Holder.cached
  OBVIOUS
<1>6. /\ Holder \in Registration /\ list \in Seq(STRING) /\ n \in Nat /\ DOMAIN list = 1 .. n
      /\ \A j \in 1 .. n : list[j] \in STRING
  <2>1. Holder \in Registration
    BY <1>3, SearchOf DEF DiInv
  <2>2. list \in Seq(STRING)
    BY <1>5, <2>1 DEF Registration
  <2> QED BY <1>5, <2>1, <2>2
<1>7. /\ m \in Nat /\ m >= 1 /\ m <= n /\ entries \in Seq(STRING)
      /\ \A j \in 1 .. m : entries[j] = list[n - m + j]
  <2>1. entries \in Seq(STRING)
    BY DEF DiInv, DiTyped
  <2>2. m \in Nat /\ m >= 1 /\ DOMAIN entries = 1 .. m
    BY <1>1, <1>5, <2>1
  <2> QED BY <1>2, <1>5, <2>1, <2>2 DEF DiInv, DiShape
<1>8. PICK x, rest : x = Head(entries) /\ rest = entries'
  OBVIOUS
<1>9. /\ rest \in Seq(STRING) /\ Len(rest) = m - 1 /\ DOMAIN rest = 1 .. m - 1
      /\ \A j \in 1 .. m - 1 : rest[j] = entries[j + 1]
      /\ x = entries[1] /\ x \in STRING
  BY <1>1, <1>5, <1>7, <1>8
<1>10. x = list[n - m + 1] /\ n - m + 1 \in 1 .. n /\ n - (m - 1) = n - m + 1
  BY <1>6, <1>7, <1>9
<1>11. Entry' = x /\ Starts' = {x}
  <2>1. Entry' = x
    BY <1>4, <1>5, <1>8, <1>9, <1>10 DEF Entry
  <2> QED BY <1>2, <1>4, <2>1 DEF Starts
<1>12. walk' = IF x \in reported THEN << >> ELSE Under(Holder, <<x>>)
  BY <1>1, <1>8
<1>13. Active' <=> x \notin reported
  BY <1>2, <1>4, <1>5, <1>7, <1>8, <1>9, <1>11 DEF Active
<1>14. PICK q : q = <<x>>
  OBVIOUS
<1>15. q \in Seq(STRING) /\ ToSet(q) = {x} /\ Holder.name \in STRING
  BY <1>6, <1>9, <1>14 DEF Registration, ToSet
<1>16. /\ walk' \in Seq(Chains)
       /\ x \notin reported => x \in NamesIn(walk')
       /\ \A j \in DOMAIN walk' : walk'[j] = <<x, <<Holder.name, x>> >>
  <2>1. CASE x \in reported
    BY <1>12, <2>1
  <2>2. CASE x \notin reported
    BY <1>12, <1>14, <1>15, <2>2, UnderChains
  <2> QED BY <2>1, <2>2
<1>17. x \in Named'
  <2>1. x \in ToSet(list)
    BY <1>6, <1>10 DEF ToSet
  <2>2. single \in DOMAIN services /\ Holder = services[single]
    BY <1>3, SearchOf DEF DiInv
  <2> QED BY <1>4, <1>5, <2>1, <2>2, NamesNamed DEF DiInv, DiTyped
<1>18. DiTyped'
  BY <1>1, <1>8, <1>9, <1>16 DEF DiInv, DiTyped
<1>19. DiShape'
  <2>1. ASSUME NEW j \in 1 .. m - 1 PROVE rest[j] = list[n - Len(rest) + j]
    <3>1. PICK i \in 1 .. m : i = j + 1
      BY <1>7
    <3>2. n - m + i = n - Len(rest) + j
      BY <1>6, <1>7, <1>9, <3>1
    <3>3. rest[j] = entries[i] /\ entries[i] = list[n - m + i]
      BY <1>7, <1>9, <3>1
    <3> QED BY <3>2, <3>3
  <2>2. walk' # << >> => Active'
    BY <1>12, <1>13
  <2>3. edges' = << >> /\ ~ (check' = 6)
    BY <1>2, <1>4 DEF DiInv, DiTyped
  <2>4. /\ entries' = rest /\ Len(rest) <= n /\ Holder.cached' = list
        /\ \A j \in DOMAIN rest : rest[j] = list[n - Len(rest) + j]
    <3>1. entries' = rest /\ Holder.cached' = list
      BY <1>4, <1>5, <1>8
    <3>2. Len(rest) <= n
      BY <1>6, <1>7, <1>9
    <3>3. \A j \in DOMAIN rest : rest[j] = list[n - Len(rest) + j]
      BY <1>9, <2>1
    <3> QED BY <3>1, <3>2, <3>3
  <2> QED BY <1>2, <1>4, <1>5, <2>2, <2>3, <2>4 DEF DiShape
<1>20. DiTrails' /\ DiCovered'
  <2>1. \A j \in DOMAIN walk' : \A w : w = walk'[j] => \A seen : Led(w, seen)'
    BY <1>4, <1>11, <1>16, <1>17, LedFirst
  <2>2. DiTrails'
    BY <1>2, <1>4, <2>1 DEF DiTrails, Walked
  <2>3. Active' => \A y \in Starts' : SeenTo(y)'
    <3>1. Pending' = NamesIn(walk')
      BY <1>2, <1>4 DEF Pending, NamesIn
    <3> QED BY <1>11, <1>13, <1>16, <3>1 DEF SeenTo
  <2> QED BY <1>1, <1>2, <1>4, <2>2, <2>3 DEF DiCovered
<1>21. DiFollowed'
  BY <1>1 DEF DiFollowed
<1>22. Bringing("DI005", Holder)' = Bringing("DI005", Holder)
  BY <1>4, ServicesStay
<1>23. DiSound'
  BY <1>2, <1>4, <1>22 DEF DiInv, DiSound
<1>24. DiCachedDone'
  <2>1. ASSUME NEW j \in 1 .. n - m, list[j] \in Bringing("DI005", Holder)
        PROVE  list[j] \in reported
    <3>1. CASE j \in 1 .. n - m - 1
      BY <1>2, <1>5, <2>1, <3>1 DEF DiInv, DiCachedDone
    <3>2. CASE j = n - m
      <4>1. Entry = list[j]
        BY <1>5, <3>2 DEF Entry
      <4>2. ASSUME list[j] \notin reported PROVE FALSE
        <5>1. m < n
          BY <1>6, <1>7, <3>2
        <5>2. Active
          BY <1>2, <1>5, <4>1, <4>2, <5>1 DEF Active
        <5>3. Brings({list[j]}) \cap OfInterest("DI005") = {}
          BY <1>1, <1>2, <4>1, <5>2, EntryOver
        <5> QED BY <2>1, <5>3 DEF Bringing
      <4> QED BY <4>2
    <3> QED BY <1>6, <1>7, <3>1, <3>2
  <2>2. n - (m - 1) - 1 = n - m
    BY <1>6, <1>7
  <2> QED BY <1>2, <1>4, <1>5, <1>8, <1>9, <1>22, <2>1, <2>2 DEF DiCachedDone
<1>25. DiTally' /\ DiPast' /\ DiReal'
  BY <1>1, CaptivesStay DEF DiInv
<1> QED BY <1>18, <1>19, <1>20, <1>21, <1>23, <1>24, <1>25 DEF DiInv

(* The searches begin with nothing found. *)
LEMMA DiInitInv ==
  ASSUME NEW given, given \subseteq Seq(Registration), DiInit(given)
  PROVE  DiInv
<1>1. /\ services \in Seq(Registration) /\ check = 1 /\ single = 0
      /\ entries = << >> /\ walk = << >> /\ edges = << >>
      /\ reported = {} /\ visited = {} /\ captives = << >>
  BY DEF DiInit
<1>2. Len(services) \in Nat /\ DOMAIN services = 1 .. Len(services)
  BY <1>1
<1>3. DiTyped
  BY <1>1, <1>2 DEF DiTyped
<1>4. single \notin Singles /\ ~ (single >= 1) /\ ~ Searching /\ ~ Active
  BY <1>1, <1>2 DEF Singles, Searching, Active
<1>5. DiShape /\ DiTrails /\ DiFollowed /\ DiCovered /\ DiSound /\ DiCachedDone /\ DiTally
  BY <1>1, <1>4 DEF DiShape, DiTrails, DiFollowed, DiCovered, DiSound, DiCachedDone, DiTally
<1>6. DiPast /\ DiReal
  BY <1>1, <1>2 DEF DiPast, DiReal, Over
<1> QED BY <1>3, <1>5, <1>6 DEF DiInv

(* Every step keeps the searches right. *)
LEMMA DiNextInv == ASSUME DiInv, DiNext PROVE DiInv'
  BY DiNextSingle, DiNextCheck, DiNextEntry, DiPopEdges, DiEdge, DiPopUnknown,
     DiPopNode, DiPopCached DEF DiNext

(* And so does a step elsewhere. *)
LEMMA DiStutters == ASSUME DiInv, UNCHANGED divars PROVE DiInv'
<1>1. UNCHANGED <<services, check, single, entries, walk, edges, reported, visited, captives>>
  BY DEF divars
<1>2. /\ Code' = Code /\ Holder' = Holder /\ (ByEdge' <=> ByEdge) /\ Singles' = Singles
      /\ Entry' = Entry /\ (\A s : Wanted(s)' <=> Wanted(s))
      /\ \A n : Registered(n)' = Registered(n) /\ Node(n)' = Node(n) /\ Deps(n)' = Deps(n)
  BY <1>1, SameSearch, ServicesStay
<1>3. /\ Starts' = Starts /\ \A w, seen : Led(w, seen)' <=> Led(w, seen)
  BY <1>1, SameSearch
<1>4. \A w, seen : Walked(w, seen)' <=> Walked(w, seen)
  BY <1>1, SameSearch
<1>5. DiTyped'
  BY <1>1 DEF DiInv, DiTyped
<1>6. (Active' <=> Active) /\ (Searching' <=> Searching)
  BY <1>1, <1>2 DEF Active, Searching
<1>7. DiShape'
  BY <1>1, <1>2, <1>6 DEF DiInv, DiShape
<1>8. DiTrails'
  BY <1>1, <1>3, <1>4 DEF DiInv, DiTrails
<1>9. \A n : Wanted(Node(n))' <=> Wanted(Node(n))
  BY <1>1, <1>2 DEF Wanted
<1>10. DiFollowed'
  BY <1>1, <1>2, <1>9 DEF DiInv, DiFollowed
<1>11. \A x : SeenTo(x)' <=> SeenTo(x)
  BY <1>1, <1>2, <1>9 DEF SeenTo, Handled, Pending, NamesIn
<1>12. DiCovered'
  BY <1>1, <1>2, <1>3, <1>6, <1>11 DEF DiInv, DiCovered, NamesIn
<1>13. Bringing(Code, Holder)' = Bringing(Code, Holder)
       /\ Bringing("DI005", Holder)' = Bringing("DI005", Holder)
  BY <1>1, <1>2, ServicesStay
<1>14. DiSound' /\ DiCachedDone'
  BY <1>1, <1>2, <1>13 DEF DiInv, DiSound, DiCachedDone
<1>15. DiTally' /\ DiPast' /\ DiReal'
  BY <1>1, CaptivesStay DEF DiInv
<1> QED BY <1>5, <1>7, <1>8, <1>10, <1>12, <1>14, <1>15 DEF DiInv

(* When the five checks are over, the invariant says what was promised. *)
LEMMA DiInvProves == ASSUME DiInv PROVE CaptivesExact /\ ChainIsReal
<1>1. ASSUME DiDone, NEW code \in ToSet(Codes), NEW j \in DOMAIN services
      PROVE  Exactly(code, j)
  <2>1. check = 6
    BY <1>1, CodesFive DEF DiInv, DiTyped, DiDone
  <2>2. PICK c \in 1 .. 5 : code = Codes[c]
    BY CodesFive
  <2>3. Over(c, j)
    BY <2>1, <2>2 DEF Over
  <2> QED BY <2>2, <2>3 DEF DiInv, DiPast
<1>2. ASSUME DiDone, NEW code \in ToSet(Codes), NEW j \in DOMAIN services
      PROVE  LET found == Found(code, j)
                 holds == Holds(code, services[j])
             IN IF j \notin Singles THEN found = {}
                ELSE IF code = "DI005"
                THEN /\ {captives[k].path[2] : k \in found}
                          = {n \in holds : Brings({n}) \cap OfInterest(code) # {}}
                     /\ \A k, l \in found : captives[k].path[2] = captives[l].path[2] => k = l
                ELSE /\ {captives[k].captured : k \in found} = Brings(holds) \cap OfInterest(code)
                     /\ \A k, l \in found : captives[k].captured = captives[l].captured => k = l
  <2>1. Exactly(code, j)
    BY <1>1, <1>2
  <2>2. \A k \in Found(code, j) : captives[k].code = code
    BY DEF Found
  <2>3. CASE j \notin Singles
    BY <2>1, <2>3 DEF Exactly
  <2>4. CASE j \in Singles /\ code = "DI005"
    <3>1. \A k \in Found(code, j) : Key(captives[k]) = captives[k].path[2]
      BY <2>2, <2>4 DEF Key
    <3>2. {Key(captives[k]) : k \in Found(code, j)} = {captives[k].path[2] : k \in Found(code, j)}
      BY <3>1
    <3>3. Holds(code, services[j]) = ToSet(services[j].cached)
      BY <2>4 DEF Holds
    <3>4. Bringing(code, services[j])
            = {n \in Holds(code, services[j]) : Brings({n}) \cap OfInterest(code) # {}}
      BY <2>4, <3>3 DEF Bringing
    <3> QED BY <2>1, <2>4, <3>1, <3>2, <3>4 DEF Exactly
  <2>5. CASE j \in Singles /\ code # "DI005"
    <3>1. \A k \in Found(code, j) : Key(captives[k]) = captives[k].captured
      BY <2>2, <2>5 DEF Key
    <3>2. {Key(captives[k]) : k \in Found(code, j)} = {captives[k].captured : k \in Found(code, j)}
      BY <3>1
    <3>3. Bringing(code, services[j]) = Brings(Holds(code, services[j])) \cap OfInterest(code)
      BY <2>5 DEF Bringing
    <3> QED BY <2>1, <2>5, <3>1, <3>2, <3>3 DEF Exactly
  <2> QED BY <2>3, <2>4, <2>5
<1>3. CaptivesExact
  BY <1>2 DEF CaptivesExact
<1>4. ChainIsReal
  BY DEF ChainIsReal, DiInv, DiReal, Real
<1> QED BY <1>3, <1>4
==============================================================================
