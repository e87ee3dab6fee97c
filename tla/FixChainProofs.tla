--------------------------- MODULE FixChainProofs ---------------------------
(***************************************************************************)
(* The chain of evidence, whatever the worlds, the attempts and the number *)
(* of mishaps.                                                             *)
(*                                                                         *)
(* The steps that read their inputs again publish of files that were all   *)
(* there together.  A file found unchanged was so at one of the moments    *)
(* since the step last learned something (ChainInv); and the last thing    *)
(* the step does is to read all that it publishes of again.                *)
(*                                                                         *)
(* What is published is the evidence of one attempt that deserves it.  A   *)
(* file that is there is genuine, though perhaps of another attempt        *)
(* (FilesInv); what a step has read is what it was when the checks that    *)
(* need it were made (HeldInv); and at the end of its script the checks    *)
(* leave one attempt that all of it belongs to (GateTells and its likes),  *)
(* by what a verdict says of sites rather than ids (VerdictTells).         *)
(***************************************************************************)
EXTENDS FixChain, ApplyBundleProofs, SequenceTheorems, FiniteSetTheorems

-----------------------------------------------------------------------------
(* Finite sets of integers, and the ids of subscriptions. *)

(* Part of a finite set. *)
LEMMA Subsets ==
  ASSUME NEW S, IsFiniteSet(S), NEW T, T \subseteq S
  PROVE  /\ IsFiniteSet(T) /\ Cardinality(T) \in Nat /\ Cardinality(S) \in Nat
         /\ Cardinality(T) <= Cardinality(S)
         /\ Cardinality(T) = Cardinality(S) => T = S
<1>0. T \in SUBSET S
  OBVIOUS
<1>1. IsFiniteSet(T) /\ Cardinality(T) <= Cardinality(S)
  BY <1>0, FS_Subset
<1>2. Cardinality(S) = Cardinality(T) => S = T
  BY <1>0, FS_Subset, Zenon
<1>3. Cardinality(T) \in Nat /\ Cardinality(S) \in Nat
  BY <1>1, FS_CardinalityType
<1> QED BY <1>1, <1>2, <1>3

(* Two finite sets with nothing in common. *)
LEMMA Apart ==
  ASSUME NEW S, IsFiniteSet(S), NEW T, IsFiniteSet(T), S \cap T = {}
  PROVE  Cardinality(S \cup T) = Cardinality(S) + Cardinality(T)
<1>1. Cardinality(S \cup T) = Cardinality(S) + Cardinality(T) - Cardinality(S \cap T)
  BY FS_Union
<1>2. Cardinality(S \cap T) = 0
  BY FS_EmptySet
<1>3. Cardinality(S) \in Nat /\ Cardinality(T) \in Nat
  BY FS_CardinalityType
<1> QED BY <1>1, <1>2, <1>3

(* Two sets matched one to one have as many members. *)
LEMMA Matched ==
  ASSUME NEW S, IsFiniteSet(S), NEW T, NEW f \in [S -> T],
         \A x, y \in S : f[x] = f[y] => x = y, \A z \in T : \E x \in S : f[x] = z
  PROVE  IsFiniteSet(T) /\ Cardinality(T) = Cardinality(S)
<1>1. f \in Injection(S, T)
  BY DEF Injection, IsInjective
<1>2. f \in Surjection(S, T)
  BY DEF Surjection
<1>3. ExistsBijection(S, T)
  BY <1>1, <1>2 DEF ExistsBijection, Bijection
<1> QED BY <1>3, FS_Bijection

(* How many members of a set of positions come before one of them.         *)
Place(A, s) == Cardinality({t \in A : t < s})

(* The places in a set of positions are numbered from zero, without a gap. *)
LEMMA PlaceIn ==
  ASSUME NEW A \in SUBSET Int, IsFiniteSet(A), NEW s \in A
  PROVE  /\ Place(A, s) \in Nat /\ Cardinality(A) \in Nat
         /\ Place(A, s) < Cardinality(A)
         /\ Cardinality({t \in A : t >= s}) = Cardinality(A) - Place(A, s)
<1>1. PICK B, D : B = {t \in A : t < s} /\ D = {t \in A : t >= s}
  OBVIOUS
<1>2. B \subseteq A /\ D = A \ B /\ s \notin B
  <2>1. \A t \in A : t \in Int /\ s \in Int
    OBVIOUS
  <2>2. \A t \in A : t >= s <=> ~ (t < s)
    BY <2>1
  <2>3. \A t \in A : t \in D <=> t \notin B
    BY <1>1, <2>2
  <2>4. ~ (s < s)
    BY <2>1
  <2>5. B \subseteq A /\ D \subseteq A /\ s \notin B
    BY <1>1, <2>4
  <2> QED BY <2>3, <2>5
<1>3. IsFiniteSet(B) /\ IsFiniteSet(D) /\ Cardinality(B) \in Nat /\ Cardinality(A) \in Nat
      /\ Cardinality(D) \in Nat
  BY <1>2, Subsets
<1>4. Cardinality(A) = Cardinality(B) + Cardinality(D)
  <2>1. A = B \cup D /\ B \cap D = {}
    BY <1>2
  <2> QED BY <1>3, <2>1, Apart
<1>5. Cardinality(B) <= Cardinality(A) /\ (Cardinality(B) = Cardinality(A) => B = A)
  BY <1>2, Subsets
<1>6. Cardinality(B) < Cardinality(A)
  BY <1>2, <1>3, <1>5
<1>7. Cardinality(D) = Cardinality(A) - Cardinality(B)
  BY <1>3, <1>4
<1> QED BY <1>1, <1>3, <1>6, <1>7 DEF Place

(* Later in a set of integers is a higher place. *)
LEMMA PlaceRises ==
  ASSUME NEW A \in SUBSET Int, IsFiniteSet(A), NEW s \in A, NEW t \in A, s < t
  PROVE  Place(A, s) < Place(A, t)
<1>1. PICK B, D : B = {x \in A : x < s} /\ D = {x \in A : x < t}
  OBVIOUS
<1>2. s \in D /\ s \notin B
  BY <1>1
<1>3. B \subseteq D
  <2>1. ASSUME NEW x \in B PROVE x \in D
    <3>1. x \in Int /\ s \in Int /\ t \in Int /\ x < s
      BY <1>1
    <3>2. x < t
      BY <3>1
    <3> QED BY <1>1, <2>1, <3>2
  <2> QED BY <2>1
<1>4. IsFiniteSet(D) /\ IsFiniteSet(B)
  BY <1>1, FS_Subset
<1>5. Cardinality(B) <= Cardinality(D) /\ (Cardinality(D) = Cardinality(B) => D = B)
  BY <1>3, <1>4, FS_Subset
<1>6. Cardinality(B) \in Nat /\ Cardinality(D) \in Nat
  BY <1>4, FS_CardinalityType
<1>7. Cardinality(B) < Cardinality(D)
  BY <1>2, <1>5, <1>6
<1> QED BY <1>1, <1>7 DEF Place

(* The place tells the integer. *)
LEMMA PlaceTells ==
  ASSUME NEW A \in SUBSET Int, IsFiniteSet(A), NEW s \in A, NEW t \in A,
         Place(A, s) = Place(A, t)
  PROVE  s = t
<1>1. s \in Int /\ t \in Int /\ Place(A, s) \in Nat /\ Place(A, t) \in Nat
  BY PlaceIn
<1>2. ~ s < t
  BY <1>1, PlaceRises
<1>3. ~ t < s
  BY <1>1, PlaceRises
<1> QED BY <1>1, <1>2, <1>3

(* The places of a finite set are numbered without gaps. *)
LEMMA PlacesFilled ==
  ASSUME NEW A \in SUBSET Int, IsFiniteSet(A), NEW n \in Nat, n < Cardinality(A)
  PROVE  \E s \in A : Place(A, s) = n
<1>1. PICK f : f = [s \in A |-> Place(A, s)]
  OBVIOUS
<1>2. PICK B, m : B = {f[s] : s \in A} /\ m = Cardinality(A)
  OBVIOUS
<1>3. \A x, y \in A : f[x] = f[y] => x = y
  BY <1>1, PlaceTells
<1>4. \A z \in B : \E x \in A : f[x] = z
  BY <1>2
<1>5. f \in [A -> B]
  BY <1>1, <1>2
<1>6. IsFiniteSet(B) /\ Cardinality(B) = m
  BY <1>2, <1>3, <1>4, <1>5, Matched
<1>7. m \in Nat
  BY <1>2, FS_CardinalityType
<1>8. B \subseteq 0 .. m - 1
  <2>1. ASSUME NEW s \in A PROVE f[s] \in 0 .. m - 1
    <3>1. f[s] \in Nat /\ f[s] < m
      BY <1>1, <1>2, PlaceIn
    <3> QED BY <1>7, <3>1
  <2> QED BY <1>2, <2>1
<1>9. IsFiniteSet(0 .. m - 1) /\ Cardinality(0 .. m - 1) = m
  <2>1. 0 \in Int /\ m - 1 \in Int
    BY <1>7
  <2>2. /\ IsFiniteSet(0 .. m - 1)
        /\ Cardinality(0 .. m - 1) = IF 0 > m - 1 THEN 0 ELSE m - 1 - 0 + 1
    BY <2>1, FS_Interval
  <2> QED BY <1>7, <2>2
<1>10. B = 0 .. m - 1
  <2>1. PICK R : R = 0 .. m - 1
    OBVIOUS
  <2>2. IsFiniteSet(R) /\ Cardinality(R) = Cardinality(B) /\ B \in SUBSET R
    BY <1>6, <1>8, <1>9, <2>1
  <2>3. Cardinality(B) = Cardinality(R) => B = R
    BY <2>2, Subsets
  <2> QED BY <2>1, <2>2, <2>3
<1>11. n \in B
  <2>1. n \in 0 .. m - 1
    BY <1>2, <1>7
  <2> QED BY <1>10, <2>1
<1> QED BY <1>1, <1>2, <1>11

-----------------------------------------------------------------------------

(* A finding id names one subscription, and tells its identity and place. *)
LEMMA ImageIs ==
  ASSUME NEW image \in Images, NEW c
  PROVE  /\ IsFiniteSet(image.left) /\ image.left \subseteq Int
         /\ Eligible(image, c) \subseteq image.left /\ IsFiniteSet(Eligible(image, c))
         /\ \A s : /\ Twins(image, c, s) \subseteq Eligible(image, c)
                   /\ Twins(image, c, s) \in SUBSET Int
                   /\ IsFiniteSet(Twins(image, c, s))
<1>1. image.left \subseteq Sites
  BY DEF Images
<1>2. IsFiniteSet(image.left) /\ image.left \subseteq Int
  BY <1>1, SitesAssumption, Subsets
<1>3. Eligible(image, c) \subseteq image.left
  BY DEF Eligible
<1>4. IsFiniteSet(Eligible(image, c))
  BY <1>2, <1>3, Subsets
<1>5. ASSUME NEW s
      PROVE  /\ Twins(image, c, s) \subseteq Eligible(image, c)
             /\ Twins(image, c, s) \in SUBSET Int
             /\ IsFiniteSet(Twins(image, c, s))
  <2>1. Twins(image, c, s) \subseteq Eligible(image, c)
    BY DEF Twins
  <2> QED BY <1>2, <1>3, <1>4, <2>1, Subsets
<1> QED BY <1>2, <1>3, <1>4, <1>5

(* An id is an identity and a place among the twins. *)
LEMMA IdIs ==
  ASSUME NEW image, NEW c, NEW s
  PROVE  Id(image, c, s) = <<Identity[s], Place(Twins(image, c, s), s)>>
<1>1. {t \in Eligible(image, c) : t < s /\ Identity[t] = Identity[s]}
        = {t \in Twins(image, c, s) : t < s}
  BY DEF Twins
<1> QED BY <1>1 DEF Id, Place

(* Two subscriptions of an image have two ids, *)
LEMMA OneId ==
  ASSUME NEW image \in Images, NEW c,
         NEW s \in Eligible(image, c), NEW t \in Eligible(image, c),
         Id(image, c, s) = Id(image, c, t)
  PROVE  s = t
<1>1. PICK A : A = Twins(image, c, s)
  OBVIOUS
<1>2. Identity[s] = Identity[t] /\ Place(Twins(image, c, s), s) = Place(Twins(image, c, t), t)
  BY IdIs
<1>3. Twins(image, c, t) = A /\ s \in A /\ t \in A
  BY <1>1, <1>2 DEF Twins
<1>4. A \in SUBSET Int /\ IsFiniteSet(A)
  BY <1>1, ImageIs
<1> QED BY <1>1, <1>2, <1>3, <1>4, PlaceTells

(* and the id leads back to the subscription. *)
LEMMA SiteIs ==
  ASSUME NEW image \in Images, NEW c, NEW s \in Eligible(image, c)
  PROVE  SiteOf(image, c, Id(image, c, s)) = s
<1>1. PICK x : x = Id(image, c, s)
  OBVIOUS
<1>2. PICK t : t = SiteOf(image, c, x)
  OBVIOUS
<1>3. t \in Eligible(image, c) /\ Id(image, c, t) = x
  BY <1>1, <1>2 DEF SiteOf
<1> QED BY <1>1, <1>2, <1>3, OneId

(* A subscription has its id in the other image when that has, of the same  *)
(* identity, more subscriptions than come before this one.                  *)
LEMMA IdStays ==
  ASSUME NEW pre \in Images, NEW post \in Images, NEW c, NEW s
  PROVE  Place(Twins(pre, c, s), s) \in Nat =>
           (Id(pre, c, s) \in Ids(post, c)
              <=> Place(Twins(pre, c, s), s) < Cardinality(Twins(post, c, s)))
<1> SUFFICES ASSUME Place(Twins(pre, c, s), s) \in Nat
             PROVE  Id(pre, c, s) \in Ids(post, c)
                      <=> Place(Twins(pre, c, s), s) < Cardinality(Twins(post, c, s))
  OBVIOUS
<1>1. PICK n, B : n = Place(Twins(pre, c, s), s) /\ B = Twins(post, c, s)
  OBVIOUS
<1>2. B \in SUBSET Int /\ IsFiniteSet(B) /\ n \in Nat
  BY <1>1, ImageIs
<1>3. Id(pre, c, s) = <<Identity[s], n>>
  BY <1>1, IdIs
<1>4. ASSUME Id(pre, c, s) \in Ids(post, c) PROVE n < Cardinality(B)
  <2>1. PICK t \in Eligible(post, c) : Id(post, c, t) = Id(pre, c, s)
    BY <1>4 DEF Ids
  <2>2. Identity[t] = Identity[s] /\ Place(Twins(post, c, t), t) = n
    BY <1>3, <2>1, IdIs
  <2>3. Twins(post, c, t) = B /\ t \in B
    BY <1>1, <2>2 DEF Twins
  <2> QED BY <1>2, <2>2, <2>3, PlaceIn
<1>5. ASSUME n < Cardinality(B) PROVE Id(pre, c, s) \in Ids(post, c)
  <2>1. PICK t \in B : Place(B, t) = n
    BY <1>2, <1>5, PlacesFilled
  <2>2. t \in Eligible(post, c) /\ Identity[t] = Identity[s]
    BY <1>1 DEF Twins
  <2>3. Twins(post, c, t) = B
    BY <1>1, <2>2 DEF Twins
  <2>4. Id(post, c, t) = <<Identity[s], n>>
    BY <2>1, <2>2, <2>3, IdIs
  <2> QED BY <1>3, <2>2, <2>4 DEF Ids
<1> QED BY <1>1, <1>4, <1>5

(* The ids of some subscriptions; the ids whose subscription is one of some. *)
IdsOf(image, c, S) == {Id(image, c, s) : s \in S}
Naming(image, c, X, P) == {x \in X : SiteOf(image, c, x) \in P}

(* The ids of some of the subscriptions, counted.                           *)
LEMMA IdsCounted ==
  ASSUME NEW image \in Images, NEW c, NEW S \in SUBSET Eligible(image, c), NEW P,
         P \subseteq S
  PROVE  Cardinality(Naming(image, c, IdsOf(image, c, S), P)) = Cardinality(P)
<1>1. PICK A, X, B : /\ A = P /\ X = {Id(image, c, s) : s \in S}
                     /\ B = {x \in X : SiteOf(image, c, x) \in P}
  OBVIOUS
<1>2. IsFiniteSet(A)
  BY <1>1, ImageIs, Subsets
<1>3. PICK f : f = [s \in A |-> Id(image, c, s)]
  OBVIOUS
<1>4. ASSUME NEW s \in A PROVE f[s] \in B
  <2>1. s \in S /\ s \in P /\ s \in Eligible(image, c)
    BY <1>1
  <2>2. SiteOf(image, c, Id(image, c, s)) = s
    BY <2>1, SiteIs
  <2> QED BY <1>1, <1>3, <2>1, <2>2
<1>5. f \in [A -> B]
  BY <1>3, <1>4
<1>6. \A x, y \in A : f[x] = f[y] => x = y
  BY <1>1, <1>3, OneId
<1>7. ASSUME NEW z \in B PROVE \E s \in A : f[s] = z
  <2>1. PICK s \in S : z = Id(image, c, s)
    BY <1>1
  <2>2. SiteOf(image, c, z) = s
    BY <2>1, SiteIs
  <2>3. s \in A
    BY <1>1, <2>2
  <2> QED BY <1>3, <2>1, <2>3
<1>8. Cardinality(B) = Cardinality(A)
  BY <1>2, <1>5, <1>6, <1>7, Matched
<1> QED BY <1>1, <1>8 DEF Naming, IdsOf

(* classify_delta: a bridge that matches leaves no subscription under its   *)
(* key that cannot be told from it.                                         *)
LEMMA BridgeTells ==
  ASSUME NEW image \in Images, NEW c, Bridged(image, c)
  PROVE  Tellable(image, c)
<1> SUFFICES ASSUME NEW s \in Eligible(image, c), NEW t \in image.left, Key[s] = Key[t]
             PROVE  t \in Fixable[c] /\ Shape[s] = Shape[t]
  BY DEF Tellable
<1>1. PICK k, U, E, Z : /\ k = Key[s] /\ U = Under(image, k)
                        /\ E = {x \in Eligible(image, c) : Key[x] = k}
                        /\ Z = {Shape[x] : x \in U}
  OBVIOUS
<1>2. Cardinality(Z) = 1 /\ Cardinality(U) = Cardinality(E)
  BY <1>1 DEF Bridged
<1>3. U \subseteq image.left /\ E \subseteq U /\ s \in U /\ t \in U
  BY <1>1, ImageIs DEF Under
<1>4. IsFiniteSet(U)
  BY <1>3, ImageIs, Subsets
<1>5. E = U
  BY <1>2, <1>3, <1>4, Subsets
<1>6. t \in Fixable[c]
  BY <1>1, <1>3, <1>5 DEF Eligible
<1>7. IsFiniteSet(Z)
  <2>1. PICK f : f = [x \in U |-> Shape[x]]
    OBVIOUS
  <2>2. f \in Surjection(U, Z)
    BY <1>1, <2>1 DEF Surjection
  <2> QED BY <1>4, <2>2, FS_Surjection
<1>8. \E x : Z = {x}
  BY <1>2, <1>7, FS_Singleton
<1>9. Shape[s] \in Z /\ Shape[t] \in Z
  BY <1>1, <1>3
<1> QED BY <1>6, <1>8, <1>9


(* What the ids of the plan say of the two images: those of the converted   *)
(* subscriptions are gone, and no other.                                    *)
LEMMA GoneTells ==
  ASSUME NEW pre \in Images, NEW post \in Images, NEW c,
         NEW S \in SUBSET Eligible(pre, c), NEW T \in SUBSET Eligible(pre, c),
         NEW X, X = {Id(pre, c, s) : s \in S}, NEW Y,
         NothingNew(pre, post, c), IdsAgree(X, Y, pre, post, c)
  PROVE  /\ ConvertedLast(S, pre, post, c)
         /\ \A s \in Eligible(post, c) :
              Cardinality(Twins(post, c, s)) <= Cardinality(Twins(pre, c, s))
<1>1. ASSUME NEW s \in Eligible(pre, c)
      PROVE  s \in S <=> Id(pre, c, s) \notin Ids(post, c)
  <2>1. PICK x : x = Id(pre, c, s)
    OBVIOUS
  <2>2. x \in Ids(pre, c)
    BY <2>1 DEF Ids
  <2>3. x \in X <=> x \notin Ids(post, c)
    BY <2>2 DEF IdsAgree
  <2>4. x \in X <=> s \in S
    BY <2>1, OneId
  <2> QED BY <2>1, <2>3, <2>4
<1>2. ASSUME NEW s \in Eligible(pre, c)
      PROVE  s \in S <=> Cardinality({t \in Twins(pre, c, s) : t >= s})
                           <= Cardinality(Twins(pre, c, s)) - Cardinality(Twins(post, c, s))
  <2>1. PICK A, B, n, a, b, d :
          /\ A = Twins(pre, c, s) /\ B = Twins(post, c, s) /\ n = Place(A, s)
          /\ a = Cardinality(A) /\ b = Cardinality(B) /\ d = Cardinality({t \in A : t >= s})
    OBVIOUS
  <2>2. s \in A
    BY <2>1 DEF Twins
  <2>3. A \in SUBSET Int /\ IsFiniteSet(A) /\ IsFiniteSet(B)
    BY <2>1, ImageIs
  <2>4. n \in Nat /\ a \in Nat /\ b \in Nat /\ d = a - n
    BY <2>1, <2>2, <2>3, PlaceIn, FS_CardinalityType
  <2>5. Id(pre, c, s) \in Ids(post, c) <=> n < b
    BY <2>1, <2>4, IdStays
  <2>6. s \in S <=> d <= a - b
    BY <1>1, <2>4, <2>5
  <2> QED BY <2>1, <2>6
<1>3. ASSUME NEW s \in Eligible(post, c)
      PROVE  Cardinality(Twins(post, c, s)) <= Cardinality(Twins(pre, c, s))
  <2>1. PICK A, B, a, b : /\ A = Twins(pre, c, s) /\ B = Twins(post, c, s)
                          /\ a = Cardinality(A) /\ b = Cardinality(B)
    OBVIOUS
  <2>2. /\ A \in SUBSET Int /\ IsFiniteSet(A) /\ a \in Nat
        /\ B \in SUBSET Int /\ IsFiniteSet(B) /\ b \in Nat
    BY <2>1, ImageIs, FS_CardinalityType
  <2>3. SUFFICES ASSUME a < b PROVE FALSE
    BY <2>1, <2>2
  <2>4. PICK t \in B : Place(B, t) = a
    BY <2>1, <2>2, <2>3, PlacesFilled
  <2>5. t \in Eligible(post, c) /\ Identity[t] = Identity[s]
    BY <2>1 DEF Twins
  <2>6. Twins(post, c, t) = B /\ Twins(pre, c, t) = A
    BY <2>1, <2>5 DEF Twins
  <2>7. Id(post, c, t) = <<Identity[s], a>>
    BY <2>4, <2>5, <2>6, IdIs
  <2>8. PICK u \in Eligible(pre, c) : Id(pre, c, u) = <<Identity[s], a>>
    BY <2>5, <2>7 DEF NothingNew, Ids
  <2>9. Identity[u] = Identity[s] /\ Place(Twins(pre, c, u), u) = a
    BY <2>8, IdIs
  <2>10. Twins(pre, c, u) = A /\ u \in A
    BY <2>1, <2>9 DEF Twins
  <2>11. Place(A, u) = a /\ Place(A, u) < a
    BY <2>1, <2>2, <2>9, <2>10, PlaceIn
  <2> QED BY <2>2, <2>11
<1> QED BY <1>2, <1>3 DEF ConvertedLast

(* classify_delta: where it passes, the fixed file differs from the original *)
(* by the conversions of the plan.                                          *)
LEMMA VerdictTells ==
  ASSUME NEW pre \in Images, NEW post \in Images, NEW c,
         NEW chosen \in SUBSET Eligible(pre, c), NEW S \in SUBSET chosen,
         NEW X, X = {Id(pre, c, s) : s \in S},
         NEW Y, Y = {Id(pre, c, s) : s \in chosen \ S},
         Verdict(X, Y, pre, post, c) = "pass"
  PROVE  AsPlanned(chosen, S, pre, post, c)
<1>1. /\ Bridged(pre, c) /\ Bridged(post, c) /\ Accepted(X, Y, pre, c)
      /\ NothingNew(pre, post, c) /\ IdsAgree(X, Y, pre, post, c)
      /\ CoreAgrees(X, pre, post, c) /\ ~ (post.advice > pre.advice)
  BY DEF Verdict
<1>2. Tellable(pre, c) /\ Tellable(post, c)
  BY <1>1, BridgeTells
<1>3. ASSUME NEW s \in S, NEW t \in chosen \ S PROVE Key[s] # Key[t]
  <2>1. PICK x, y : x = Id(pre, c, s) /\ y = Id(pre, c, t)
    OBVIOUS
  <2>2. x \in X /\ y \in Y /\ SiteOf(pre, c, x) = s /\ SiteOf(pre, c, y) = t
    BY <2>1, SiteIs
  <2> QED BY <1>1, <2>2 DEF Accepted
<1>4. /\ ConvertedLast(S, pre, post, c)
      /\ \A s \in Eligible(post, c) :
           Cardinality(Twins(post, c, s)) <= Cardinality(Twins(pre, c, s))
  <2>1. S \in SUBSET Eligible(pre, c)
    OBVIOUS
  <2> QED BY <1>1, <2>1, GoneTells
<1>5. ASSUME NEW o \in Observations
      PROVE  Count(pre, o) = Count(post, o) + Cardinality({s \in S : Observation(s) = o})
  <2>1. PICK P : P = {s \in S : Observation(s) = o}
    OBVIOUS
  <2>2. S \in SUBSET Eligible(pre, c)
    OBVIOUS
  <2>3. Cardinality(Naming(pre, c, IdsOf(pre, c, S), P)) = Cardinality(P)
    BY <2>1, <2>2, IdsCounted
  <2>4. X = IdsOf(pre, c, S)
    BY DEF IdsOf
  <2>5. Naming(pre, c, X, P)
          = {x \in X : Observation(SiteOf(pre, c, x)) = o}
    <3>1. ASSUME NEW x \in X PROVE SiteOf(pre, c, x) \in S
      <4>1. PICK s \in S : x = Id(pre, c, s)
        OBVIOUS
      <4>2. SiteOf(pre, c, x) = s
        BY <4>1, SiteIs
      <4> QED BY <4>2
    <3> QED BY <2>1, <3>1 DEF Naming
  <2>6. Authorized(X, pre, c, o) = Cardinality(P)
    BY <2>3, <2>4, <2>5 DEF Authorized
  <2>7. Count(pre, o) - Count(post, o) = Cardinality(P)
    BY <1>1, <2>6 DEF CoreAgrees, Lost
  <2>8. Count(pre, o) \in Nat /\ Count(post, o) \in Nat /\ Cardinality(P) \in Nat
    <3>1. ASSUME NEW image \in Images PROVE Count(image, o) \in Nat
      <4>1. {s \in image.left : Observation(s) = o} \subseteq image.left
        OBVIOUS
      <4> QED BY <4>1, ImageIs, Subsets DEF Count
    <3>2. IsFiniteSet(Eligible(pre, c)) /\ P \subseteq Eligible(pre, c)
      BY <2>1, ImageIs
    <3> QED BY <3>1, <3>2, Subsets
  <2> QED BY <2>1, <2>7, <2>8
<1>6. post.advice <= pre.advice
  <2>1. post.advice \in Nat /\ pre.advice \in Nat
    BY DEF Images
  <2> QED BY <1>1, <2>1
<1> QED BY <1>2, <1>3, <1>4, <1>5, <1>6 DEF AsPlanned

(* fix_certify.py: under the key of a selected subscription there are only  *)
(* selected ones.                                                           *)
LEMMA RepresentableTells ==
  ASSUME NEW pre \in Images, NEW post, NEW c,
         NEW chosen \in SUBSET Eligible(pre, c), NEW S \in SUBSET chosen,
         NEW X, X = {Id(pre, c, s) : s \in S},
         NEW Y, Y = {Id(pre, c, s) : s \in chosen \ S},
         Representable(X, Y, pre, post, c)
  PROVE  ~ SharedKey(chosen, pre, c)
<1> SUFFICES ASSUME NEW s \in chosen, NEW t \in pre.left \ chosen, Key[s] = Key[t]
             PROVE  FALSE
  BY DEF SharedKey
<1>1. PICK k, U, Z : k = Key[s] /\ U = Under(pre, k) /\ Z = X \cup Y
  OBVIOUS
<1>2. PICK x : x = Id(pre, c, s)
  OBVIOUS
<1>3. Z = {Id(pre, c, u) : u \in chosen}
  BY <1>1
<1>4. x \in Z /\ SiteOf(pre, c, x) = s
  BY <1>2, <1>3, SiteIs
<1>5. Cardinality(U) = Cardinality({y \in Z : Key[SiteOf(pre, c, y)] = k})
  <2>1. k \in {Key[SiteOf(pre, c, y)] : y \in X \cup Y}
    BY <1>1, <1>4
  <2>2. Cardinality(Under(pre, k))
          = Cardinality({y \in X \cup Y : Key[SiteOf(pre, c, y)] = k})
    BY <2>1 DEF Representable
  <2> QED BY <1>1, <2>2
<1>6. PICK P : P = {u \in chosen : Key[u] = k}
  OBVIOUS
<1>7. Cardinality(Naming(pre, c, IdsOf(pre, c, chosen), P)) = Cardinality(P)
  BY <1>6, IdsCounted
<1>8. Z = IdsOf(pre, c, chosen)
  BY <1>3 DEF IdsOf
<1>9. Naming(pre, c, Z, P) = {y \in Z : Key[SiteOf(pre, c, y)] = k}
  <2>1. ASSUME NEW y \in Z PROVE SiteOf(pre, c, y) \in chosen
    <3>1. PICK u \in chosen : y = Id(pre, c, u)
      BY <1>3
    <3>2. SiteOf(pre, c, y) = u
      BY <3>1, SiteIs
    <3> QED BY <3>2
  <2> QED BY <1>6, <2>1 DEF Naming
<1>10. Cardinality(P) = Cardinality(U)
  BY <1>5, <1>7, <1>8, <1>9
<1>11. P \subseteq U /\ IsFiniteSet(U) /\ t \in U
  <2>1. P \subseteq U /\ U \subseteq pre.left /\ t \in U
    BY <1>1, <1>6, ImageIs DEF Under
  <2> QED BY <2>1, ImageIs, Subsets
<1>12. P = U
  BY <1>10, <1>11, Subsets
<1> QED BY <1>6, <1>11, <1>12

-----------------------------------------------------------------------------
(* Lists, and what the instructions of the scripts are. *)

(* A list keeps its beginning when another is put after it. *)
LEMMA Joined ==
  ASSUME NEW S, NEW s \in Seq(S), NEW r \in Seq(S)
  PROVE  /\ s \o r \in Seq(S) /\ Len(s \o r) = Len(s) + Len(r)
         /\ \A i \in 1 .. Len(s) : (s \o r)[i] = s[i]
  OBVIOUS

(* How lists are put together does not matter. *)
LEMMA Regrouped ==
  ASSUME NEW S, NEW a \in Seq(S), NEW b \in Seq(S), NEW c \in Seq(S), NEW d \in Seq(S)
  PROVE  a \o ((b \o c) \o d) = ((a \o b) \o c) \o d
<1> DEFINE L == Seq(S)
<1>1. \A x, y, z \in L : (x \o y) \o z = x \o (y \o z)
  BY ConcatAssociative, SMTT(30)
<1>2. PICK e : e = b \o c
  OBVIOUS
<1>3. e \in L /\ a \in L /\ b \in L /\ c \in L /\ d \in L
  BY <1>2
<1> HIDE DEF L
<1>4. (a \o e) \o d = a \o (e \o d)
  BY <1>1, <1>3
<1>5. (a \o b) \o c = a \o e
  BY <1>1, <1>2, <1>3
<1> QED BY <1>2, <1>4, <1>5

(* What the instructions are about: files and checks.                      *)
Words == {"plan", "cands", "source", "protected", "manifest", "patch", "post",
          "refs", "runtime", "trials", "gate", "delta", "target", "authority",
          "gated", "classified", "bundle", "references", "collected", "certifiable", "closure"}

Stages == {"apply", "gate", "delta", "target", "cert", "done", "refused"}

Instructions == {"read", "again", "check", "try"} \X Words
Rereads      == {"again"} \X Words

(* The script of a step, by the plan it has read.                          *)
Converting == "plan" \in DOMAIN got /\ Converts(got.plan)

ScriptOf(step, converting) ==
  CASE step = "gate"   -> GateScript
    [] step = "delta"  -> DeltaScript
    [] step = "target" -> TargetScript(converting)
    [] step = "cert"   -> CertifyScript

IsList(s) == \E S : s \in Seq(S)

Witnessed(x) ==
  \E m \in DOMAIN moments :
    FileOf(x) \in DOMAIN moments[m] /\ moments[m][FileOf(x)] = got[x]

(* Read again, with nothing learned since.                                 *)
Fresh(k) ==
  /\ Script[k][1] = "again"
  /\ \A j \in k + 1 .. at.k - 1 : Script[j][1] \notin {"read", "try"}

ChainInv ==
  /\ at \in [step : Stages, k : Nat]
  /\ at.step \in Steps =>
       IsList(moments) /\ moments # << >> /\ moments[Len(moments)] = Disk
  /\ at.step \in DOMAIN Watched =>
       \A k \in 1 .. at.k - 1 : Fresh(k) => Witnessed(Script[k][2])

-----------------------------------------------------------------------------
(* The scripts. *)

(* The script is that of the step, by the plan it has read so far. *)
LEMMA ScriptIs == Script = ScriptOf(at.step, Converting)
  BY DEF Script, ScriptOf, Converting

(* What is to be read again, name after name. *)
LEMMA AgainIs ==
  ASSUME NEW names \in Seq(Words)
  PROVE  /\ Again(names) \in Seq(Rereads) /\ Len(Again(names)) = Len(names)
         /\ \A i \in 1 .. Len(names) : Again(names)[i] = <<"again", names[i]>>
<1>1. PICK n : n = Len(names)
  OBVIOUS
<1>2. n \in Nat /\ DOMAIN names = 1 .. n /\ \A i \in 1 .. n : names[i] \in Words
  BY <1>1
<1>3. Again(names) = [i \in 1 .. n |-> <<"again", names[i]>>]
  BY <1>2 DEF Again
<1>4. \A i \in 1 .. n : <<"again", names[i]>> \in Rereads
  BY <1>2 DEF Rereads
<1>5. Again(names) \in Seq(Rereads)
  BY <1>2, <1>3, <1>4
<1> QED BY <1>1, <1>2, <1>3, <1>5

(* And what is to be read at first. *)
LEMMA ReadIs ==
  ASSUME NEW names \in Seq(Words)
  PROVE  /\ Read(names) \in Seq({"read"} \X {names[i] : i \in 1 .. Len(names)})
         /\ Len(Read(names)) = Len(names)
         /\ \A i \in 1 .. Len(names) : Read(names)[i] = <<"read", names[i]>>
<1>1. PICK n : n = Len(names)
  OBVIOUS
<1>2. n \in Nat /\ DOMAIN names = 1 .. n /\ \A i \in 1 .. n : names[i] \in Words
  BY <1>1
<1>3. Read(names) = [i \in 1 .. n |-> <<"read", names[i]>>]
  BY <1>2 DEF Read
<1>4. PICK R : R = {"read"} \X {names[j] : j \in 1 .. n}
  OBVIOUS
<1>5. \A i \in 1 .. n : <<"read", names[i]>> \in R
  BY <1>4
<1>6. Read(names) \in Seq(R)
  BY <1>2, <1>3, <1>5
<1>7. Len(Read(names)) = n /\ \A i \in 1 .. n : Read(names)[i] = <<"read", names[i]>>
  BY <1>2, <1>3
<1> QED BY <1>1, <1>4, <1>6, <1>7

(* An instruction with nothing but reading again after it. *)
ReadLast(t, e) ==
  /\ Len(t) \in Nat
  /\ \E k \in 1 .. Len(t) : t[k] = e /\ \A j \in k + 1 .. Len(t) : t[j][1] = "again"

(* After what is read again last, nothing is learned. *)
LEMMA LastRead ==
  ASSUME NEW S, NEW s \in Seq(S), NEW a \in Seq(Rereads), NEW r \in Seq(Rereads),
         NEW i \in 1 .. Len(a)
  PROVE  ReadLast((s \o a) \o r, a[i])
<1>0. PICK t : t = (s \o a) \o r
  OBVIOUS
<1>1. PICK m, n, l : m = Len(s) /\ n = Len(a) /\ l = Len(r)
  OBVIOUS
<1>2. m \in Nat /\ n \in Nat /\ l \in Nat
  BY <1>1
<1>3. PICK u : u = s \o a
  OBVIOUS
<1>4. /\ u \in Seq(S \cup Rereads) /\ Len(u) = m + n
      /\ \A j \in 1 .. n : u[m + j] = a[j]
  BY <1>1, <1>2, <1>3
<1>5. /\ Len(t) = m + n + l
      /\ \A j \in 1 .. m + n : t[j] = u[j]
      /\ \A j \in 1 .. l : t[m + n + j] = r[j]
  BY <1>0, <1>1, <1>2, <1>3, <1>4
<1>6. /\ \A j \in 1 .. n : a[j][1] = "again"
      /\ \A j \in 1 .. l : r[j][1] = "again"
  <2>1. ASSUME NEW w \in Rereads PROVE w[1] = "again"
    BY DEF Rereads
  <2>2. /\ \A j \in 1 .. n : a[j] \in Rereads
        /\ \A j \in 1 .. l : r[j] \in Rereads
    BY <1>1, <1>2
  <2> QED BY <2>1, <2>2
<1>7. i \in 1 .. n /\ m + i \in 1 .. m + n /\ t[m + i] = a[i]
  BY <1>1, <1>2, <1>4, <1>5
<1>8. ASSUME NEW j \in m + i + 1 .. m + n + l PROVE t[j][1] = "again"
  <2>1. CASE j <= m + n
    <3>1. PICK h \in 1 .. n : j = m + h
      <4>1. j - m \in 1 .. n /\ j = m + (j - m)
        BY <1>2, <1>7, <2>1
      <4> QED BY <4>1
    <3>2. j \in 1 .. m + n
      BY <1>2, <3>1
    <3>3. t[j] = u[j] /\ u[m + h] = a[h] /\ a[h][1] = "again"
      BY <1>4, <1>5, <1>6, <3>1, <3>2
    <3> QED BY <3>1, <3>3
  <2>2. CASE j > m + n
    <3>1. PICK h \in 1 .. l : j = m + n + h
      <4>1. j - (m + n) \in 1 .. l /\ j = m + n + (j - (m + n))
        BY <1>2, <1>7, <2>2
      <4> QED BY <4>1
    <3> QED BY <1>5, <1>6, <3>1
  <2>3. j \in Int
    OBVIOUS
  <2>4. j <= m + n \/ j > m + n
    BY <1>2, <2>3
  <2> QED BY <2>1, <2>2, <2>4
<1>9. m + i \in 1 .. Len(t) /\ Len(t) \in Nat
  BY <1>2, <1>5, <1>7
<1> QED BY <1>0, <1>5, <1>7, <1>8, <1>9 DEF ReadLast

(* fix_target.py: what the step reads at first, whatever the plan. *)
Opening ==
  Read(<<"plan", "cands", "delta">>) \o Check("delta")
    \o Read(<<"manifest", "patch", "post", "source">>) \o Check("bundle")
    \o Read(<<"refs">>) \o Check("references")

(* What a plan that converts has it try. *)
Trying ==
  Read(<<"runtime">>) \o Check("runtime") \o Again(<<"runtime">>)
    \o Trial \o Trial \o Trial \o Check("collected")

LastLook(converted) == IF converted THEN Again(<<"runtime">>) ELSE << >>

(* The script of fix_target.py, in those words. *)
LEMMA TargetIs ==
  ASSUME NEW converted \in BOOLEAN
  PROVE  TargetScript(converted)
           = ((Opening \o (IF converted THEN Trying ELSE << >>)) \o Again(TargetInputs))
               \o LastLook(converted)
  BY DEF TargetScript, Opening, Trying, LastLook

(* What does not read the plan. *)
Others == {<<"read", "runtime">>} \cup {"again", "check", "try"} \X Words

(* A check is one instruction. *)
LEMMA ChecksAre ==
  \A x \in Words : Check(x) \in Seq(Instructions) /\ Check(x) \in Seq(Others)
<1>1. ASSUME NEW x \in Words PROVE Check(x) \in Seq(Instructions) /\ Check(x) \in Seq(Others)
  <2>1. PICK i : i = <<"check", x>>
    OBVIOUS
  <2>2. i \in Instructions /\ i \in Others
    BY <2>1 DEF Instructions, Others
  <2> QED BY <2>1, <2>2 DEF Check
<1> QED BY <1>1

(* What is read at first are instructions, too. *)
LEMMA ReadsAre == \A names \in Seq(Words) : Read(names) \in Seq(Instructions)
<1>1. ASSUME NEW names \in Seq(Words) PROVE Read(names) \in Seq(Instructions)
  <2>1. PICK R : R = {"read"} \X {names[j] : j \in 1 .. Len(names)}
    OBVIOUS
  <2>2. R \subseteq Instructions
    <3>1. \A j \in 1 .. Len(names) : names[j] \in Words
      OBVIOUS
    <3> QED BY <2>1, <3>1 DEF Instructions
  <2>3. Read(names) \in Seq(R)
    BY <2>1, ReadIs
  <2> QED BY <2>2, <2>3
<1> QED BY <1>1

(* What the scripts are put together from. *)
LEMMA PiecesAre ==
  /\ Opening \in Seq(Instructions) /\ Opening[1] = <<"read", "plan">> /\ Len(Opening) >= 1
  /\ Trying \in Seq(Others)
  /\ Again(TargetInputs) \in Seq(Rereads) /\ Again(Originals) \in Seq(Rereads)
  /\ \A c \in BOOLEAN : LastLook(c) \in Seq(Rereads)
<1>1. \A x \in Words : Check(x) \in Seq(Instructions) /\ Check(x) \in Seq(Others)
  BY ChecksAre
<1>2. \A s \in Seq(Rereads) : s \in Seq(Instructions) /\ s \in Seq(Others)
  <2>1. Rereads \subseteq Instructions /\ Rereads \subseteq Others
    BY DEF Rereads, Instructions, Others
  <2> QED BY <2>1
<1>3. \A names \in Seq(Words) : Again(names) \in Seq(Rereads)
  BY AgainIs
<1>4. \A names \in Seq(Words) : Read(names) \in Seq(Instructions)
  BY ReadsAre
<1>5. /\ <<"plan", "cands", "delta">> \in Seq(Words) /\ <<"refs">> \in Seq(Words)
      /\ <<"manifest", "patch", "post", "source">> \in Seq(Words)
      /\ <<"runtime">> \in Seq(Words) /\ TargetInputs \in Seq(Words)
      /\ Originals \in Seq(Words)
  BY DEF TargetInputs, Originals, Words
<1>6. Read(<<"runtime">>) \in Seq(Others)
  <2>1. Read(<<"runtime">>) = << <<"read", "runtime">> >>
    BY DEF Read
  <2> QED BY <2>1 DEF Others
<1>7. Trial \in Seq(Others)
  <2>1. << <<"try", "trials">> >> \in Seq(Others)
    <3>1. <<"try", "trials">> \in Others
      BY DEF Others, Words
    <3> QED BY <3>1
  <2>2. Again(<<"runtime">>) \in Seq(Others)
    BY <1>2, <1>3, <1>5
  <2> QED BY <2>1, <2>2 DEF Trial
<1>8. Trying \in Seq(Others)
  <2>1. Again(<<"runtime">>) \in Seq(Others) /\ Check("runtime") \in Seq(Others)
        /\ Check("collected") \in Seq(Others)
    BY <1>1, <1>2, <1>3, <1>5 DEF Words
  <2> QED BY <1>6, <1>7, <2>1 DEF Trying
<1>9. Opening \in Seq(Instructions) /\ Opening[1] = <<"read", "plan">> /\ Len(Opening) >= 1
  <2>1. PICK a, b, c, d, e, f :
          /\ a = Read(<<"plan", "cands", "delta">>) /\ b = Check("delta")
          /\ c = Read(<<"manifest", "patch", "post", "source">>) /\ d = Check("bundle")
          /\ e = Read(<<"refs">>) /\ f = Check("references")
    OBVIOUS
  <2>2. /\ a \in Seq(Instructions) /\ b \in Seq(Instructions) /\ c \in Seq(Instructions)
        /\ d \in Seq(Instructions) /\ e \in Seq(Instructions) /\ f \in Seq(Instructions)
    BY <1>1, <1>4, <1>5, <2>1 DEF Words
  <2>3. a = << <<"read", "plan">>, <<"read", "cands">>, <<"read", "delta">> >>
    BY <2>1 DEF Read
  <2>4. Len(a) = 3 /\ a[1] = <<"read", "plan">>
    BY <2>3
  <2>5. Opening = ((((a \o b) \o c) \o d) \o e) \o f
    BY <2>1 DEF Opening
  <2>6. PICK g : g = a \o b
    OBVIOUS
  <2>7. g \in Seq(Instructions) /\ Len(g) >= 1 /\ g[1] = a[1]
    <3>1. Len(b) \in Nat /\ 1 \in 1 .. Len(a)
      BY <2>2, <2>4
    <3>2. g \in Seq(Instructions) /\ Len(g) = Len(a) + Len(b) /\ g[1] = a[1]
      BY <2>2, <2>6, <3>1, Joined
    <3> QED BY <2>4, <3>1, <3>2
  <2>8. PICK h : h = g \o c
    OBVIOUS
  <2>9. h \in Seq(Instructions) /\ Len(h) >= 1 /\ h[1] = a[1]
    BY <2>2, <2>7, <2>8, Joined
  <2>10. PICK i : i = h \o d
    OBVIOUS
  <2>11. i \in Seq(Instructions) /\ Len(i) >= 1 /\ i[1] = a[1]
    BY <2>2, <2>9, <2>10, Joined
  <2>12. PICK j : j = i \o e
    OBVIOUS
  <2>13. j \in Seq(Instructions) /\ Len(j) >= 1 /\ j[1] = a[1]
    BY <2>2, <2>11, <2>12, Joined
  <2>14. Opening = j \o f
    BY <2>5, <2>6, <2>8, <2>10, <2>12
  <2>15. Opening \in Seq(Instructions) /\ Len(Opening) >= 1 /\ Opening[1] = a[1]
    BY <2>2, <2>13, <2>14, Joined
  <2> QED BY <2>4, <2>15
<1>10. \A c \in BOOLEAN : LastLook(c) \in Seq(Rereads)
  <2>1. Again(<<"runtime">>) \in Seq(Rereads)
    BY <1>3, <1>5
  <2>2. << >> \in Seq(Rereads)
    OBVIOUS
  <2> QED BY <2>1, <2>2 DEF LastLook
<1> QED BY <1>3, <1>5, <1>8, <1>9, <1>10

(* fix_certify.py: everything is read again twice. *)
LEMMA CertifyIs ==
  \E s \in Seq(Instructions) : CertifyScript = (s \o Again(Originals)) \o Again(Originals)
<1>1. PICK a, b, c, d, e, f :
        /\ a = Read(<<"plan", "cands", "gate", "delta", "target">>) /\ b = Check("authority")
        /\ c = Read(<<"manifest", "patch", "post">>) /\ d = Check("certifiable")
        /\ e = Read(<<"refs">>) /\ f = Check("closure")
  OBVIOUS
<1>2. \A x \in Words : Check(x) \in Seq(Instructions)
  BY ChecksAre
<1>3. /\ <<"plan", "cands", "gate", "delta", "target">> \in Seq(Words)
      /\ <<"manifest", "patch", "post">> \in Seq(Words) /\ <<"refs">> \in Seq(Words)
  BY DEF Words
<1>4. a \in Seq(Instructions) /\ c \in Seq(Instructions) /\ e \in Seq(Instructions)
  BY <1>1, <1>3, ReadsAre
<1>5. b \in Seq(Instructions) /\ d \in Seq(Instructions) /\ f \in Seq(Instructions)
  BY <1>1, <1>2 DEF Words
<1>6. PICK s : s = ((((a \o b) \o c) \o d) \o e) \o f
  OBVIOUS
<1>7. s \in Seq(Instructions)
  BY <1>4, <1>5, <1>6
<1>8. CertifyScript = (s \o Again(Originals)) \o Again(Originals)
  BY <1>1, <1>6 DEF CertifyScript
<1> QED BY <1>7, <1>8

(* The script of the target check does not change under the step: only its  *)
(* first instruction reads the plan.                                        *)
LEMMA SamePlace ==
  ASSUME NEW k \in Nat, NEW c \in BOOLEAN, NEW d \in BOOLEAN,
         k \in DOMAIN TargetScript(c), TargetScript(c)[k] = <<"read", "plan">>
  PROVE  TargetScript(d)[k] = <<"read", "plan">>
<1>1. ASSUME NEW b \in BOOLEAN
      PROVE  \E r \in Seq(Others) : TargetScript(b) = Opening \o r
  <2>1. PICK u, v, w : /\ u = IF b THEN Trying ELSE << >>
                       /\ v = Again(TargetInputs) /\ w = LastLook(b)
    OBVIOUS
  <2>2. Rereads \subseteq Others
    BY DEF Rereads, Others
  <2>3. u \in Seq(Others) /\ v \in Seq(Others) /\ w \in Seq(Others)
    BY <2>1, <2>2, PiecesAre
  <2>4. (u \o v) \o w \in Seq(Others)
    BY <2>3
  <2>5. Opening \o ((u \o v) \o w) = ((Opening \o u) \o v) \o w
    <3>1. PICK S : S = Instructions \cup Others
      OBVIOUS
    <3>2. Opening \in Seq(S) /\ u \in Seq(S) /\ v \in Seq(S) /\ w \in Seq(S)
      BY <2>3, <3>1, PiecesAre
    <3> QED BY <3>2, Regrouped, SMTT(30)
  <2> QED BY <2>1, <2>4, <2>5, TargetIs
<1>2. PICK r, s : /\ r \in Seq(Others) /\ TargetScript(c) = Opening \o r
                  /\ s \in Seq(Others) /\ TargetScript(d) = Opening \o s
  BY <1>1
<1>3. PICK n : n = Len(Opening)
  OBVIOUS
<1>4. n \in Nat /\ Opening \in Seq(Instructions)
  BY <1>3, PiecesAre
<1>5. k \in 1 .. n
  <2>1. k \in 1 .. n + Len(r) /\ Len(r) \in Nat
    BY <1>2, <1>3, <1>4
  <2>2. ASSUME k > n PROVE FALSE
    <3>1. PICK j \in 1 .. Len(r) : k = n + j
      <4>1. k - n \in 1 .. Len(r) /\ k = n + (k - n)
        BY <1>4, <2>1, <2>2
      <4> QED BY <4>1
    <3>2. TargetScript(c)[k] = r[j] /\ r[j] \in Others
      BY <1>2, <1>3, <1>4, <3>1
    <3> QED BY <3>2 DEF Others
  <2> QED BY <1>4, <2>1, <2>2
<1>6. TargetScript(c)[k] = Opening[k] /\ TargetScript(d)[k] = Opening[k]
  BY <1>2, <1>3, <1>4, <1>5
<1> QED BY <1>6

(* It is made of instructions. *)
LEMMA TargetTyped == \A c \in BOOLEAN : TargetScript(c) \in Seq(Instructions)
<1>1. ASSUME NEW c \in BOOLEAN PROVE TargetScript(c) \in Seq(Instructions)
  <2>1. PICK u, v, w : /\ u = IF c THEN Trying ELSE << >>
                       /\ v = Again(TargetInputs) /\ w = LastLook(c)
    OBVIOUS
  <2>2. Rereads \subseteq Instructions /\ Others \subseteq Instructions
    BY DEF Rereads, Others, Instructions, Words
  <2>3. u \in Seq(Instructions) /\ v \in Seq(Instructions) /\ w \in Seq(Instructions)
    BY <2>1, <2>2, PiecesAre
  <2>4. Opening \in Seq(Instructions)
    BY PiecesAre
  <2>5. ((Opening \o u) \o v) \o w \in Seq(Instructions)
    BY <2>3, <2>4
  <2> QED BY <2>1, <2>5, TargetIs
<1> QED BY <1>1

(* What is watched is read again after the last thing that is learned. *)
LEMMA Relooked ==
  ASSUME NEW x, at.step \in DOMAIN Watched, x \in Watched[at.step]
  PROVE  /\ Len(Script) \in Nat /\ x # "protected"
         /\ \E k \in 1 .. Len(Script) :
              /\ Script[k] = <<"again", x>>
              /\ \A j \in k + 1 .. Len(Script) : Script[j][1] = "again"
<1>1. CASE at.step = "target"
  <2>1. x \in {"plan", "cands", "source", "delta", "manifest", "patch", "post"}
    BY <1>1 DEF Watched, About, BundleFiles
  <2>2. TargetInputs \in Seq(Words) /\ Len(TargetInputs) = 7
    BY DEF TargetInputs, Words
  <2>3. PICK i \in 1 .. 7 : TargetInputs[i] = x
    BY <2>1 DEF TargetInputs
  <2>4. Again(TargetInputs)[i] = <<"again", x>> /\ Len(Again(TargetInputs)) = 7
    BY <2>2, <2>3, AgainIs
  <2>5. PICK c, s, a, r : /\ c = Converting
                          /\ s = Opening \o (IF c THEN Trying ELSE << >>)
                          /\ a = Again(TargetInputs) /\ r = LastLook(c)
    OBVIOUS
  <2>6. c \in BOOLEAN
    BY <2>5 DEF Converting, Converts
  <2>7. PICK S : S = Instructions \cup Others
    OBVIOUS
  <2>8. s \in Seq(S) /\ a \in Seq(Rereads) /\ r \in Seq(Rereads)
    <3>1. PICK u : u = IF c THEN Trying ELSE << >>
      OBVIOUS
    <3>2. u \in Seq(S) /\ Opening \in Seq(S)
      BY <2>7, <3>1, PiecesAre
    <3>3. s = Opening \o u
      BY <2>5, <3>1
    <3>4. s \in Seq(S)
      BY <3>2, <3>3
    <3> QED BY <2>5, <2>6, <3>4, PiecesAre
  <2>9. Script = (s \o a) \o r
    BY <1>1, <2>5, <2>6, ScriptIs, TargetIs DEF ScriptOf
  <2>10. i \in 1 .. Len(a) /\ a[i] = <<"again", x>>
    BY <2>4, <2>5
  <2>11. PICK t : t = (s \o a) \o r
    OBVIOUS
  <2>12. ReadLast(t, a[i])
    BY <2>8, <2>10, <2>11, LastRead
  <2>13. Script = t
    BY <2>9, <2>11
  <2>14. x # "protected"
    BY <2>1
  <2> QED BY <2>10, <2>12, <2>13, <2>14 DEF ReadLast
<1>2. CASE at.step = "cert"
  <2>1. x \in {"plan", "cands", "gate", "delta", "target", "refs", "manifest", "patch", "post"}
    BY <1>2 DEF Watched, About, BundleFiles
  <2>2. Originals \in Seq(Words) /\ Len(Originals) = 9
    BY DEF Originals, Words
  <2>3. PICK i \in 1 .. 9 : Originals[i] = x
    BY <2>1 DEF Originals
  <2>4. PICK a : a = Again(Originals)
    OBVIOUS
  <2>5. a[i] = <<"again", x>> /\ Len(a) = 9 /\ a \in Seq(Rereads)
    BY <2>2, <2>3, <2>4, AgainIs, PiecesAre
  <2>6. PICK s \in Seq(Instructions) : CertifyScript = (s \o a) \o a
    BY <2>4, CertifyIs
  <2>7. Script = (s \o a) \o a
    BY <1>2, <2>6, ScriptIs DEF ScriptOf
  <2>8. PICK t : t = (s \o a) \o a
    OBVIOUS
  <2>9. i \in 1 .. Len(a)
    BY <2>5
  <2>10. ReadLast(t, a[i])
    BY <2>5, <2>8, <2>9, LastRead
  <2>11. Script = t
    BY <2>7, <2>8
  <2>12. x # "protected"
    BY <2>1
  <2> QED BY <2>5, <2>10, <2>11, <2>12 DEF ReadLast
<1> QED BY <1>1, <1>2 DEF Watched

-----------------------------------------------------------------------------
(* The invariant. *)

(* While the step stands where it does, its script stays. *)
LEMMA ScriptStays ==
  ASSUME UNCHANGED <<world, at>>, Converting' = Converting
  PROVE  Script' = Script
<1>1. PICK step, c : step = at.step /\ c = Converting
  OBVIOUS
<1>2. at' = at /\ Script = ScriptOf(step, c)
  BY <1>1, ScriptIs
<1>3. Script' = ScriptOf(step, c)
  BY <1>1, <1>2, ScriptIs DEF ScriptOf, Script, Converting
<1> QED BY <1>2, <1>3

(* Of the scripts, only that of the target check depends on the plan, which *)
(* its first instruction reads: the instruction being done stays.           *)
LEMMA ReadStays ==
  ASSUME at.k \in Nat, at.step \in DOMAIN Watched, Instruction("read"), NEW v,
         got' = [x \in {Operand} \cup DOMAIN got |-> IF x = Operand THEN v ELSE got[x]],
         world' = world, at'.step = at.step
  PROVE  Script'[at.k][1] = "read"
<1>1. PICK k, x, c, d, step : /\ k = at.k /\ x = Operand /\ c = Converting /\ d = Converting'
                              /\ step = at.step
  OBVIOUS
<1>2. /\ k \in Nat /\ step \in {"target", "cert"} /\ c \in BOOLEAN /\ d \in BOOLEAN
  BY <1>1 DEF Converting, Converts, Watched
<1>3. /\ k \in DOMAIN Script /\ Script[k] = ScriptOf(step, c)[k]
      /\ ScriptOf(step, c)[k][1] = "read" /\ ScriptOf(step, c)[k][2] = x
  BY <1>1, ScriptIs DEF Instruction, Operand
<1>4. Script' = ScriptOf(step, d)
  BY <1>1 DEF Script, ScriptOf, Converting
<1>5. CASE step = "cert"
  BY <1>1, <1>3, <1>4, <1>5 DEF ScriptOf
<1>6. CASE step = "target" /\ x = "plan"
  <2>1. k \in DOMAIN TargetScript(c) /\ TargetScript(c)[k] \in Instructions
    <3>1. Script = TargetScript(c)
      BY <1>1, <1>6, ScriptIs DEF ScriptOf
    <3>2. TargetScript(c) \in Seq(Instructions)
      BY <1>2, TargetTyped
    <3> QED BY <1>3, <3>1, <3>2
  <2>2. TargetScript(c)[k] = <<"read", "plan">>
    <3>1. PICK w : w = TargetScript(c)[k]
      OBVIOUS
    <3>2. w[1] = "read" /\ w[2] = "plan"
      BY <1>3, <1>6, <3>1 DEF ScriptOf
    <3> QED BY <2>1, <3>1, <3>2 DEF Instructions
  <2>3. TargetScript(d)[k] = <<"read", "plan">>
    BY <1>2, <2>1, <2>2, SamePlace
  <2> QED BY <1>1, <1>4, <1>6, <2>3 DEF ScriptOf
<1>7. CASE step = "target" /\ x # "plan"
  <2>1. c = d
    <3>1. ("plan" \in DOMAIN got') = ("plan" \in DOMAIN got)
          /\ ("plan" \in DOMAIN got => got'.plan = got.plan)
      BY <1>1, <1>7
    <3>2. ("plan" \in DOMAIN got /\ Converts(got.plan))' = ("plan" \in DOMAIN got /\ Converts(got.plan))
      BY <3>1 DEF Converts, W
    <3> QED BY <1>1, <3>2 DEF Converting
  <2> QED BY <1>1, <1>3, <1>4, <2>1
<1> QED BY <1>2, <1>5, <1>6, <1>7

(* The moments begin with one. *)
LEMMA OneMoment == \A d : IsList(<<d>>) /\ <<d>> # << >> /\ <<d>>[Len(<<d>>)] = d /\ DOMAIN <<d>> = {1}
<1>1. ASSUME NEW d PROVE IsList(<<d>>) /\ <<d>> # << >> /\ <<d>>[Len(<<d>>)] = d /\ DOMAIN <<d>> = {1}
  <2>1. PICK s : s = <<d>>
    OBVIOUS
  <2>2. s \in Seq({d}) /\ Len(s) = 1 /\ s[1] = d /\ DOMAIN s = {1}
    BY <2>1
  <2>3. IsList(s) /\ s # << >> /\ s[Len(s)] = d
    BY <2>2 DEF IsList
  <2> QED BY <2>1, <2>2, <2>3
<1> QED BY <1>1

(* A list and one thing more. *)
Longer(t, s, d) ==
  /\ IsList(t) /\ t # << >> /\ t[Len(t)] = d
  /\ DOMAIN s \subseteq DOMAIN t /\ \A j \in DOMAIN s : t[j] = s[j]

(* A new moment comes last, and those before it stay as they are. *)
LEMMA OneMore == \A s, d : IsList(s) => Longer(Append(s, d), s, d)
<1> SUFFICES ASSUME NEW s, NEW d, IsList(s) PROVE Longer(Append(s, d), s, d)
  OBVIOUS
<1>1. PICK S : s \in Seq(S)
  BY DEF IsList
<1>2. PICK T, t : T = S \cup {d} /\ t = Append(s, d)
  OBVIOUS
<1>3. s \in Seq(T) /\ d \in T
  BY <1>1, <1>2
<1>4. t \in Seq(T) /\ Len(t) = Len(s) + 1 /\ t[Len(s) + 1] = d
      /\ \A j \in 1 .. Len(s) : t[j] = s[j]
  BY <1>2, <1>3
<1>5. IsList(t) /\ t # << >> /\ t[Len(t)] = d
  BY <1>3, <1>4 DEF IsList
<1>6. DOMAIN s \subseteq DOMAIN t /\ \A j \in DOMAIN s : t[j] = s[j]
  BY <1>3, <1>4
<1> QED BY <1>2, <1>5, <1>6 DEF Longer

(* The chain begins with the bundle not yet there. *)
LEMMA ChainInitInv == ChainInit => ChainInv
  BY DEF ChainInit, ChainInv, Stages, Steps, About, Watched

(* A step that begins has read nothing. *)
LEMMA BeginInv ==
  ASSUME NEW step \in Stages, Begin(step) PROVE ChainInv'
<1>1. at' = [step |-> step, k |-> 1] /\ moments' = <<Disk'>>
  BY DEF Begin
<1>2. PICK d : d = Disk'
  OBVIOUS
<1>3. IsList(moments') /\ moments' # << >> /\ moments'[Len(moments')] = d
  BY <1>1, <1>2, OneMoment
<1>4. IsList(moments)'
  BY <1>3 DEF IsList
<1> QED BY <1>1, <1>2, <1>3, <1>4 DEF ChainInv

(* One that is given up holds nothing. *)
LEMMA RefusedInv ==
  ASSUME at' = [step |-> "refused", k |-> 1] PROVE ChainInv'
  BY DEF ChainInv, Stages, Steps, About, Watched

(* What was found unchanged since the last thing learned stays so. *)
LEMMA LearningInv ==
  ASSUME ChainInv, at.step \in Steps, at' = [at EXCEPT !.k = @ + 1],
         UNCHANGED <<file, world, dossier, tools>>, moments' = <<Disk>>,
         at.step \in DOMAIN Watched => Script'[at.k][1] \in {"read", "try"}
  PROVE  ChainInv'
<1>1. PICK k, step : k = at.k /\ step = at.step
  OBVIOUS
<1>2. /\ k \in Nat /\ step \in Stages /\ at' = [step |-> step, k |-> k + 1]
      /\ at'.step = step /\ at'.k = k + 1
  BY <1>1 DEF ChainInv
<1>3. Disk' = Disk
  BY DEF Disk
<1>4. IsList(moments)' /\ moments' # << >> /\ moments'[Len(moments')] = Disk'
  BY <1>3, OneMoment DEF IsList
<1>5. ASSUME step \in DOMAIN Watched, NEW i \in 1 .. k, Fresh(i)' PROVE FALSE
  <2>1. /\ Script'[i][1] = "again"
        /\ \A j \in i + 1 .. k : Script'[j][1] \notin {"read", "try"}
    BY <1>2, <1>5 DEF Fresh
  <2>2. Script'[k][1] \in {"read", "try"}
    BY <1>1, <1>5
  <2>3. i # k
    BY <2>1, <2>2
  <2>4. k \in i + 1 .. k
    BY <1>2, <2>3
  <2> QED BY <2>1, <2>2, <2>4
<1>6. (at.k - 1)' = k
  BY <1>2
<1> QED BY <1>1, <1>2, <1>4, <1>5, <1>6 DEF ChainInv, Watched

(* The first reading of a file. *)
LEMMA ReadFileInv == ASSUME ChainInv, ReadFile PROVE ChainInv'
<1>1. CASE GiveUp
  BY <1>1, RefusedInv DEF GiveUp
<1>2. CASE ~ GiveUp
  <2>1. /\ Instruction("read") /\ at' = [at EXCEPT !.k = @ + 1] /\ moments' = <<Disk>>
        /\ UNCHANGED <<file, world, dossier, tools>>
        /\ got' = [x \in {Operand} \cup DOMAIN got |->
                     IF x = Operand THEN Disk[FileOf(x)] ELSE got[x]]
    BY <1>2 DEF ReadFile, Advance, avars
  <2>2. at.step \in Steps /\ at.k \in Nat /\ at'.step = at.step
    BY <2>1 DEF ChainInv, Instruction
  <2>3. PICK v : v = Disk[FileOf(Operand)]
    OBVIOUS
  <2>4. got' = [x \in {Operand} \cup DOMAIN got |-> IF x = Operand THEN v ELSE got[x]]
    BY <2>1, <2>3
  <2>5. at.step \in DOMAIN Watched => Script'[at.k][1] = "read"
    BY <2>1, <2>2, <2>4, ReadStays
  <2> QED BY <2>1, <2>2, <2>5, LearningInv
<1> QED BY <1>1, <1>2

(* A trial of the wrapper. *)
LEMMA TryWrapperInv == ASSUME ChainInv, TryWrapper PROVE ChainInv'
<1>1. PICK says :
        /\ Instruction("try") /\ at' = [at EXCEPT !.k = @ + 1] /\ moments' = <<Disk>>
        /\ UNCHANGED <<file, world, dossier, tools>>
        /\ got' = [got EXCEPT !.trials = Append(@, says)]
  BY DEF TryWrapper, Advance, avars
<1>2. at.step \in Steps /\ at.k \in Nat /\ at'.step = at.step /\ Script[at.k][1] = "try"
  BY <1>1 DEF ChainInv, Instruction
<1>3. PICK a : a = Append(got["trials"], says)
  OBVIOUS
<1>4. got' = [got EXCEPT !["trials"] = a]
  BY <1>1, <1>3
<1>5. DOMAIN got' = DOMAIN got /\ got'.plan = got.plan
  BY <1>4
<1>6. Converting' = Converting
  BY <1>1, <1>5 DEF Converting, Converts, W
<1>7. Script' = Script
  <2>1. PICK step, c : step = at.step /\ c = Converting
    OBVIOUS
  <2>2. Script = ScriptOf(step, c)
    BY <2>1, ScriptIs
  <2>3. Script' = ScriptOf(step, c)
    BY <1>2, <1>6, <2>1 DEF Script, ScriptOf, Converting
  <2> QED BY <2>2, <2>3
<1> QED BY <1>1, <1>2, <1>7, LearningInv

(* An instruction that teaches nothing: what is read again was there.       *)
LEMMA GoingOnInv ==
  ASSUME ChainInv, at.step \in Steps, at' = [at EXCEPT !.k = @ + 1],
         UNCHANGED <<file, world, dossier, tools, got, moments>>,
         at.step \in DOMAIN Watched /\ Script[at.k][1] = "again" => Witnessed(Script[at.k][2])
  PROVE  ChainInv'
<1>1. PICK k, step : k = at.k /\ step = at.step
  OBVIOUS
<1>2. /\ k \in Nat /\ step \in Stages /\ at' = [step |-> step, k |-> k + 1]
      /\ at'.step = step /\ at'.k = k + 1
  BY <1>1 DEF ChainInv
<1>3. Disk' = Disk
  BY DEF Disk
<1>4. IsList(moments)' /\ moments' # << >> /\ moments'[Len(moments')] = Disk'
  BY <1>3 DEF ChainInv, IsList
<1>5. Converting' = Converting
  BY DEF Converting, Converts, W
<1>6. Script' = Script
  <2>1. PICK c : c = Converting
    OBVIOUS
  <2>2. Script = ScriptOf(step, c)
    BY <1>1, <2>1, ScriptIs
  <2>3. Script' = ScriptOf(step, c)
    BY <1>2, <1>5, <2>1 DEF Script, ScriptOf, Converting
  <2> QED BY <2>2, <2>3
<1>7. \A x : Witnessed(x)' <=> Witnessed(x)
  BY DEF Witnessed
<1>8. ASSUME step \in DOMAIN Watched, NEW i \in 1 .. k, Fresh(i)'
      PROVE  Witnessed(Script[i][2])
  <2>1. /\ Script[i][1] = "again"
        /\ \A j \in i + 1 .. k : Script[j][1] \notin {"read", "try"}
    BY <1>2, <1>6, <1>8 DEF Fresh
  <2>2. CASE i = k
    BY <1>1, <1>8, <2>1, <2>2
  <2>3. CASE i # k
    <3>1. i \in 1 .. k - 1
      BY <1>2, <2>3
    <3>2. Fresh(i)
      BY <1>1, <1>2, <2>1 DEF Fresh
    <3> QED BY <1>1, <1>8, <3>1, <3>2 DEF ChainInv
  <2> QED BY <2>2, <2>3
<1>9. (at.k - 1)' = k
  BY <1>2
<1>10. ASSUME step \in DOMAIN Watched, NEW i \in 1 .. k, Fresh(i)'
       PROVE  Witnessed(Script[i][2])'
  <2>1. PICK x : x = Script[i][2]
    OBVIOUS
  <2>2. Witnessed(x)'
    BY <1>7, <1>8, <1>10, <2>1
  <2>3. Script'[i][2] = x
    BY <1>6, <2>1
  <2> QED BY <2>2, <2>3 DEF Witnessed
<1> QED BY <1>2, <1>4, <1>9, <1>10 DEF ChainInv, Watched

(* Checks are such instructions. *)
LEMMA MakeCheckInv == ASSUME ChainInv, MakeCheck PROVE ChainInv'
<1>1. CASE GiveUp
  BY <1>1, RefusedInv DEF GiveUp
<1>2. CASE ~ GiveUp
  <2>1. /\ Instruction("check") /\ at' = [at EXCEPT !.k = @ + 1]
        /\ UNCHANGED <<file, world, dossier, tools, got, moments>>
    BY <1>2 DEF MakeCheck, Advance, avars
  <2>2. at.step \in Steps /\ Script[at.k][1] = "check"
    BY <2>1 DEF Instruction
  <2> QED BY <2>1, <2>2, GoingOnInv
<1> QED BY <1>1, <1>2

(* So is the second reading of a file. *)
LEMMA ReadAgainInv == ASSUME ChainInv, ReadAgain PROVE ChainInv'
<1>1. CASE GiveUp
  BY <1>1, RefusedInv DEF GiveUp
<1>2. CASE ~ GiveUp
  <2>1. /\ Instruction("again") /\ at' = [at EXCEPT !.k = @ + 1]
        /\ UNCHANGED <<file, world, dossier, tools, got, moments>>
        /\ Present(Operand) /\ Disk[FileOf(Operand)] = got[Operand]
    BY <1>2 DEF ReadAgain, Advance, avars
  <2>2. at.step \in Steps
    BY <2>1 DEF Instruction
  <2>3. Witnessed(Operand)
    <3>1. IsList(moments) /\ moments # << >> /\ moments[Len(moments)] = Disk
      BY <2>2 DEF ChainInv
    <3>2. Len(moments) \in DOMAIN moments
      <4>1. PICK S : moments \in Seq(S)
        BY <3>1 DEF IsList
      <4> QED BY <3>1, <4>1
    <3> QED BY <2>1, <3>1, <3>2 DEF Witnessed, Present
  <2> QED BY <2>1, <2>2, <2>3, GoingOnInv DEF Operand
<1> QED BY <1>1, <1>2

(* What happens to the files while the step stands still is a new moment.   *)
LEMMA DisturbedInv ==
  ASSUME ChainInv, at.step \in Steps, UNCHANGED <<world, at, got>>, See
  PROVE  ChainInv'
<1>1. PICK d, s, t : d = Disk' /\ s = moments /\ t = moments'
  OBVIOUS
<1>2. IsList(s) /\ t = Append(s, d)
  BY <1>1 DEF See, ChainInv
<1>3. /\ IsList(t) /\ t # << >> /\ t[Len(t)] = d
      /\ DOMAIN s \subseteq DOMAIN t /\ \A j \in DOMAIN s : t[j] = s[j]
  <2>1. Longer(Append(s, d), s, d)
    BY <1>2, OneMore
  <2> QED BY <1>2, <2>1 DEF Longer
<1>4. Script' = Script
  <2>1. Converting' = Converting
    BY DEF Converting, Converts, W
  <2> QED BY <2>1, ScriptStays
<1>5. \A x : Witnessed(x) => Witnessed(x)'
  BY <1>1, <1>3 DEF Witnessed
<1>6. \A i : Fresh(i)' <=> Fresh(i)
  BY <1>4 DEF Fresh
<1>7. at' = at /\ at \in [step : Stages, k : Nat]
  BY DEF ChainInv
<1>8. ASSUME at.step \in DOMAIN Watched, NEW i \in 1 .. at.k - 1, Fresh(i)'
      PROVE  Witnessed(Script[i][2])'
  <2>1. PICK x : x = Script[i][2]
    OBVIOUS
  <2>2. Witnessed(x)
    BY <1>6, <1>8, <2>1 DEF ChainInv
  <2>3. Witnessed(x)'
    BY <1>5, <2>2
  <2>4. Script'[i][2] = x
    BY <1>4, <2>1
  <2> QED BY <2>3, <2>4 DEF Witnessed
<1>9. IsList(moments)' /\ moments' # << >> /\ moments'[Len(moments')] = Disk'
  BY <1>1, <1>3 DEF IsList
<1> QED BY <1>7, <1>8, <1>9 DEF ChainInv, Watched

(* Every step of the chain, and whatever happens to it. *)
LEMMA ChainNextInv == ASSUME ChainInv, [ChainNext]_<<avars, cvars>> PROVE ChainInv'
<1>1. CASE Applying \/ UNCHANGED <<avars, cvars>>
  <2>1. CASE UNCHANGED <<avars, cvars>>
    <3>1. /\ UNCHANGED <<file, world, dossier, tools, at, got, moments>>
          /\ Disk' = Disk /\ Converting' = Converting
      BY <2>1 DEF avars, cvars, Disk, Converting, Converts, W
    <3>2. Script' = Script
      BY <3>1, ScriptStays
    <3>3. (\A i : Fresh(i)' <=> Fresh(i)) /\ (\A x : Witnessed(x)' <=> Witnessed(x))
      BY <3>1, <3>2 DEF Fresh, Witnessed
    <3>4. ASSUME at.step \in DOMAIN Watched, NEW i \in 1 .. at.k - 1, Fresh(i)'
          PROVE  Witnessed(Script[i][2])'
      <4>1. PICK x : x = Script[i][2]
        OBVIOUS
      <4>2. Witnessed(x)'
        BY <3>3, <3>4, <4>1 DEF ChainInv
      <4> QED BY <3>2, <4>1, <4>2 DEF Witnessed
    <3>5. at' = at /\ moments' = moments
      BY <3>1
    <3> QED BY <3>1, <3>4, <3>5 DEF ChainInv, Watched, IsList
  <2>2. CASE Applying
    <3>1. at' = at /\ at.step = "apply"
      BY <2>2 DEF Applying, cvars
    <3> QED BY <3>1 DEF ChainInv, Steps, About, Watched
  <2> QED BY <1>1, <2>1, <2>2
<1>2. CASE HandOver
  <2>1. Begin("gate") /\ "gate" \in Stages
    BY <1>2 DEF HandOver, Stages
  <2> QED BY <2>1, BeginInv
<1>3. CASE PublishEvidence
  <2>1. CASE GiveUp
    BY <2>1, RefusedInv DEF GiveUp
  <2>2. CASE Begin(Following[at.step])
    <3>1. at.step \in Steps
      BY <1>3 DEF PublishEvidence
    <3>2. Following[at.step] \in Stages
      BY <3>1 DEF Steps, About, Following, Stages
    <3> QED BY <2>2, <3>2, BeginInv
  <2> QED BY <1>3, <2>1, <2>2 DEF PublishEvidence
<1>4. CASE ReadFile \/ MakeCheck \/ ReadAgain \/ TryWrapper
  BY <1>4, ReadFileInv, MakeCheckInv, ReadAgainInv, TryWrapperInv
<1>5. CASE ReplaceInput \/ ReplaceTools \/ Exchange
  <2>1. at.step \in Steps /\ UNCHANGED <<world, at, got>> /\ See
    BY <1>5 DEF ReplaceInput, ReplaceTools, Exchange, Disturb
  <2> QED BY <2>1, DisturbedInv
<1>6. CASE StopStep
  BY <1>6, RefusedInv DEF StopStep
<1> QED BY <1>1, <1>2, <1>3, <1>4, <1>5, <1>6 DEF ChainNext, ChainStep

(* A file found in place, at one of several moments, was there from the     *)
(* first of them on, unless it was put back.                                *)
LEMMA InvariantTells == ASSUME ChainInv PROVE AtOneMoment
<1> SUFFICES ASSUME at.step \in DOMAIN Watched, at.k = Len(Script) + 1,
                    \A x \in Watched[at.step] : ~ PutBack(x)
             PROVE  \E i \in DOMAIN moments : \A x \in Watched[at.step] : Holding(x, moments[i])
  BY DEF AtOneMoment
<1>1. at.step \in Steps
  BY DEF Watched, Steps, About
<1>2. PICK S : moments \in Seq(S) /\ moments # << >>
  BY <1>1 DEF ChainInv, IsList
<1>3. 1 \in DOMAIN moments /\ \A m \in DOMAIN moments : m = 1 \/ 1 < m
  BY <1>2
<1>4. ASSUME NEW x \in Watched[at.step] PROVE Holding(x, moments[1])
  <2>1. /\ Len(Script) \in Nat /\ x # "protected"
        /\ \E k \in 1 .. Len(Script) :
             /\ Script[k] = <<"again", x>>
             /\ \A j \in k + 1 .. Len(Script) : Script[j][1] = "again"
    BY Relooked
  <2>2. PICK k \in 1 .. Len(Script) :
             /\ Script[k] = <<"again", x>>
             /\ \A j \in k + 1 .. Len(Script) : Script[j][1] = "again"
    BY <2>1
  <2>3. at.k - 1 = Len(Script)
    BY <2>1
  <2>4. Fresh(k)
    BY <2>2, <2>3 DEF Fresh
  <2>5. Witnessed(Script[k][2]) /\ Script[k][2] = x
    BY <2>2, <2>3, <2>4 DEF ChainInv
  <2>6. PICK m \in DOMAIN moments : Holding(x, moments[m])
    BY <2>1, <2>5 DEF Witnessed, Holding, FileOf
  <2> QED BY <1>3, <2>6 DEF PutBack
<1> QED BY <1>3, <1>4

(* What a step publishes of was all there at one moment, when the step had  *)
(* read the last of it and made the last trial: fix_target.py reads its     *)
(* inputs again before it publishes, fix_certify.py twice.                  *)
THEOREM EvidenceAtOneMoment == ChainSpec => []AtOneMoment
<1>1. ChainInit => ChainInv
  BY ChainInitInv
<1>2. ChainInv /\ [ChainNext]_<<avars, cvars>> => ChainInv'
  BY ChainNextInv
<1>3. ChainInv => AtOneMoment
  BY InvariantTells
<1> QED BY <1>1, <1>2, <1>3, PTL DEF ChainSpec

-----------------------------------------------------------------------------
(* What each script reads and checks, and in which order. *)

(* A list of m + n: one of m, then one of n.                                *)
Joins(t, s, m, r, n) ==
  /\ Len(t) = m + n
  /\ \A i \in 1 .. m : t[i] = s[i]
  /\ \A j \in 1 .. n : t[m + j] = r[j]

(* So is one list put after another.                                        *)
LEMMA JoinsThem ==
  ASSUME NEW S, NEW s \in Seq(S), NEW r \in Seq(S)
  PROVE  s \o r \in Seq(S) /\ Joins(s \o r, s, Len(s), r, Len(r))
  BY DEF Joins

(* What a check looks at.                                                   *)
Needs ==
  [authority   |-> {"plan", "cands"},
   gated       |-> {"plan", "cands", "source", "manifest", "patch", "post"},
   gate        |-> {"plan", "cands", "source", "manifest", "patch", "post", "gate"},
   classified  |-> {"plan", "cands", "source", "post", "refs"},
   delta       |-> {"plan", "cands", "delta"},
   bundle      |-> {"source", "manifest", "patch", "post", "delta"},
   references  |-> {"refs", "delta"},
   runtime     |-> {"runtime", "delta"},
   collected   |-> {"trials"},
   certifiable |-> {"plan", "cands", "manifest", "patch", "post", "gate", "delta", "target"},
   closure     |-> {"refs", "delta", "target"}]

(* A check comes after the reading of all it looks at, and nothing of that  *)
(* is read or tried after the check.                                        *)
Orderly(s) ==
  \A i \in 1 .. Len(s) : s[i][1] = "check" =>
    /\ \A x \in Needs[s[i][2]] : x = "trials" \/ \E j \in 1 .. i - 1 : s[j] = <<"read", x>>
    /\ \A j \in i + 1 .. Len(s) : s[j][1] \in {"read", "try"} => s[j][2] \notin Needs[s[i][2]]

(* fix_gate.py, instruction by instruction.                                 *)
LEMMA GateTable ==
  /\ GateScript \in Seq(Instructions) /\ Len(GateScript) = 8
  /\ GateScript[1] = <<"read", "manifest">> /\ GateScript[2] = <<"read", "patch">>
  /\ GateScript[3] = <<"read", "plan">> /\ GateScript[4] = <<"read", "cands">>
  /\ GateScript[5] = <<"read", "post">> /\ GateScript[6] = <<"check", "authority">>
  /\ GateScript[7] = <<"read", "source">> /\ GateScript[8] = <<"check", "gated">>
<1>1. PICK a, b, c, d : a = Read(<<"manifest", "patch", "plan", "cands", "post">>) /\
                        b = Check("authority") /\ c = Read(<<"source">>) /\
                        d = Check("gated")
  OBVIOUS
<1>2. /\ a = << <<"read", "manifest">>, <<"read", "patch">>, <<"read", "plan">>, <<"read", "cands">>, <<"read", "post">> >>
      /\ b = << <<"check", "authority">> >>
      /\ c = << <<"read", "source">> >>
      /\ d = << <<"check", "gated">> >>
  BY <1>1 DEF Read, Check
<1>3. Len(a) = 5 /\ Len(b) = 1 /\ Len(c) = 1 /\ Len(d) = 1
  BY <1>2
<1>4. a \in Seq(Instructions) /\ b \in Seq(Instructions) /\
      c \in Seq(Instructions) /\ d \in Seq(Instructions)
  BY <1>2 DEF Instructions, Words
<1>5. PICK t1, t2, t3 : t1 = a \o b /\ t2 = t1 \o c /\ t3 = t2 \o d
  OBVIOUS
<1>6. t1 \in Seq(Instructions) /\ Joins(t1, a, 5, b, 1)
  BY <1>3, <1>4, <1>5, JoinsThem
<1>7. Len(t1) = 6
  BY <1>6 DEF Joins
<1>8. t2 \in Seq(Instructions) /\ Joins(t2, t1, 6, c, 1)
  BY <1>3, <1>4, <1>5, <1>6, <1>7, JoinsThem
<1>9. Len(t2) = 7
  BY <1>8 DEF Joins
<1>10. t3 \in Seq(Instructions) /\ Joins(t3, t2, 7, d, 1)
  BY <1>3, <1>4, <1>5, <1>8, <1>9, JoinsThem
<1>11. Len(t3) = 8
  BY <1>10 DEF Joins
<1>12. t3 = GateScript
  BY <1>1, <1>5 DEF GateScript
<1>13. (\A i \in 1 .. 7 : t3[i] = t2[i]) /\ t3[8] = d[1]
  BY <1>10 DEF Joins
<1>14. (\A i \in 1 .. 6 : t3[i] = t1[i]) /\ t3[7] = c[1]
  BY <1>8, <1>13 DEF Joins
<1>15. (\A i \in 1 .. 5 : t3[i] = a[i]) /\ t3[6] = b[1]
  BY <1>6, <1>14 DEF Joins
<1>16. /\ t3[1] = <<"read", "manifest">> /\ t3[2] = <<"read", "patch">> /\ t3[3] = <<"read", "plan">>
       /\ t3[4] = <<"read", "cands">> /\ t3[5] = <<"read", "post">> /\ t3[6] = <<"check", "authority">>
       /\ t3[7] = <<"read", "source">> /\ t3[8] = <<"check", "gated">>
  BY <1>2, <1>13, <1>14, <1>15
<1> QED BY <1>10, <1>11, <1>12, <1>16

(* fix_delta.py.                                                            *)
LEMMA DeltaTable ==
  /\ DeltaScript \in Seq(Instructions) /\ Len(DeltaScript) = 17
  /\ DeltaScript[1] = <<"read", "plan">> /\ DeltaScript[2] = <<"read", "cands">>
  /\ DeltaScript[3] = <<"read", "gate">> /\ DeltaScript[4] = <<"check", "authority">>
  /\ DeltaScript[5] = <<"read", "manifest">> /\ DeltaScript[6] = <<"read", "patch">>
  /\ DeltaScript[7] = <<"read", "post">> /\ DeltaScript[8] = <<"read", "source">>
  /\ DeltaScript[9] = <<"check", "gate">> /\ DeltaScript[10] = <<"read", "runtime">>
  /\ DeltaScript[11] = <<"read", "refs">> /\ DeltaScript[12] = <<"read", "protected">>
  /\ DeltaScript[13] = <<"again", "runtime">> /\ DeltaScript[14] = <<"again", "runtime">>
  /\ DeltaScript[15] = <<"again", "runtime">> /\ DeltaScript[16] = <<"again", "protected">>
  /\ DeltaScript[17] = <<"check", "classified">>
<1>1. PICK a, b, c, d, e, f, g : a = Read(<<"plan", "cands", "gate">>) /\
                                 b = Check("authority") /\
                                 c = Read(<<"manifest", "patch", "post", "source">>) /\
                                 d = Check("gate") /\
                                 e = Read(<<"runtime", "refs", "protected">>) /\
                                 f = Again(<<"runtime", "runtime", "runtime", "protected">>) /\
                                 g = Check("classified")
  OBVIOUS
<1>2. /\ a = << <<"read", "plan">>, <<"read", "cands">>, <<"read", "gate">> >>
      /\ b = << <<"check", "authority">> >>
      /\ c = << <<"read", "manifest">>, <<"read", "patch">>, <<"read", "post">>, <<"read", "source">> >>
      /\ d = << <<"check", "gate">> >>
      /\ e = << <<"read", "runtime">>, <<"read", "refs">>, <<"read", "protected">> >>
      /\ f = << <<"again", "runtime">>, <<"again", "runtime">>, <<"again", "runtime">>, <<"again", "protected">> >>
      /\ g = << <<"check", "classified">> >>
  BY <1>1 DEF Read, Check, Again
<1>3. Len(a) = 3 /\ Len(b) = 1 /\ Len(c) = 4 /\ Len(d) = 1 /\ Len(e) = 3 /\ Len(f) = 4 /\ Len(g) = 1
  BY <1>2
<1>4. a \in Seq(Instructions) /\ b \in Seq(Instructions) /\
      c \in Seq(Instructions) /\ d \in Seq(Instructions) /\
      e \in Seq(Instructions) /\ f \in Seq(Instructions) /\ g \in Seq(Instructions)
  BY <1>2 DEF Instructions, Words
<1>5. PICK t1, t2, t3, t4, t5, t6 : t1 = a \o b /\ t2 = t1 \o c /\ t3 = t2 \o d /\
                                    t4 = t3 \o e /\ t5 = t4 \o f /\ t6 = t5 \o g
  OBVIOUS
<1>6. t1 \in Seq(Instructions) /\ Joins(t1, a, 3, b, 1)
  BY <1>3, <1>4, <1>5, JoinsThem
<1>7. Len(t1) = 4
  BY <1>6 DEF Joins
<1>8. t2 \in Seq(Instructions) /\ Joins(t2, t1, 4, c, 4)
  BY <1>3, <1>4, <1>5, <1>6, <1>7, JoinsThem
<1>9. Len(t2) = 8
  BY <1>8 DEF Joins
<1>10. t3 \in Seq(Instructions) /\ Joins(t3, t2, 8, d, 1)
  BY <1>3, <1>4, <1>5, <1>8, <1>9, JoinsThem
<1>11. Len(t3) = 9
  BY <1>10 DEF Joins
<1>12. t4 \in Seq(Instructions) /\ Joins(t4, t3, 9, e, 3)
  BY <1>3, <1>4, <1>5, <1>10, <1>11, JoinsThem
<1>13. Len(t4) = 12
  BY <1>12 DEF Joins
<1>14. t5 \in Seq(Instructions) /\ Joins(t5, t4, 12, f, 4)
  BY <1>3, <1>4, <1>5, <1>12, <1>13, JoinsThem
<1>15. Len(t5) = 16
  BY <1>14 DEF Joins
<1>16. t6 \in Seq(Instructions) /\ Joins(t6, t5, 16, g, 1)
  BY <1>3, <1>4, <1>5, <1>14, <1>15, JoinsThem
<1>17. Len(t6) = 17
  BY <1>16 DEF Joins
<1>18. t6 = DeltaScript
  BY <1>1, <1>5 DEF DeltaScript
<1>19. (\A i \in 1 .. 16 : t6[i] = t5[i]) /\ t6[17] = g[1]
  BY <1>16 DEF Joins
<1>20. (\A i \in 1 .. 12 : t6[i] = t4[i]) /\ (\A i \in 1 .. 4 : t6[12 + i] = f[i])
  BY <1>14, <1>19, SMTT(30) DEF Joins
<1>21. (\A i \in 1 .. 9 : t6[i] = t3[i]) /\ (\A i \in 1 .. 3 : t6[9 + i] = e[i])
  BY <1>12, <1>20 DEF Joins
<1>22. (\A i \in 1 .. 8 : t6[i] = t2[i]) /\ t6[9] = d[1]
  BY <1>10, <1>21 DEF Joins
<1>23. (\A i \in 1 .. 4 : t6[i] = t1[i]) /\ (\A i \in 1 .. 4 : t6[4 + i] = c[i])
  BY <1>8, <1>22 DEF Joins
<1>24. (\A i \in 1 .. 3 : t6[i] = a[i]) /\ t6[4] = b[1]
  BY <1>6, <1>23 DEF Joins
<1>25. /\ t6[1] = <<"read", "plan">> /\ t6[2] = <<"read", "cands">> /\ t6[3] = <<"read", "gate">>
       /\ t6[4] = <<"check", "authority">> /\ t6[5] = <<"read", "manifest">> /\ t6[6] = <<"read", "patch">>
       /\ t6[7] = <<"read", "post">> /\ t6[8] = <<"read", "source">> /\ t6[9] = <<"check", "gate">>
       /\ t6[10] = <<"read", "runtime">> /\ t6[11] = <<"read", "refs">> /\ t6[12] = <<"read", "protected">>
       /\ t6[13] = <<"again", "runtime">> /\ t6[14] = <<"again", "runtime">> /\ t6[15] = <<"again", "runtime">>
       /\ t6[16] = <<"again", "protected">> /\ t6[17] = <<"check", "classified">>
  BY <1>2, <1>19, <1>20, <1>21, <1>22, <1>23, <1>24
<1> QED BY <1>16, <1>17, <1>18, <1>25

(* A trial: the runtime is looked at again, and the wrapper is run.         *)
LEMMA TrialIs == Trial = << <<"again", "runtime">>, <<"try", "trials">> >>
<1>1. PICK a, b, t : a = Again(<<"runtime">>) /\ b = << <<"try", "trials">> >> /\ t = a \o b
  OBVIOUS
<1>2. a = << <<"again", "runtime">> >>
  BY <1>1 DEF Again
<1>3. a \in Seq(Instructions) /\ b \in Seq(Instructions) /\ Len(a) = 1 /\ Len(b) = 1
  <2>1. PICK x, y : x = <<"again", "runtime">> /\ y = <<"try", "trials">>
    OBVIOUS
  <2>2. x \in Instructions /\ y \in Instructions /\ a = <<x>> /\ b = <<y>>
    BY <1>1, <1>2, <2>1 DEF Instructions, Words
  <2> QED BY <2>2
<1>4. t \in Seq(Instructions) /\ Joins(t, a, 1, b, 1)
  BY <1>1, <1>3, JoinsThem
<1>5. Len(t) = 2 /\ t[1] = <<"again", "runtime">> /\ t[2] = <<"try", "trials">>
  BY <1>1, <1>2, <1>4 DEF Joins
<1>6. t = << <<"again", "runtime">>, <<"try", "trials">> >>
  BY <1>4, <1>5
<1> QED BY <1>1, <1>6 DEF Trial

(* fix_target.py, to where a plan that converts is tried.                   *)
LEMMA OpeningTable ==
  /\ Opening \in Seq(Instructions) /\ Len(Opening) = 11
  /\ Opening[1] = <<"read", "plan">> /\ Opening[2] = <<"read", "cands">>
  /\ Opening[3] = <<"read", "delta">> /\ Opening[4] = <<"check", "delta">>
  /\ Opening[5] = <<"read", "manifest">> /\ Opening[6] = <<"read", "patch">>
  /\ Opening[7] = <<"read", "post">> /\ Opening[8] = <<"read", "source">>
  /\ Opening[9] = <<"check", "bundle">> /\ Opening[10] = <<"read", "refs">>
  /\ Opening[11] = <<"check", "references">>
<1>1. PICK a, b, c, d, e, f : a = Read(<<"plan", "cands", "delta">>) /\
                              b = Check("delta") /\
                              c = Read(<<"manifest", "patch", "post", "source">>) /\
                              d = Check("bundle") /\ e = Read(<<"refs">>) /\
                              f = Check("references")
  OBVIOUS
<1>2. /\ a = << <<"read", "plan">>, <<"read", "cands">>, <<"read", "delta">> >>
      /\ b = << <<"check", "delta">> >>
      /\ c = << <<"read", "manifest">>, <<"read", "patch">>, <<"read", "post">>, <<"read", "source">> >>
      /\ d = << <<"check", "bundle">> >>
      /\ e = << <<"read", "refs">> >>
      /\ f = << <<"check", "references">> >>
  BY <1>1 DEF Read, Check
<1>3. Len(a) = 3 /\ Len(b) = 1 /\ Len(c) = 4 /\ Len(d) = 1 /\ Len(e) = 1 /\ Len(f) = 1
  BY <1>2
<1>4. a \in Seq(Instructions) /\ b \in Seq(Instructions) /\
      c \in Seq(Instructions) /\ d \in Seq(Instructions) /\
      e \in Seq(Instructions) /\ f \in Seq(Instructions)
  BY <1>2 DEF Instructions, Words
<1>5. PICK t1, t2, t3, t4, t5 : t1 = a \o b /\ t2 = t1 \o c /\ t3 = t2 \o d /\
                                t4 = t3 \o e /\ t5 = t4 \o f
  OBVIOUS
<1>6. t1 \in Seq(Instructions) /\ Joins(t1, a, 3, b, 1)
  BY <1>3, <1>4, <1>5, JoinsThem
<1>7. Len(t1) = 4
  BY <1>6 DEF Joins
<1>8. t2 \in Seq(Instructions) /\ Joins(t2, t1, 4, c, 4)
  BY <1>3, <1>4, <1>5, <1>6, <1>7, JoinsThem
<1>9. Len(t2) = 8
  BY <1>8 DEF Joins
<1>10. t3 \in Seq(Instructions) /\ Joins(t3, t2, 8, d, 1)
  BY <1>3, <1>4, <1>5, <1>8, <1>9, JoinsThem
<1>11. Len(t3) = 9
  BY <1>10 DEF Joins
<1>12. t4 \in Seq(Instructions) /\ Joins(t4, t3, 9, e, 1)
  BY <1>3, <1>4, <1>5, <1>10, <1>11, JoinsThem
<1>13. Len(t4) = 10
  BY <1>12 DEF Joins
<1>14. t5 \in Seq(Instructions) /\ Joins(t5, t4, 10, f, 1)
  BY <1>3, <1>4, <1>5, <1>12, <1>13, JoinsThem
<1>15. Len(t5) = 11
  BY <1>14 DEF Joins
<1>16. t5 = Opening
  BY <1>1, <1>5 DEF Opening
<1>17. (\A i \in 1 .. 10 : t5[i] = t4[i]) /\ t5[11] = f[1]
  BY <1>14 DEF Joins
<1>18. (\A i \in 1 .. 9 : t5[i] = t3[i]) /\ t5[10] = e[1]
  BY <1>12, <1>17 DEF Joins
<1>19. (\A i \in 1 .. 8 : t5[i] = t2[i]) /\ t5[9] = d[1]
  BY <1>10, <1>18 DEF Joins
<1>20. (\A i \in 1 .. 4 : t5[i] = t1[i]) /\ (\A i \in 1 .. 4 : t5[4 + i] = c[i])
  BY <1>8, <1>19 DEF Joins
<1>21. (\A i \in 1 .. 3 : t5[i] = a[i]) /\ t5[4] = b[1]
  BY <1>6, <1>20 DEF Joins
<1>22. /\ t5[1] = <<"read", "plan">> /\ t5[2] = <<"read", "cands">> /\ t5[3] = <<"read", "delta">>
       /\ t5[4] = <<"check", "delta">> /\ t5[5] = <<"read", "manifest">> /\ t5[6] = <<"read", "patch">>
       /\ t5[7] = <<"read", "post">> /\ t5[8] = <<"read", "source">> /\ t5[9] = <<"check", "bundle">>
       /\ t5[10] = <<"read", "refs">> /\ t5[11] = <<"check", "references">>
  BY <1>2, <1>17, <1>18, <1>19, <1>20, <1>21
<1> QED BY <1>14, <1>15, <1>16, <1>22

(* The trials.                                                              *)
LEMMA TryingTable ==
  /\ Trying \in Seq(Instructions) /\ Len(Trying) = 10
  /\ Trying[1] = <<"read", "runtime">> /\ Trying[2] = <<"check", "runtime">>
  /\ Trying[3] = <<"again", "runtime">> /\ Trying[4] = <<"again", "runtime">>
  /\ Trying[5] = <<"try", "trials">> /\ Trying[6] = <<"again", "runtime">>
  /\ Trying[7] = <<"try", "trials">> /\ Trying[8] = <<"again", "runtime">>
  /\ Trying[9] = <<"try", "trials">> /\ Trying[10] = <<"check", "collected">>
<1>1. PICK a, b, c, d, e, f, g : a = Read(<<"runtime">>) /\ b = Check("runtime") /\
                                 c = Again(<<"runtime">>) /\ d = Trial /\
                                 e = Trial /\ f = Trial /\ g = Check("collected")
  OBVIOUS
<1>2. /\ a = << <<"read", "runtime">> >>
      /\ b = << <<"check", "runtime">> >>
      /\ c = << <<"again", "runtime">> >>
      /\ d = << <<"again", "runtime">>, <<"try", "trials">> >>
      /\ e = << <<"again", "runtime">>, <<"try", "trials">> >>
      /\ f = << <<"again", "runtime">>, <<"try", "trials">> >>
      /\ g = << <<"check", "collected">> >>
  BY <1>1, TrialIs DEF Read, Check, Again
<1>3. Len(a) = 1 /\ Len(b) = 1 /\ Len(c) = 1 /\ Len(d) = 2 /\ Len(e) = 2 /\ Len(f) = 2 /\ Len(g) = 1
  BY <1>2
<1>4. a \in Seq(Instructions) /\ b \in Seq(Instructions) /\
      c \in Seq(Instructions) /\ d \in Seq(Instructions) /\
      e \in Seq(Instructions) /\ f \in Seq(Instructions) /\ g \in Seq(Instructions)
  BY <1>2 DEF Instructions, Words
<1>5. PICK t1, t2, t3, t4, t5, t6 : t1 = a \o b /\ t2 = t1 \o c /\ t3 = t2 \o d /\
                                    t4 = t3 \o e /\ t5 = t4 \o f /\ t6 = t5 \o g
  OBVIOUS
<1>6. t1 \in Seq(Instructions) /\ Joins(t1, a, 1, b, 1)
  BY <1>3, <1>4, <1>5, JoinsThem
<1>7. Len(t1) = 2
  BY <1>6 DEF Joins
<1>8. t2 \in Seq(Instructions) /\ Joins(t2, t1, 2, c, 1)
  BY <1>3, <1>4, <1>5, <1>6, <1>7, JoinsThem
<1>9. Len(t2) = 3
  BY <1>8 DEF Joins
<1>10. t3 \in Seq(Instructions) /\ Joins(t3, t2, 3, d, 2)
  BY <1>3, <1>4, <1>5, <1>8, <1>9, JoinsThem
<1>11. Len(t3) = 5
  BY <1>10 DEF Joins
<1>12. t4 \in Seq(Instructions) /\ Joins(t4, t3, 5, e, 2)
  BY <1>3, <1>4, <1>5, <1>10, <1>11, JoinsThem
<1>13. Len(t4) = 7
  BY <1>12 DEF Joins
<1>14. t5 \in Seq(Instructions) /\ Joins(t5, t4, 7, f, 2)
  BY <1>3, <1>4, <1>5, <1>12, <1>13, JoinsThem
<1>15. Len(t5) = 9
  BY <1>14 DEF Joins
<1>16. t6 \in Seq(Instructions) /\ Joins(t6, t5, 9, g, 1)
  <2>1. t5 \in Seq(Instructions) /\ g \in Seq(Instructions)
    BY <1>4, <1>14
  <2>2. t5 \o g \in Seq(Instructions) /\ Joins(t5 \o g, t5, Len(t5), g, Len(g))
    BY <2>1, JoinsThem
  <2> QED BY <1>3, <1>5, <1>15, <2>2
<1>17. Len(t6) = 10
  BY <1>16 DEF Joins
<1>18. t6 = Trying
  BY <1>1, <1>5 DEF Trying
<1>19. (\A i \in 1 .. 9 : t6[i] = t5[i]) /\ t6[10] = g[1]
  BY <1>16 DEF Joins
<1>20. (\A i \in 1 .. 7 : t6[i] = t4[i]) /\ (\A i \in 1 .. 2 : t6[7 + i] = f[i])
  BY <1>14, <1>19 DEF Joins
<1>21. (\A i \in 1 .. 5 : t6[i] = t3[i]) /\ (\A i \in 1 .. 2 : t6[5 + i] = e[i])
  BY <1>12, <1>20 DEF Joins
<1>22. (\A i \in 1 .. 3 : t6[i] = t2[i]) /\ (\A i \in 1 .. 2 : t6[3 + i] = d[i])
  BY <1>10, <1>21 DEF Joins
<1>23. (\A i \in 1 .. 2 : t6[i] = t1[i]) /\ t6[3] = c[1]
  BY <1>8, <1>22 DEF Joins
<1>24. (\A i \in 1 .. 1 : t6[i] = a[i]) /\ t6[2] = b[1]
  BY <1>6, <1>23 DEF Joins
<1>25. /\ t6[1] = <<"read", "runtime">> /\ t6[2] = <<"check", "runtime">> /\ t6[3] = <<"again", "runtime">>
       /\ t6[4] = <<"again", "runtime">> /\ t6[5] = <<"try", "trials">> /\ t6[6] = <<"again", "runtime">>
       /\ t6[7] = <<"try", "trials">> /\ t6[8] = <<"again", "runtime">> /\ t6[9] = <<"try", "trials">>
       /\ t6[10] = <<"check", "collected">>
  BY <1>2, <1>19, <1>20, <1>21, <1>22, <1>23, <1>24
<1> QED BY <1>16, <1>17, <1>18, <1>25

(* fix_certify.py, up to where everything is read again.                    *)
Certifying ==
  Read(<<"plan", "cands", "gate", "delta", "target">>) \o Check("authority")
    \o Read(<<"manifest", "patch", "post">>) \o Check("certifiable")
    \o Read(<<"refs">>) \o Check("closure")

(* Instruction by instruction.                                              *)
LEMMA CertifyingTable ==
  /\ Certifying \in Seq(Instructions) /\ Len(Certifying) = 12
  /\ Certifying[1] = <<"read", "plan">> /\ Certifying[2] = <<"read", "cands">>
  /\ Certifying[3] = <<"read", "gate">> /\ Certifying[4] = <<"read", "delta">>
  /\ Certifying[5] = <<"read", "target">> /\ Certifying[6] = <<"check", "authority">>
  /\ Certifying[7] = <<"read", "manifest">> /\ Certifying[8] = <<"read", "patch">>
  /\ Certifying[9] = <<"read", "post">> /\ Certifying[10] = <<"check", "certifiable">>
  /\ Certifying[11] = <<"read", "refs">> /\ Certifying[12] = <<"check", "closure">>
<1>1. PICK a, b, c, d, e, f : a = Read(<<"plan", "cands", "gate", "delta", "target">>) /\
                              b = Check("authority") /\
                              c = Read(<<"manifest", "patch", "post">>) /\
                              d = Check("certifiable") /\ e = Read(<<"refs">>) /\
                              f = Check("closure")
  OBVIOUS
<1>2. /\ a = << <<"read", "plan">>, <<"read", "cands">>, <<"read", "gate">>, <<"read", "delta">>, <<"read", "target">> >>
      /\ b = << <<"check", "authority">> >>
      /\ c = << <<"read", "manifest">>, <<"read", "patch">>, <<"read", "post">> >>
      /\ d = << <<"check", "certifiable">> >>
      /\ e = << <<"read", "refs">> >>
      /\ f = << <<"check", "closure">> >>
  BY <1>1 DEF Read, Check
<1>3. Len(a) = 5 /\ Len(b) = 1 /\ Len(c) = 3 /\ Len(d) = 1 /\ Len(e) = 1 /\ Len(f) = 1
  BY <1>2
<1>4. a \in Seq(Instructions) /\ b \in Seq(Instructions) /\
      c \in Seq(Instructions) /\ d \in Seq(Instructions) /\
      e \in Seq(Instructions) /\ f \in Seq(Instructions)
  BY <1>2 DEF Instructions, Words
<1>5. PICK t1, t2, t3, t4, t5 : t1 = a \o b /\ t2 = t1 \o c /\ t3 = t2 \o d /\
                                t4 = t3 \o e /\ t5 = t4 \o f
  OBVIOUS
<1>6. t1 \in Seq(Instructions) /\ Joins(t1, a, 5, b, 1)
  BY <1>3, <1>4, <1>5, JoinsThem
<1>7. Len(t1) = 6
  BY <1>6 DEF Joins
<1>8. t2 \in Seq(Instructions) /\ Joins(t2, t1, 6, c, 3)
  BY <1>3, <1>4, <1>5, <1>6, <1>7, JoinsThem
<1>9. Len(t2) = 9
  BY <1>8 DEF Joins
<1>10. t3 \in Seq(Instructions) /\ Joins(t3, t2, 9, d, 1)
  BY <1>3, <1>4, <1>5, <1>8, <1>9, JoinsThem
<1>11. Len(t3) = 10
  BY <1>10 DEF Joins
<1>12. t4 \in Seq(Instructions) /\ Joins(t4, t3, 10, e, 1)
  BY <1>3, <1>4, <1>5, <1>10, <1>11, JoinsThem
<1>13. Len(t4) = 11
  BY <1>12 DEF Joins
<1>14. t5 \in Seq(Instructions) /\ Joins(t5, t4, 11, f, 1)
  BY <1>3, <1>4, <1>5, <1>12, <1>13, JoinsThem
<1>15. Len(t5) = 12
  BY <1>14 DEF Joins
<1>16. t5 = Certifying
  BY <1>1, <1>5 DEF Certifying
<1>17. (\A i \in 1 .. 11 : t5[i] = t4[i]) /\ t5[12] = f[1]
  BY <1>14 DEF Joins
<1>18. (\A i \in 1 .. 10 : t5[i] = t3[i]) /\ t5[11] = e[1]
  BY <1>12, <1>17 DEF Joins
<1>19. (\A i \in 1 .. 9 : t5[i] = t2[i]) /\ t5[10] = d[1]
  BY <1>10, <1>18 DEF Joins
<1>20. (\A i \in 1 .. 6 : t5[i] = t1[i]) /\ (\A i \in 1 .. 3 : t5[6 + i] = c[i])
  BY <1>8, <1>19 DEF Joins
<1>21. (\A i \in 1 .. 5 : t5[i] = a[i]) /\ t5[6] = b[1]
  BY <1>6, <1>20 DEF Joins
<1>22. /\ t5[1] = <<"read", "plan">> /\ t5[2] = <<"read", "cands">> /\ t5[3] = <<"read", "gate">>
       /\ t5[4] = <<"read", "delta">> /\ t5[5] = <<"read", "target">> /\ t5[6] = <<"check", "authority">>
       /\ t5[7] = <<"read", "manifest">> /\ t5[8] = <<"read", "patch">> /\ t5[9] = <<"read", "post">>
       /\ t5[10] = <<"check", "certifiable">> /\ t5[11] = <<"read", "refs">> /\ t5[12] = <<"check", "closure">>
  BY <1>2, <1>17, <1>18, <1>19, <1>20, <1>21
<1> QED BY <1>14, <1>15, <1>16, <1>22

(* A script that makes its trials at T: it reads files, checks what it      *)
(* knows, and tries with the closure it has read.                           *)
Shaped(s, T) ==
  /\ Orderly(s)
  /\ \A i \in 1 .. Len(s) :
       /\ s[i][1] = "check" => s[i][2] \in DOMAIN Needs
       /\ s[i][1] = "read"  => s[i][2] # "trials"
       /\ s[i][1] = "try" <=> i \in T
       /\ i \in T => s[i][2] = "trials" /\ \E j \in 1 .. i - 1 : s[j] = <<"read", "refs">>
       /\ s[i][1] = "read" /\ s[i][2] = "refs" => \A j \in T : i < j

(* It reads all of N and makes all the checks of C.                         *)
Does(s, N, C) ==
  /\ \A x \in N : \E i \in 1 .. Len(s) : s[i] = <<"read", x>>
  /\ \A c \in C : \E i \in 1 .. Len(s) : s[i] = <<"check", c>>

(* fix_gate.py is such a script,                                            *)
LEMMA GateShaped ==
  Shaped(GateScript, {}) /\ Does(GateScript, About.gate, {"authority", "gated"})
<1>1. PICK s : s = GateScript
  OBVIOUS
<1>2. /\ Len(s) = 8
      /\ s[1] = <<"read", "manifest">> /\ s[2] = <<"read", "patch">>
      /\ s[3] = <<"read", "plan">> /\ s[4] = <<"read", "cands">>
      /\ s[5] = <<"read", "post">> /\ s[6] = <<"check", "authority">>
      /\ s[7] = <<"read", "source">> /\ s[8] = <<"check", "gated">>
  BY <1>1, GateTable
<1>3. /\ \A i \in 1 .. 8 : s[i][1] = "check" => i \in {6, 8}
      /\ \A i \in 1 .. 8 : s[i][1] = "read" => s[i][2] # "trials"
      /\ \A i \in 1 .. 8 : s[i][1] # "try"
  BY <1>2
<1>4. Needs["authority"] = {"plan", "cands"}
      /\ Needs["gated"] = {"plan", "cands", "source", "manifest", "patch", "post"}
      /\ {"authority", "gated"} \subseteq DOMAIN Needs
  BY DEF Needs
<1>5. Does(s, About.gate, {"authority", "gated"})
  BY <1>2 DEF Does, About, BundleFiles
<1>6. ASSUME NEW i \in 1 .. 8, s[i][1] = "check"
      PROVE  /\ \A x \in Needs[s[i][2]] : x = "trials" \/ \E j \in 1 .. i - 1 : s[j] = <<"read", x>>
             /\ \A j \in i + 1 .. 8 : s[j][1] \in {"read", "try"} => s[j][2] \notin Needs[s[i][2]]
  <2>1. CASE i = 6
    BY <1>2, <1>4, <2>1
  <2>2. CASE i = 8
    BY <1>2, <1>4, <2>2
  <2> QED BY <1>3, <1>6, <2>1, <2>2
<1>7. Orderly(s)
  BY <1>2, <1>6 DEF Orderly
<1>8. Shaped(s, {})
  BY <1>2, <1>3, <1>4, <1>7 DEF Shaped
<1> QED BY <1>1, <1>5, <1>8

(* and so is fix_delta.py.                                                  *)
LEMMA DeltaShaped ==
  Shaped(DeltaScript, {}) /\ Does(DeltaScript, About.delta, {"gate", "classified"})
<1>1. PICK s : s = DeltaScript
  OBVIOUS
<1>2. /\ Len(s) = 17
      /\ s[1] = <<"read", "plan">> /\ s[2] = <<"read", "cands">>
      /\ s[3] = <<"read", "gate">> /\ s[4] = <<"check", "authority">>
      /\ s[5] = <<"read", "manifest">> /\ s[6] = <<"read", "patch">>
      /\ s[7] = <<"read", "post">> /\ s[8] = <<"read", "source">>
      /\ s[9] = <<"check", "gate">> /\ s[10] = <<"read", "runtime">>
      /\ s[11] = <<"read", "refs">> /\ s[12] = <<"read", "protected">>
      /\ s[13] = <<"again", "runtime">> /\ s[14] = <<"again", "runtime">>
      /\ s[15] = <<"again", "runtime">> /\ s[16] = <<"again", "protected">>
      /\ s[17] = <<"check", "classified">>
  BY <1>1, DeltaTable
<1>3. /\ \A i \in 1 .. 17 : s[i][1] = "check" => i \in {4, 9, 17}
      /\ \A i \in 1 .. 17 : s[i][1] = "read" => s[i][2] # "trials"
      /\ \A i \in 1 .. 17 : s[i][1] # "try"
  BY <1>2
<1>4. /\ Needs["authority"] = {"plan", "cands"}
      /\ Needs["gate"] = {"plan", "cands", "source", "manifest", "patch", "post", "gate"}
      /\ Needs["classified"] = {"plan", "cands", "source", "post", "refs"}
      /\ {"authority", "gate", "classified"} \subseteq DOMAIN Needs
  BY DEF Needs
<1>5. Does(s, About.delta, {"gate", "classified"})
  BY <1>2 DEF Does, About, BundleFiles
<1>6. ASSUME NEW i \in 1 .. 17, s[i][1] = "check"
      PROVE  /\ \A x \in Needs[s[i][2]] : x = "trials" \/ \E j \in 1 .. i - 1 : s[j] = <<"read", x>>
             /\ \A j \in i + 1 .. 17 : s[j][1] \in {"read", "try"} => s[j][2] \notin Needs[s[i][2]]
  <2>1. CASE i = 4
    BY <1>2, <1>4, <2>1
  <2>2. CASE i = 9
    BY <1>2, <1>4, <2>2
  <2>3. CASE i = 17
    BY <1>2, <1>4, <2>3
  <2> QED BY <1>3, <1>6, <2>1, <2>2, <2>3
<1>7. Orderly(s)
  BY <1>2, <1>6 DEF Orderly
<1>8. Shaped(s, {})
  BY <1>2, <1>3, <1>4, <1>7 DEF Shaped
<1> QED BY <1>1, <1>5, <1>8

(* So is what fix_target.py does when nothing is to be tried,               *)
LEMMA OpeningShaped ==
  /\ Shaped(Opening, {})
  /\ Does(Opening, About.target \ {"trials"}, {"delta", "bundle", "references"})
<1>1. PICK s : s = Opening
  OBVIOUS
<1>2. /\ Len(s) = 11
      /\ s[1] = <<"read", "plan">> /\ s[2] = <<"read", "cands">>
      /\ s[3] = <<"read", "delta">> /\ s[4] = <<"check", "delta">>
      /\ s[5] = <<"read", "manifest">> /\ s[6] = <<"read", "patch">>
      /\ s[7] = <<"read", "post">> /\ s[8] = <<"read", "source">>
      /\ s[9] = <<"check", "bundle">> /\ s[10] = <<"read", "refs">>
      /\ s[11] = <<"check", "references">>
  BY <1>1, OpeningTable
<1>3. /\ \A i \in 1 .. 11 : s[i][1] = "check" => i \in {4, 9, 11}
      /\ \A i \in 1 .. 11 : s[i][1] = "read" => s[i][2] # "trials"
      /\ \A i \in 1 .. 11 : s[i][1] # "try"
  BY <1>2
<1>4. /\ Needs["delta"] = {"plan", "cands", "delta"}
      /\ Needs["bundle"] = {"source", "manifest", "patch", "post", "delta"}
      /\ Needs["references"] = {"refs", "delta"}
      /\ {"delta", "bundle", "references"} \subseteq DOMAIN Needs
  BY DEF Needs
<1>5. Does(s, About.target \ {"trials"}, {"delta", "bundle", "references"})
  BY <1>2 DEF Does, About, BundleFiles
<1>6. ASSUME NEW i \in 1 .. 11, s[i][1] = "check"
      PROVE  /\ \A x \in Needs[s[i][2]] : x = "trials" \/ \E j \in 1 .. i - 1 : s[j] = <<"read", x>>
             /\ \A j \in i + 1 .. 11 : s[j][1] \in {"read", "try"} => s[j][2] \notin Needs[s[i][2]]
  <2>1. CASE i = 4
    BY <1>2, <1>4, <2>1
  <2>2. CASE i = 9
    BY <1>2, <1>4, <2>2
  <2>3. CASE i = 11
    BY <1>2, <1>4, <2>3
  <2> QED BY <1>3, <1>6, <2>1, <2>2, <2>3
<1>7. Orderly(s)
  BY <1>2, <1>6 DEF Orderly
<1>8. Shaped(s, {})
  BY <1>2, <1>3, <1>4, <1>7 DEF Shaped
<1> QED BY <1>1, <1>5, <1>8

(* Where the trials of a plan that converts are made.                       *)
TryAt == {16, 18, 20}

(* and when something is,                                                   *)
LEMMA TryingShaped ==
  /\ Opening \o Trying \in Seq(Instructions) /\ Len(Opening \o Trying) = 21
  /\ Shaped(Opening \o Trying, TryAt)
  /\ Does(Opening \o Trying, About.target \ {"trials"},
          {"delta", "bundle", "references", "collected"})
  /\ \A i \in 2 .. 21 : (Opening \o Trying)[i] # <<"read", "plan">>
<1>1. PICK s : s = Opening \o Trying
  OBVIOUS
<1>2. s \in Seq(Instructions) /\ Joins(s, Opening, 11, Trying, 10)
  BY <1>1, OpeningTable, TryingTable, JoinsThem
<1>3. /\ Len(s) = 21 /\ \A i \in 1 .. 11 : s[i] = Opening[i]
      /\ \A i \in 1 .. 10 : s[11 + i] = Trying[i]
  BY <1>2 DEF Joins
<1>4. /\ s[1] = <<"read", "plan">> /\ s[2] = <<"read", "cands">>
      /\ s[3] = <<"read", "delta">> /\ s[4] = <<"check", "delta">>
      /\ s[5] = <<"read", "manifest">> /\ s[6] = <<"read", "patch">>
      /\ s[7] = <<"read", "post">> /\ s[8] = <<"read", "source">>
      /\ s[9] = <<"check", "bundle">> /\ s[10] = <<"read", "refs">>
      /\ s[11] = <<"check", "references">>
  BY <1>3, OpeningTable, SMTT(30)
<1>5. /\ s[12] = <<"read", "runtime">> /\ s[13] = <<"check", "runtime">>
      /\ s[14] = <<"again", "runtime">> /\ s[15] = <<"again", "runtime">>
      /\ s[16] = <<"try", "trials">> /\ s[17] = <<"again", "runtime">>
      /\ s[18] = <<"try", "trials">> /\ s[19] = <<"again", "runtime">>
      /\ s[20] = <<"try", "trials">> /\ s[21] = <<"check", "collected">>
  BY <1>3, TryingTable
<1>6. /\ \A i \in 1 .. 21 : s[i][1] = "check" => i \in {4, 9, 11, 13, 21}
      /\ \A i \in 1 .. 21 : s[i][1] = "read" => s[i][2] # "trials"
      /\ \A i \in 1 .. 21 : s[i][1] = "try" <=> i \in TryAt
      /\ \A i \in 2 .. 21 : s[i] # <<"read", "plan">>
      /\ \A i \in 1 .. 21 : s[i][1] = "read" /\ s[i][2] = "refs" => i = 10
  BY <1>4, <1>5 DEF TryAt
<1>7. /\ Needs["delta"] = {"plan", "cands", "delta"}
      /\ Needs["bundle"] = {"source", "manifest", "patch", "post", "delta"}
      /\ Needs["references"] = {"refs", "delta"} /\ Needs["runtime"] = {"runtime", "delta"}
      /\ Needs["collected"] = {"trials"}
      /\ {"delta", "bundle", "references", "runtime", "collected"} \subseteq DOMAIN Needs
  BY DEF Needs
<1>8. Does(s, About.target \ {"trials"}, {"delta", "bundle", "references", "collected"})
  BY <1>3, <1>4, <1>5 DEF Does, About, BundleFiles
<1>9. ASSUME NEW i \in 1 .. 21, s[i][1] = "check"
      PROVE  /\ \A x \in Needs[s[i][2]] : x = "trials" \/ \E j \in 1 .. i - 1 : s[j] = <<"read", x>>
             /\ \A j \in i + 1 .. 21 : s[j][1] \in {"read", "try"} => s[j][2] \notin Needs[s[i][2]]
  <2>1. CASE i = 4
    <3>1. \A j \in 5 .. 21 :
            s[j][1] \in {"read", "try"} => s[j][2] \notin {"plan", "cands", "delta"}
      BY <1>4, <1>5
    <3>2. s[i][2] = "delta" /\ i + 1 = 5 /\ 1 .. i - 1 = 1 .. 3
      BY <1>4, <2>1
    <3> QED BY <1>4, <1>7, <3>1, <3>2
  <2>2. CASE i = 9
    <3>1. \A j \in 10 .. 21 : s[j][1] \in {"read", "try"} =>
            s[j][2] \notin {"source", "manifest", "patch", "post", "delta"}
      BY <1>4, <1>5
    <3>2. s[i][2] = "bundle" /\ i + 1 = 10 /\ 1 .. i - 1 = 1 .. 8
      BY <1>4, <2>2
    <3>3. \A x \in Needs["bundle"] : \E j \in 1 .. 8 : s[j] = <<"read", x>>
      BY <1>4, <1>7
    <3> QED BY <1>7, <3>1, <3>2, <3>3
  <2>3. CASE i = 11
    BY <1>4, <1>5, <1>7, <2>3
  <2>4. CASE i = 13
    BY <1>4, <1>5, <1>7, <2>4
  <2>5. CASE i = 21
    BY <1>5, <1>7, <2>5
  <2> QED BY <1>6, <1>9, <2>1, <2>2, <2>3, <2>4, <2>5
<1>10. Orderly(s)
  BY <1>3, <1>9 DEF Orderly
<1>11. Shaped(s, TryAt)
  <2>1. \A i \in TryAt : s[i][2] = "trials" /\ 10 \in 1 .. i - 1
    BY <1>5 DEF TryAt
  <2>2. \A i \in 1 .. 21 : s[i][1] = "check" => s[i][2] \in DOMAIN Needs
    BY <1>4, <1>5, <1>6, <1>7
  <2>3. \A j \in TryAt : 10 < j
    BY DEF TryAt
  <2> QED BY <1>3, <1>4, <1>6, <1>10, <2>1, <2>2, <2>3 DEF Shaped
<1> QED BY <1>1, <1>2, <1>3, <1>6, <1>8, <1>11

(* and what fix_certify.py does before it reads everything again.           *)
LEMMA CertifyingShaped ==
  Shaped(Certifying, {}) /\ Does(Certifying, About.cert, {"certifiable", "closure"})
<1>1. PICK s : s = Certifying
  OBVIOUS
<1>2. /\ Len(s) = 12
      /\ s[1] = <<"read", "plan">> /\ s[2] = <<"read", "cands">>
      /\ s[3] = <<"read", "gate">> /\ s[4] = <<"read", "delta">>
      /\ s[5] = <<"read", "target">> /\ s[6] = <<"check", "authority">>
      /\ s[7] = <<"read", "manifest">> /\ s[8] = <<"read", "patch">>
      /\ s[9] = <<"read", "post">> /\ s[10] = <<"check", "certifiable">>
      /\ s[11] = <<"read", "refs">> /\ s[12] = <<"check", "closure">>
  BY <1>1, CertifyingTable
<1>3. /\ \A i \in 1 .. 12 : s[i][1] = "check" => i \in {6, 10, 12}
      /\ \A i \in 1 .. 12 : s[i][1] = "read" => s[i][2] # "trials"
      /\ \A i \in 1 .. 12 : s[i][1] # "try"
  BY <1>2
<1>4. /\ Needs["authority"] = {"plan", "cands"}
      /\ Needs["certifiable"] = {"plan", "cands", "manifest", "patch", "post",
                                 "gate", "delta", "target"}
      /\ Needs["closure"] = {"refs", "delta", "target"}
      /\ {"authority", "certifiable", "closure"} \subseteq DOMAIN Needs
  BY DEF Needs
<1>5. Does(s, About.cert, {"certifiable", "closure"})
  BY <1>2 DEF Does, About, BundleFiles
<1>6. ASSUME NEW i \in 1 .. 12, s[i][1] = "check"
      PROVE  /\ \A x \in Needs[s[i][2]] : x = "trials" \/ \E j \in 1 .. i - 1 : s[j] = <<"read", x>>
             /\ \A j \in i + 1 .. 12 : s[j][1] \in {"read", "try"} => s[j][2] \notin Needs[s[i][2]]
  <2>1. CASE i = 6
    BY <1>2, <1>4, <2>1
  <2>2. CASE i = 10
    BY <1>2, <1>4, <2>2
  <2>3. CASE i = 12
    BY <1>2, <1>4, <2>3
  <2> QED BY <1>3, <1>6, <2>1, <2>2, <2>3
<1>7. Orderly(s)
  BY <1>2, <1>6 DEF Orderly
<1>8. Shaped(s, {})
  BY <1>2, <1>3, <1>4, <1>7 DEF Shaped
<1> QED BY <1>1, <1>5, <1>8

(* To read files again at the end changes nothing of that.                  *)
LEMMA ShapedMore ==
  ASSUME NEW s \in Seq(Instructions), NEW r \in Seq(Rereads),
         NEW T \in SUBSET (1 .. Len(s)), Shaped(s, T), NEW N, NEW C, Does(s, N, C)
  PROVE  Shaped(s \o r, T) /\ Does(s \o r, N, C)
<1>1. PICK t, m, n : t = s \o r /\ m = Len(s) /\ n = Len(r)
  OBVIOUS
<1>2. m \in Nat /\ n \in Nat
  BY <1>1
<1>3. Joins(t, s, m, r, n)
  <2>1. Rereads \subseteq Instructions
    BY DEF Rereads, Instructions
  <2>2. r \in Seq(Instructions)
    BY <2>1
  <2> QED BY <1>1, <2>2, JoinsThem
<1>4. Len(t) = m + n /\ \A i \in 1 .. m : t[i] = s[i]
  BY <1>3 DEF Joins
<1>5. ASSUME NEW i \in 1 .. m + n, i \notin 1 .. m PROVE t[i][1] = "again"
  <2>1. i - m \in 1 .. n /\ i = m + (i - m)
    BY <1>2, <1>5
  <2>2. t[i] = r[i - m] /\ r[i - m] \in Rereads
    BY <1>1, <1>2, <1>3, <2>1 DEF Joins
  <2> QED BY <2>2 DEF Rereads
<1>6. \A i \in 1 .. m : i \in 1 .. m + n
  BY <1>2
<1>7. Does(t, N, C)
  <2>1. /\ \A x \in N : \E i \in 1 .. m : s[i] = <<"read", x>>
        /\ \A c \in C : \E i \in 1 .. m : s[i] = <<"check", c>>
    BY <1>1 DEF Does
  <2> QED BY <1>4, <1>6, <2>1 DEF Does
<1>8. ASSUME NEW i \in 1 .. m + n, t[i][1] = "check"
      PROVE  /\ \A x \in Needs[t[i][2]] : x = "trials" \/ \E j \in 1 .. i - 1 : t[j] = <<"read", x>>
             /\ \A j \in i + 1 .. m + n : t[j][1] \in {"read", "try"} => t[j][2] \notin Needs[t[i][2]]
  <2>1. i \in 1 .. m /\ t[i] = s[i]
    BY <1>4, <1>5, <1>8
  <2>2. /\ \A x \in Needs[s[i][2]] : x = "trials" \/ \E j \in 1 .. i - 1 : s[j] = <<"read", x>>
        /\ \A j \in i + 1 .. m : s[j][1] \in {"read", "try"} => s[j][2] \notin Needs[s[i][2]]
    BY <1>1, <1>8, <2>1 DEF Shaped, Orderly
  <2>3. \A j \in 1 .. i - 1 : j \in 1 .. m
    BY <1>2, <2>1
  <2>4. ASSUME NEW j \in i + 1 .. m + n, t[j][1] \in {"read", "try"}
        PROVE  t[j][2] \notin Needs[t[i][2]]
    <3>1. j \in 1 .. m + n /\ t[j][1] # "again"
      BY <1>2, <2>1, <2>4
    <3>2. j \in i + 1 .. m /\ t[j] = s[j]
      BY <1>2, <1>4, <1>5, <2>1, <3>1
    <3> QED BY <2>1, <2>2, <2>4, <3>2
  <2> QED BY <1>4, <2>1, <2>2, <2>3, <2>4
<1>9. Orderly(t)
  BY <1>4, <1>8 DEF Orderly
<1>10. ASSUME NEW i \in 1 .. m + n
       PROVE  /\ t[i][1] = "check" => t[i][2] \in DOMAIN Needs
              /\ t[i][1] = "read"  => t[i][2] # "trials"
              /\ t[i][1] = "try" <=> i \in T
              /\ i \in T => t[i][2] = "trials" /\ \E j \in 1 .. i - 1 : t[j] = <<"read", "refs">>
              /\ t[i][1] = "read" /\ t[i][2] = "refs" => \A j \in T : i < j
  <2>1. CASE i \in 1 .. m
    <3>1. /\ s[i][1] = "check" => s[i][2] \in DOMAIN Needs
          /\ s[i][1] = "read"  => s[i][2] # "trials"
          /\ s[i][1] = "try" <=> i \in T
          /\ i \in T => s[i][2] = "trials" /\ \E j \in 1 .. i - 1 : s[j] = <<"read", "refs">>
          /\ s[i][1] = "read" /\ s[i][2] = "refs" => \A j \in T : i < j
      BY <1>1, <2>1 DEF Shaped
    <3>2. t[i] = s[i] /\ \A j \in 1 .. i - 1 : t[j] = s[j]
      BY <1>2, <1>4, <2>1
    <3> QED BY <3>1, <3>2
  <2>2. CASE i \notin 1 .. m
    BY <1>1, <1>5, <2>2
  <2> QED BY <2>1, <2>2
<1>11. Shaped(t, T)
  BY <1>4, <1>9, <1>10 DEF Shaped
<1> QED BY <1>1, <1>7, <1>11

(* The script of fix_target.py.                                             *)
LEMMA TargetShaped ==
  ASSUME NEW c \in BOOLEAN
  PROVE  LET s == TargetScript(c) IN
         /\ Shaped(s, IF c THEN TryAt ELSE {})
         /\ Does(s, About.target \ {"trials"}, {"delta", "bundle", "references"})
         /\ c => Does(s, {}, {"collected"}) /\ Len(s) > 20
         /\ \A i \in 1 .. Len(s) : s[i] = <<"read", "plan">> <=> i = 1
<1> DEFINE C == {"delta", "bundle", "references"} \cup IF c THEN {"collected"} ELSE {}
<1>1. PICK u, v, w, s, T : /\ u = Opening \o (IF c THEN Trying ELSE << >>)
                           /\ v = Again(TargetInputs) /\ w = LastLook(c)
                           /\ s = (u \o v) \o w /\ T = IF c THEN TryAt ELSE {}
  OBVIOUS
<1>2. s = TargetScript(c)
  BY <1>1, TargetIs
<1>3. v \in Seq(Rereads) /\ w \in Seq(Rereads)
  BY <1>1, PiecesAre
<1>4. /\ u \in Seq(Instructions) /\ Shaped(u, T) /\ T \in SUBSET (1 .. Len(u))
      /\ Does(u, About.target \ {"trials"}, C)
      /\ Len(u) >= 11
      /\ c => Len(u) = 21
      /\ u[1] = <<"read", "plan">> /\ \A i \in 2 .. Len(u) : u[i] # <<"read", "plan">>
  <2>1. CASE c
    <3>1. u = Opening \o Trying /\ T = TryAt
      BY <1>1, <2>1
    <3>2. u[1] = Opening[1]
      <4>1. Joins(u, Opening, 11, Trying, 10)
        BY <3>1, OpeningTable, TryingTable, JoinsThem
      <4> QED BY <4>1 DEF Joins
    <3>3. C = {"delta", "bundle", "references", "collected"}
      BY <2>1
    <3>4. /\ u \in Seq(Instructions) /\ Len(u) = 21 /\ Shaped(u, TryAt)
          /\ Does(u, About.target \ {"trials"}, {"delta", "bundle", "references", "collected"})
          /\ \A i \in 2 .. 21 : u[i] # <<"read", "plan">>
      BY <3>1, TryingShaped
    <3>5. TryAt \in SUBSET (1 .. 21)
      BY DEF TryAt
    <3>6. u[1] = <<"read", "plan">>
      BY <3>2, OpeningTable
    <3> HIDE DEF C
    <3>7. Does(u, About.target \ {"trials"}, C)
      BY <3>3, <3>4
    <3>8. Len(u) = 21 /\ \A i \in 2 .. 21 : u[i] # <<"read", "plan">>
      BY <3>4, Zenon
    <3>9. Len(u) >= 11
      BY <3>8
    <3> QED BY <3>1, <3>4, <3>5, <3>6, <3>7, <3>8, <3>9
  <2>2. CASE ~ c
    <3>1. u = Opening /\ T = {}
      <4>1. u = Opening \o << >>
        BY <1>1, <2>2
      <4> QED BY <1>1, <2>2, <4>1, OpeningTable
    <3>2. C = {"delta", "bundle", "references"}
      BY <2>2
    <3>3. \A i \in 2 .. 11 : Opening[i] # <<"read", "plan">>
      BY OpeningTable
    <3> HIDE DEF C
    <3> QED BY <2>2, <3>1, <3>2, <3>3, OpeningTable, OpeningShaped
  <2> QED BY <2>1, <2>2
<1> HIDE DEF C
<1>5. PICK t : t = u \o v
  OBVIOUS
<1>6. Rereads \subseteq Instructions /\ \A x \in Rereads : x # <<"read", "plan">>
  BY DEF Rereads, Instructions
<1>7. PICK m, n, l : m = Len(u) /\ n = Len(v) /\ l = Len(w)
  OBVIOUS
<1>8. m \in Nat /\ n \in Nat /\ l \in Nat /\ m >= 11 /\ (c => m = 21)
  <2>1. u \in Seq(Instructions) /\ Len(u) >= 11
    BY <1>4
  <2>2. c => Len(u) = 21
    BY <1>4, Zenon
  <2>3. c => m = 21
    BY <1>7, <2>2, Zenon
  <2> QED BY <1>3, <1>7, <2>1, <2>3
<1>9. v \in Seq(Instructions) /\ w \in Seq(Instructions)
  BY <1>3, <1>6
<1>10. t \in Seq(Instructions) /\ Joins(t, u, m, v, n)
  BY <1>4, <1>5, <1>7, <1>9, JoinsThem
<1>11. Len(t) = m + n
  BY <1>10 DEF Joins
<1>12. Joins(s, t, m + n, w, l)
  <2>1. s = t \o w
    BY <1>1, <1>5
  <2> QED BY <1>7, <1>9, <1>10, <1>11, <2>1, JoinsThem
<1>13. Shaped(s, T) /\ Does(s, About.target \ {"trials"}, C)
  <2>1. Shaped(t, T) /\ Does(t, About.target \ {"trials"}, C)
    BY <1>3, <1>4, <1>5, ShapedMore
  <2>2. T \in SUBSET (1 .. Len(t))
    BY <1>4, <1>7, <1>8, <1>11
  <2>3. s = t \o w
    BY <1>1, <1>5
  <2> QED BY <1>3, <1>10, <2>1, <2>2, <2>3, ShapedMore
<1>14. Len(s) = m + n + l
  BY <1>8, <1>12 DEF Joins
<1>15. ASSUME NEW i \in 1 .. m + n + l PROVE s[i] = <<"read", "plan">> <=> i = 1
  <2>1. \A j \in 1 .. m + n : s[j] = t[j]
    BY <1>12 DEF Joins
  <2>2. \A j \in 1 .. l : s[m + n + j] = w[j]
    BY <1>12 DEF Joins
  <2>3. (\A j \in 1 .. m : t[j] = u[j]) /\ \A j \in 1 .. n : t[m + j] = v[j]
    BY <1>10 DEF Joins
  <2>4. CASE i \in 1 .. m
    BY <1>4, <1>7, <1>8, <2>1, <2>3, <2>4
  <2>5. CASE i > m /\ i <= m + n
    <3>1. PICK j \in 1 .. n : i = m + j
      <4>1. i - m \in 1 .. n /\ i = m + (i - m)
        BY <1>8, <2>5
      <4> QED BY <4>1
    <3>2. s[i] = v[j] /\ v[j] \in Rereads /\ i # 1
      <4>1. s[i] = t[i] /\ t[i] = v[j]
        BY <1>8, <2>1, <2>3, <2>5, <3>1
      <4>2. v[j] \in Rereads
        BY <1>3, <1>7
      <4> QED BY <1>8, <2>5, <4>1, <4>2
    <3> QED BY <1>6, <3>2
  <2>6. CASE i > m + n
    <3>1. PICK j \in 1 .. l : i = m + n + j
      <4>1. i - (m + n) \in 1 .. l /\ i = m + n + (i - (m + n))
        BY <1>8, <2>6
      <4> QED BY <4>1
    <3>2. s[i] = w[j] /\ w[j] \in Rereads /\ i # 1
      <4>1. s[i] = w[j]
        BY <2>2, <3>1
      <4>2. w[j] \in Rereads
        BY <1>3, <1>7
      <4> QED BY <1>8, <2>6, <4>1, <4>2
    <3> QED BY <1>6, <3>2
  <2> QED BY <1>8, <2>4, <2>5, <2>6
<1>16. /\ Does(s, About.target \ {"trials"}, {"delta", "bundle", "references"})
       /\ c => Does(s, {}, {"collected"})
  BY <1>13 DEF Does, C
<1>17. c => Len(s) > 20
  <2>1. m = 21 => m + n + l > 20
    BY <1>8
  <2> QED BY <1>8, <1>14, <2>1
<1> QED BY <1>1, <1>2, <1>13, <1>14, <1>15, <1>16, <1>17

(* The script of fix_certify.py.                                            *)
LEMMA CertifyShaped ==
  /\ CertifyScript \in Seq(Instructions)
  /\ Shaped(CertifyScript, {})
  /\ Does(CertifyScript, About.cert, {"certifiable", "closure"})
<1>1. PICK s, a, t : s = Certifying /\ a = Again(Originals) /\ t = s \o a
  OBVIOUS
<1>2. s \in Seq(Instructions) /\ a \in Seq(Rereads)
  BY <1>1, CertifyingTable, PiecesAre
<1>3. Shaped(t, {}) /\ Does(t, About.cert, {"certifiable", "closure"})
  <2>1. Shaped(s, {}) /\ Does(s, About.cert, {"certifiable", "closure"})
    BY <1>1, CertifyingShaped
  <2>2. {} \in SUBSET (1 .. Len(s))
    OBVIOUS
  <2> QED BY <1>1, <1>2, <2>1, <2>2, ShapedMore
<1>4. t \in Seq(Instructions) /\ t \o a \in Seq(Instructions)
  <2>1. Rereads \subseteq Instructions
    BY DEF Rereads, Instructions
  <2>2. a \in Seq(Instructions)
    BY <1>2, <2>1
  <2> QED BY <1>1, <1>2, <2>2
<1>5. Shaped(t \o a, {}) /\ Does(t \o a, About.cert, {"certifiable", "closure"})
  <2>1. {} \in SUBSET (1 .. Len(t))
    OBVIOUS
  <2> QED BY <1>2, <1>3, <1>4, <2>1, ShapedMore
<1>6. CertifyScript = t \o a
  BY <1>1 DEF CertifyScript, Certifying
<1> QED BY <1>4, <1>5, <1>6

(* The trials of the script at hand. *)
TriesAt == IF at.step = "target" /\ Converting THEN TryAt ELSE {}

(* So are they all.                                                         *)
LEMMA ScriptShaped ==
  ASSUME at.step \in Steps
  PROVE  Script \in Seq(Instructions) /\ Shaped(Script, TriesAt)
<1>1. at.step \in {"gate", "delta", "target", "cert"}
  BY DEF Steps, About
<1>2. CASE at.step = "gate"
  BY <1>2, GateTable, GateShaped DEF Script, TriesAt
<1>3. CASE at.step = "delta"
  BY <1>3, DeltaTable, DeltaShaped DEF Script, TriesAt
<1>4. CASE at.step = "target"
  <2>1. PICK c : c = Converting
    OBVIOUS
  <2>2. c \in BOOLEAN
    BY <2>1 DEF Converting, Converts
  <2>3. Script = TargetScript(c)
    BY <1>4, <2>1 DEF Script, Converting
  <2>4. TriesAt = IF c THEN TryAt ELSE {}
    BY <1>4, <2>1 DEF TriesAt
  <2> QED BY <2>2, <2>3, <2>4, TargetTyped, TargetShaped
<1>5. CASE at.step = "cert"
  BY <1>5, CertifyShaped DEF Script, TriesAt
<1> QED BY <1>1, <1>2, <1>3, <1>4, <1>5

-----------------------------------------------------------------------------
(* What may be in the files, and what a step holds of them. *)

(* Evidence of one attempt, which that attempt deserves.                    *)
Deserved(x, v) == \E a \in Attempts : v = Undisturbed(a)[x] /\ Deserves(a, x)

ManifestOf(p) ==
  LET s == InputOf[p]
      t == Post(p, s)
  IN  Manifest(p, s, t, Patch(s, t))

(* What may be in a file.  The patch and the postimage may be anybody's: a  *)
(* manifest that is right tells.                                            *)
Right(x, v) ==
  /\ x = "plan" => v \in Plans
  /\ x = "refs" => v \in Closures
  /\ x = "runtime" => v \in Runtimes
  /\ x = "manifest" => \E p \in Plans : v = ManifestOf(p)
  /\ x \in Steps => Deserved(x, v)

FilesInv ==
  /\ at.step = "apply" => dossier = None
  /\ at.step # "apply" => /\ \E w \in Worlds : world = {w}
                          /\ tools \in [refs : Closures, runtime : Runtimes]
  /\ \A x \in DOMAIN dossier : Right(x, dossier[x])

(* How many trials of a plan that converts lie before an instruction.       *)
Tried(k) == IF k > 20 THEN 3 ELSE IF k > 18 THEN 2 ELSE IF k > 16 THEN 1 ELSE 0

Trials == IF at.step = "target" /\ Converting THEN Tried(at.k) ELSE 0

(* What a step has read is right, what it has checked holds, and its trials *)
(* were made with the closure it has read.                                  *)
ReadRight ==
  \A i \in 1 .. at.k - 1 : Script[i][1] = "read" =>
    Script[i][2] \in DOMAIN got /\ Right(Script[i][2], got[Script[i][2]])

CheckedHolds ==
  \A i \in 1 .. at.k - 1 : Script[i][1] = "check" =>
    Script[i][2] \in DOMAIN Needs /\ Holds(Script[i][2])

Told(trials, g, n) ==
  /\ trials \in Seq({"pass", "retains"}) /\ Len(trials) = n
  /\ \A i \in 1 .. Len(trials) :
       /\ "refs" \in DOMAIN g
       /\ W.wrapper[g["refs"]] = "strong" => trials[i] = "retains"

TrialsTrue == "trials" \in DOMAIN got /\ Told(got["trials"], got, Trials)

HeldInv == at.step \in Steps => ReadRight /\ CheckedHolds /\ TrialsTrue

(* While the world stands, what is right stays right,                       *)
LEMMA RightStays ==
  ASSUME world' = world, NEW x, NEW v PROVE Right(x, v)' <=> Right(x, v)
<1>1. W' = W
  BY DEF W
<1>2. \A p : Converts(p)' = Converts(p) /\ Edited(p)' = Edited(p)
  BY <1>1 DEF Converts, Edited
<1>3. ASSUME NEW a PROVE Undisturbed(a)' = Undisturbed(a)
  BY <1>2 DEF Undisturbed
<1>4. ASSUME NEW a, NEW step PROVE Deserves(a, step)' <=> Deserves(a, step)
  BY <1>1, <1>2 DEF Deserves
<1>5. Deserved(x, v)' <=> Deserved(x, v)
  BY <1>3, <1>4 DEF Deserved
<1> QED BY <1>5 DEF Right

(* What the classification and the certification say of what was read.      *)
ClassifiedOf(w, plan, cands, source, post, refs) ==
  LET pre    == w.image[source]
      after  == w.fixed[post.plan]
      ids(S) == {Id(pre, w.collected, s) : s \in S}
      chosen == w.selected[cands]
      converted == w.convert[plan]
  IN  /\ Reproduced(chosen, pre, w.collected, refs)
      /\ Verdict(ids(converted), ids(chosen \ converted), pre, after, refs) = "pass"

RepresentableOf(w, plan, cands, post, refs) ==
  LET pre == w.image[cands]
      ids(S) == {Id(pre, w.collected, s) : s \in S}
      chosen == w.selected[cands]
      converted == w.convert[plan]
  IN  Representable(ids(converted), ids(chosen \ converted), pre, w.fixed[post.plan], refs)

Certifies(g, w) ==
  /\ g["manifest"] = Manifest(g["plan"], g["cands"], g["post"], g["patch"])
  /\ g["post"].plan \in w.edited <=> w.convert[g["plan"]] # {}
  /\ (\A x \in About.gate \ {"source"} : g["gate"][x] = g[x]) /\ g["gate"].source = g["cands"]
  /\ \A x \in {"plan", "cands", "gate"} \cup BundleFiles : g["delta"][x] = g[x]
  /\ g["delta"].source = g["cands"]
  /\ RepresentableOf(w, g["plan"], g["cands"], g["post"], g["delta"].refs)
  /\ \A x \in {"plan", "cands", "delta"} \cup BundleFiles : g["target"][x] = g[x]
  /\ g["target"].source = g["cands"] /\ g["target"].refs = g["delta"].refs
  /\ (w.convert[g["plan"]] # {}) = (g["target"].trials # <<>>)

(* In those words.                                                          *)
LEMMA ChecksSay ==
  /\ Classified <=> ClassifiedOf(W, got.plan, got.cands, got.source, got.post, got.refs)
  /\ Certifiable <=> Certifies(got, W)
<1>1. Classified <=> ClassifiedOf(W, got.plan, got.cands, got.source, got.post, got.refs)
  BY DEF Classified, ClassifiedOf
<1>2. Certifiable <=> Certifies(got, W)
  BY DEF Certifiable, Certifies, RepresentableOf, Agrees, Edited, Converts
<1> QED BY <1>1, <1>2

(* and a check that holds keeps holding while what it looks at stays.       *)
LEMMA HoldsKept ==
  ASSUME world' = world, NEW c \in DOMAIN Needs, Holds(c),
         \A x \in Needs[c] : got'[x] = got[x]
  PROVE  Holds(c)'
<1>1. W' = W
  BY DEF W
<1>2. c \in {"authority", "gated", "gate", "classified", "delta", "bundle",
             "references", "runtime", "collected", "certifiable", "closure"}
  BY DEF Needs
<1>3. CASE c = "authority"
  BY <1>3 DEF Holds, Authority, Needs
<1>4. CASE c = "gated"
  <2>1. /\ got'.plan = got.plan /\ got'.cands = got.cands /\ got'.source = got.source
        /\ got'.manifest = got.manifest /\ got'.patch = got.patch /\ got'.post = got.post
    BY <1>4 DEF Needs
  <2> QED BY <1>1, <1>4, <2>1 DEF Holds, Gated, Edited, Converts
<1>5. CASE c = "gate"
  <2>1. got'.gate = got.gate /\ \A x \in About.gate : got'[x] = got[x]
    BY <1>5 DEF Needs, About, BundleFiles
  <2> QED BY <1>5, <2>1 DEF Holds, GateBound, Agrees
<1>6. CASE c = "classified"
  <2>1. /\ got'.plan = got.plan /\ got'.cands = got.cands /\ got'.source = got.source
        /\ got'.post = got.post /\ got'.refs = got.refs
    BY <1>6 DEF Needs
  <2>2. ClassifiedOf(W, got.plan, got.cands, got.source, got.post, got.refs)
    BY <1>6, ChecksSay DEF Holds
  <2>3. ClassifiedOf(W', got'.plan, got'.cands, got'.source, got'.post, got'.refs)
    BY <1>1, <2>1, <2>2
  <2>4. Classified'
    BY <2>3 DEF Classified, ClassifiedOf
  <2> QED BY <1>6, <2>4 DEF Holds
<1>7. CASE c = "delta"
  <2>1. got'.plan = got.plan /\ got'.cands = got.cands /\ got'.delta = got.delta
    BY <1>7 DEF Needs
  <2> QED BY <1>7, <2>1 DEF Holds, DeltaBound, Authority, Agrees
<1>8. CASE c = "bundle"
  <2>1. got'.delta = got.delta /\ \A x \in BundleFiles \cup {"source"} : got'[x] = got[x]
    BY <1>8 DEF Needs, BundleFiles
  <2> QED BY <1>8, <2>1 DEF Holds, BundleBound, Agrees
<1>9. CASE c = "references"
  BY <1>9 DEF Holds, ReferenceBound, Agrees, Needs
<1>10. CASE c = "runtime"
  BY <1>10 DEF Holds, SameRuntime, Agrees, Needs
<1>11. CASE c = "collected"
  BY <1>11 DEF Holds, Collected, Needs
<1>12. CASE c = "certifiable"
  <2>1. PICK g, h : g = got /\ h = got'
    OBVIOUS
  <2>2. \A x \in {"plan", "cands", "manifest", "patch", "post", "gate", "delta", "target"} :
          h[x] = g[x]
    BY <1>12, <2>1 DEF Needs
  <2>3. Certifies(g, W)
    BY <1>12, <2>1, ChecksSay DEF Holds
  <2>4. Certifies(h, W)
    BY <2>2, <2>3 DEF Certifies, About, BundleFiles
  <2>5. Certifies(got', W')
    BY <1>1, <2>1, <2>4
  <2>6. Certifiable'
    BY <2>5 DEF Certifiable, Certifies, RepresentableOf, Agrees, Edited, Converts
  <2> QED BY <1>12, <2>6 DEF Holds
<1>13. CASE c = "closure"
  BY <1>13 DEF Holds, ClosureBound, Needs
<1> QED BY <1>2, <1>3, <1>4, <1>5, <1>6, <1>7, <1>8, <1>9, <1>10, <1>11, <1>12, <1>13

(* An instruction done: what was right stays right, and so does the new.    *)
LEMMA HeldGoes ==
  ASSUME HeldInv, at.step \in Steps, NEW k \in Nat, k = at.k, k \in DOMAIN Script,
         NEW doing, NEW x, Script[k] = <<doing, x>>,
         at' = [at EXCEPT !.k = @ + 1], at'.k = k + 1, at'.step = at.step,
         world' = world,
         \A i \in 1 .. k : Script'[i] = Script[i],
         \A y \in DOMAIN got : y \in DOMAIN got',
         \A y \in DOMAIN got :
           got'[y] # got[y] => doing \in {"read", "try"} /\ y = x,
         doing = "read" => x \in DOMAIN got' /\ Right(x, got'[x]),
         doing = "check" => Holds(x),
         TrialsTrue'
  PROVE  HeldInv'
<1>1. PICK s, T, n : s = Script /\ T = TriesAt /\ n = Len(s)
  OBVIOUS
<1>2. s \in Seq(Instructions) /\ Shaped(s, T) /\ n \in Nat /\ k \in 1 .. n
  BY <1>1, ScriptShaped
<1>3. /\ ReadRight /\ CheckedHolds /\ "trials" \in DOMAIN got
  BY DEF HeldInv, TrialsTrue
<1>4. s[k][1] = doing /\ s[k][2] = x /\ \A i \in 1 .. k : Script'[i] = s[i]
  BY <1>1
<1>5. (at.k - 1)' = k
  BY <1>2
<1>6. ASSUME NEW i \in 1 .. k, s[i][1] = "read"
      PROVE  s[i][2] \in DOMAIN got' /\ Right(s[i][2], got'[s[i][2]])
  <2>1. CASE i = k
    BY <1>4, <1>6, <2>1
  <2>2. CASE i # k
    <3>1. i \in 1 .. k - 1
      BY <2>2
    <3>2. PICK y : y = s[i][2]
      OBVIOUS
    <3>3. y \in DOMAIN got /\ Right(y, got[y])
      BY <1>1, <1>3, <1>6, <3>1, <3>2 DEF ReadRight
    <3>4. y # "trials"
      BY <1>1, <1>2, <1>6, <3>1, <3>2 DEF Shaped
    <3>5. doing = "try" => x = "trials"
      BY <1>1, <1>2, <1>4 DEF Shaped
    <3>6. got'[y] = got[y] \/ (doing = "read" /\ y = x)
      BY <3>3, <3>4, <3>5
    <3> QED BY <3>2, <3>3, <3>6
  <2> QED BY <2>1, <2>2
<1>7. ASSUME NEW i \in 1 .. k, s[i][1] = "check"
      PROVE  s[i][2] \in DOMAIN Needs /\ Holds(s[i][2])'
  <2>1. PICK c : c = s[i][2]
    OBVIOUS
  <2>2. c \in DOMAIN Needs
    BY <1>1, <1>2, <1>7, <2>1 DEF Shaped
  <2>3. Holds(c)
    <3>1. CASE i = k
      BY <1>4, <1>7, <2>1, <3>1
    <3>2. CASE i # k
      <4>1. i \in 1 .. k - 1
        BY <3>2
      <4> QED BY <1>1, <1>3, <1>7, <2>1, <4>1 DEF CheckedHolds
    <3> QED BY <3>1, <3>2
  <2>4. /\ \A y \in Needs[c] : y = "trials" \/ \E j \in 1 .. i - 1 : s[j] = <<"read", y>>
        /\ \A j \in i + 1 .. n : s[j][1] \in {"read", "try"} => s[j][2] \notin Needs[c]
    <3>1. Orderly(s) /\ i \in 1 .. Len(s)
      BY <1>1, <1>2 DEF Shaped
    <3> QED BY <1>1, <1>7, <2>1, <3>1 DEF Orderly
  <2>5. ASSUME NEW y \in Needs[c] PROVE got'[y] = got[y]
    <3>1. y \in DOMAIN got
      <4>1. CASE y = "trials"
        BY <1>3, <4>1
      <4>2. CASE y # "trials"
        <5>1. PICK j \in 1 .. i - 1 : s[j] = <<"read", y>>
          BY <2>4, <4>2
        <5>2. j \in 1 .. k - 1 /\ s[j][1] = "read" /\ s[j][2] = y
          BY <5>1
        <5> QED BY <1>1, <1>3, <5>2 DEF ReadRight
      <4> QED BY <4>1, <4>2
    <3>2. ~ (doing \in {"read", "try"} /\ y = x)
      <4>1. CASE i = k
        BY <1>4, <1>7, <4>1
      <4>2. CASE i # k
        <5>1. k \in i + 1 .. n
          BY <1>2, <4>2
        <5> QED BY <1>4, <2>4, <5>1
      <4> QED BY <4>1, <4>2
    <3> QED BY <3>1, <3>2
  <2>6. Holds(c)'
    BY <2>2, <2>3, <2>5, HoldsKept
  <2> QED BY <2>1, <2>2, <2>6
<1>8. ReadRight'
  <2>1. ASSUME NEW i \in 1 .. k, Script'[i][1] = "read"
        PROVE  (Script[i][2] \in DOMAIN got /\ Right(Script[i][2], got[Script[i][2]]))'
    <3>1. PICK y, v : y = s[i][2] /\ v = got'[y]
      OBVIOUS
    <3>2. Script'[i] = s[i]
      BY <1>4
    <3>3. y \in DOMAIN got' /\ Right(y, v)
      BY <1>6, <2>1, <3>1, <3>2
    <3>4. Right(y, v)'
      BY <3>3, RightStays
    <3> QED BY <3>1, <3>2, <3>3, <3>4
  <2> QED BY <1>5, <2>1 DEF ReadRight
<1>9. CheckedHolds'
  <2>1. ASSUME NEW i \in 1 .. k, Script'[i][1] = "check" 
        PROVE  Script'[i][2] \in DOMAIN Needs /\ Holds(Script[i][2])'
    <3>1. PICK y : y = s[i][2]
      OBVIOUS
    <3>2. Script'[i] = s[i]
      BY <1>4
    <3>3. y \in DOMAIN Needs /\ Holds(y)'
      BY <1>7, <2>1, <3>1, <3>2
    <3> QED BY <3>1, <3>2, <3>3
  <2>2. DOMAIN Needs = (DOMAIN Needs)'
    BY DEF Needs
  <2> QED BY <1>5, <2>1, <2>2 DEF CheckedHolds
<1> QED BY <1>8, <1>9 DEF HeldInv

(* The world is one of those the chain may be in.                           *)
LEMMA WorldIs == ASSUME FilesInv, at.step # "apply" PROVE W \in Worlds /\ Legal(W)
<1>1. PICK w \in Worlds : world = {w}
  BY DEF FilesInv
<1>2. W = w
  BY <1>1 DEF W
<1> QED BY <1>1, <1>2, WorldAssumption

(* What is where on the disk.                                               *)
LEMMA DiskIs ==
  ASSUME file \in Inputs, FilesInv, at.step # "apply"
  PROVE  /\ DOMAIN Disk = {"plan", "cands", "source", "refs", "runtime"} \cup DOMAIN dossier
         /\ Disk["plan"] = file.plan /\ Disk["refs"] = tools.refs
         /\ Disk["runtime"] = tools.runtime
         /\ \A x \in DOMAIN dossier \ {"plan", "cands", "source", "refs", "runtime"} :
              Disk[x] = dossier[x]
<1>1. DOMAIN file = {"plan", "cands", "source"} /\ DOMAIN tools = {"refs", "runtime"}
  BY DEF Inputs, FilesInv
<1> QED BY <1>1 DEF Disk, Over

(* What is found in a file is right.                                        *)
LEMMA DiskRight ==
  ASSUME file \in Inputs, FilesInv, at.step # "apply", NEW x, FileOf(x) \in DOMAIN Disk
  PROVE  Right(x, Disk[FileOf(x)])
<1>1. /\ file.plan \in Plans /\ tools.refs \in Closures /\ tools.runtime \in Runtimes
  BY DEF Inputs, FilesInv
<1>2. \A y \in DOMAIN dossier : Right(y, dossier[y])
  BY DEF FilesInv
<1>3. CASE x \in {"plan", "refs", "runtime"}
  <2>1. /\ FileOf(x) = x /\ x \notin Steps /\ x # "manifest"
    BY <1>3 DEF FileOf, Steps, About
  <2> QED BY <1>1, <1>3, <2>1, DiskIs DEF Right
<1>4. CASE x = "manifest" \/ x \in Steps
  <2>1. FileOf(x) = x /\ x \notin {"plan", "cands", "source", "refs", "runtime"}
    BY <1>4 DEF FileOf, Steps, About
  <2>2. x \in DOMAIN dossier /\ Disk[x] = dossier[x]
    BY <2>1, DiskIs
  <2> QED BY <1>2, <2>1, <2>2
<1>5. CASE x \notin {"plan", "refs", "runtime", "manifest"} \cup Steps
  BY <1>5 DEF Right
<1> QED BY <1>3, <1>4, <1>5

(* The script stays with the plan.                                          *)
LEMMA ScriptGoes ==
  ASSUME at'.step = at.step, Converting' = Converting
  PROVE  Script' = Script /\ TriesAt' = TriesAt
<1>1. PICK step, c : step = at.step /\ c = Converting
  OBVIOUS
<1>2. Script = ScriptOf(step, c)
  BY <1>1, ScriptIs
<1>3. Script' = ScriptOf(step, c)
  BY <1>1 DEF Script, ScriptOf, Converting
<1> QED BY <1>1, <1>2, <1>3 DEF TriesAt

(* Where a step stands in its script.                                       *)
LEMMA Standing ==
  ASSUME ChainInv, NEW what, Instruction(what)
  PROVE  /\ at.step \in Steps /\ at.step # "apply" /\ at.k \in Nat /\ at.k \in DOMAIN Script
         /\ Script[at.k] = <<what, Operand>> /\ Script[at.k] \in Instructions
         /\ at.k \in 1 .. Len(Script) /\ Len(Script) \in Nat
<1>1. at.step \in Steps /\ at.k \in DOMAIN Script /\ Script[at.k][1] = what /\ at.k \in Nat
  BY DEF Instruction, ChainInv
<1>2. Script \in Seq(Instructions)
  BY <1>1, ScriptShaped
<1>3. PICK s, k : s = Script /\ k = at.k
  OBVIOUS
<1>4. s[k] \in Instructions /\ k \in 1 .. Len(s) /\ Len(s) \in Nat
  BY <1>1, <1>2, <1>3
<1>5. s[k] = <<s[k][1], s[k][2]>>
  BY <1>4 DEF Instructions
<1> QED BY <1>1, <1>3, <1>4, <1>5 DEF Operand, Steps, About

(* An instruction that is not a trial makes none.                           *)
LEMMA NoTrial ==
  ASSUME ChainInv, NEW what, what # "try", Instruction(what),
         at'.step = at.step, at'.k = at.k + 1, Converting' = Converting
  PROVE  Trials' = Trials
<1>1. PICK k : k = at.k
  OBVIOUS
<1>2. k \in 1 .. Len(Script) /\ k \in Nat /\ Script[k][1] = what /\ at.step \in Steps
  BY <1>1, Standing DEF Instruction
<1>3. k \notin TriesAt
  BY <1>2, ScriptShaped DEF Shaped
<1>4. CASE at.step = "target" /\ Converting
  <2>1. Tried(k + 1) = Tried(k)
    BY <1>2, <1>3, <1>4 DEF TriesAt, TryAt, Tried
  <2> QED BY <1>1, <1>4, <2>1 DEF Trials
<1>5. CASE ~ (at.step = "target" /\ Converting)
  BY <1>5 DEF Trials
<1> QED BY <1>4, <1>5

(* A check that holds, or a file that is found as it was.                   *)
LEMMA HeldStill ==
  ASSUME ChainInv, HeldInv, NEW what, what \in {"check", "again"}, Instruction(what),
         what = "check" => Holds(Operand),
         at' = [at EXCEPT !.k = @ + 1], UNCHANGED <<world, got>>
  PROVE  HeldInv'
<1>1. /\ at.step \in Steps /\ at.k \in Nat /\ at.k \in DOMAIN Script
      /\ Script[at.k] = <<what, Operand>> /\ at.k \in 1 .. Len(Script)
  BY Standing
<1>2. at'.k = at.k + 1 /\ at'.step = at.step
  BY DEF ChainInv
<1>3. Converting' = Converting
  BY DEF Converting, Converts, W
<1>4. Script' = Script /\ Trials' = Trials
  BY <1>2, <1>3, ScriptGoes, NoTrial
<1>5. TrialsTrue'
  <2>1. W' = W
    BY DEF W
  <2>2. TrialsTrue
    BY <1>1 DEF HeldInv
  <2> QED BY <1>4, <2>1, <2>2 DEF TrialsTrue, Told
<1>6. PICK k, x : k = at.k /\ x = Operand
  OBVIOUS
<1> QED BY <1>1, <1>2, <1>4, <1>5, <1>6, HeldGoes

(* The first reading of a file.                                             *)
LEMMA HeldReads ==
  ASSUME ChainInv, HeldInv, Instruction("read"), NEW v, Right(Operand, v),
         got' = [x \in {Operand} \cup DOMAIN got |-> IF x = Operand THEN v ELSE got[x]],
         at' = [at EXCEPT !.k = @ + 1], world' = world
  PROVE  HeldInv'
<1>1. PICK k, x, s : k = at.k /\ x = Operand /\ s = Script
  OBVIOUS
<1>2. /\ at.step \in Steps /\ k \in Nat /\ k \in DOMAIN s
      /\ s[k] = <<"read", x>> /\ k \in 1 .. Len(s)
  BY <1>1, Standing
<1>3. at'.k = k + 1 /\ at'.step = at.step
  BY <1>1 DEF ChainInv
<1>4. /\ DOMAIN got' = {x} \cup DOMAIN got /\ got'[x] = v
      /\ \A y \in DOMAIN got : y # x => got'[y] = got[y]
  BY <1>1
<1>5. s \in Seq(Instructions) /\ Shaped(s, TriesAt)
  BY <1>1, <1>2, ScriptShaped
<1>6. x # "trials" /\ (x = "refs" => \A j \in TriesAt : k < j)
  <2>1. s[k][1] = "read" /\ s[k][2] = x
    BY <1>2
  <2> QED BY <1>2, <1>5, <2>1 DEF Shaped
<1>7. (\A i \in 1 .. k : Script'[i] = s[i]) /\ Trials' = Trials
  <2>1. CASE Converting' = Converting
    <3>1. Trials' = Trials
      BY <1>1, <1>3, <2>1, NoTrial
    <3> QED BY <1>1, <1>3, <2>1, <3>1, ScriptGoes
  <2>2. CASE Converting' # Converting
    <3>1. x = "plan"
      <4>1. SUFFICES ASSUME x # "plan" PROVE FALSE
        OBVIOUS
      <4>2. ("plan" \in DOMAIN got') = ("plan" \in DOMAIN got)
            /\ ("plan" \in DOMAIN got => got'.plan = got.plan)
        BY <1>4, <4>1
      <4>3. ("plan" \in DOMAIN got /\ Converts(got.plan))' = ("plan" \in DOMAIN got /\ Converts(got.plan))
        BY <4>2 DEF Converts, W
      <4> QED BY <2>2, <4>3 DEF Converting
    <3>2. PICK c, d, step : c = Converting /\ d = Converting' /\ step = at.step
      OBVIOUS
    <3>3. c \in BOOLEAN /\ d \in BOOLEAN
      BY <3>2 DEF Converting, Converts
    <3>4. s = ScriptOf(step, c)
      BY <1>1, <3>2, ScriptIs
    <3>5. Script' = ScriptOf(step, d)
      BY <1>3, <3>2 DEF Script, ScriptOf, Converting
    <3>6. CASE step # "target"
      BY <1>2, <1>3, <3>2, <3>4, <3>5, <3>6 DEF ScriptOf, Trials, Steps, About
    <3>7. CASE step = "target"
      <4>1. s = TargetScript(c) /\ Script' = TargetScript(d)
        BY <3>4, <3>5, <3>7 DEF ScriptOf
      <4>2. k = 1
        BY <1>2, <3>1, <3>3, <4>1, TargetShaped
      <4>3. TargetScript(d)[1] = <<"read", "plan">>
        <5>1. TargetScript(c)[1] = <<"read", "plan">> /\ 1 \in DOMAIN TargetScript(c)
          BY <1>2, <3>1, <4>1, <4>2
        <5> QED BY <3>3, <5>1, SamePlace
      <4>4. Tried(k) = 0 /\ Tried(k + 1) = 0
        BY <4>2 DEF Tried
      <4>5. Trials = 0 /\ Trials' = 0
        BY <1>1, <1>3, <4>4 DEF Trials
      <4>6. Script'[1] = s[1]
        BY <1>2, <3>1, <4>1, <4>2, <4>3
      <4> QED BY <4>2, <4>5, <4>6
    <3> QED BY <3>6, <3>7
  <2> QED BY <2>1, <2>2
<1>8. TrialsTrue'
  <2>1. W' = W
    BY DEF W
  <2>2. "trials" \in DOMAIN got /\ Told(got["trials"], got, Trials)
    BY <1>2 DEF HeldInv, TrialsTrue
  <2>3. PICK t, g, h : t = got["trials"] /\ g = got /\ h = got'
    OBVIOUS
  <2>4. "trials" \in DOMAIN h /\ h["trials"] = t
    BY <1>4, <1>6, <2>2, <2>3
  <2>5. x = "refs" => Trials = 0
    <3>1. SUFFICES ASSUME x = "refs", at.step = "target", Converting PROVE Tried(k) = 0
      BY <1>1 DEF Trials
    <3>2. k < 16
      BY <1>6, <3>1 DEF TriesAt, TryAt
    <3> QED BY <1>2, <3>2 DEF Tried
  <2>6. Told(t, h, Trials)
    <3>1. CASE x = "refs"
      BY <2>2, <2>3, <2>5, <3>1 DEF Told
    <3>2. CASE x # "refs"
      <4>1. "refs" \in DOMAIN g => "refs" \in DOMAIN h /\ h["refs"] = g["refs"]
        BY <1>4, <2>3, <3>2
      <4> QED BY <2>2, <2>3, <4>1 DEF Told
    <3> QED BY <3>1, <3>2
  <2> QED BY <1>7, <2>1, <2>3, <2>4, <2>6 DEF TrialsTrue, Told
<1> QED BY <1>1, <1>2, <1>3, <1>4, <1>7, <1>8, HeldGoes

(* A trial of the wrapper.                                                  *)
LEMMA HeldTries ==
  ASSUME ChainInv, HeldInv, FilesInv, TryWrapper PROVE HeldInv'
<1>1. PICK says :
        /\ Instruction("try") /\ at' = [at EXCEPT !.k = @ + 1] /\ world' = world
        /\ says \in CASE W.wrapper[got.refs] = "weak"   -> {"pass"}
                     [] W.wrapper[got.refs] = "strong" -> {"retains"}
                     [] W.wrapper[got.refs] = "flaky"  -> {"pass", "retains"}
        /\ got' = [got EXCEPT !.trials = Append(@, says)]
  BY DEF TryWrapper, Advance
<1>2. PICK k, x, s : k = at.k /\ x = Operand /\ s = Script
  OBVIOUS
<1>3. /\ at.step \in Steps /\ at.step # "apply" /\ k \in Nat /\ k \in DOMAIN s
      /\ s[k] = <<"try", x>> /\ k \in 1 .. Len(s)
  BY <1>1, <1>2, Standing
<1>4. at'.k = k + 1 /\ at'.step = at.step
  BY <1>1, <1>2 DEF ChainInv
<1>5. s \in Seq(Instructions) /\ Shaped(s, TriesAt)
  BY <1>2, <1>3, ScriptShaped
<1>6. /\ k \in TriesAt /\ x = "trials"
      /\ \E j \in 1 .. k - 1 : s[j] = <<"read", "refs">>
  <2>1. s[k][1] = "try" /\ s[k][2] = x
    BY <1>3
  <2> QED BY <1>3, <1>5, <2>1 DEF Shaped
<1>7. at.step = "target" /\ Converting /\ k \in TryAt
  BY <1>6 DEF TriesAt
<1>8. "refs" \in DOMAIN got /\ got["refs"] \in Closures
  <2>1. PICK j \in 1 .. k - 1 : s[j] = <<"read", "refs">>
    BY <1>6
  <2>2. s[j][1] = "read" /\ s[j][2] = "refs"
    BY <2>1
  <2>3. "refs" \in DOMAIN got /\ Right("refs", got["refs"])
    BY <1>2, <1>3, <2>2 DEF HeldInv, ReadRight
  <2> QED BY <2>3 DEF Right
<1>9. W.wrapper[got["refs"]] \in {"weak", "strong", "flaky"}
  BY <1>3, <1>8, WorldIs DEF Legal
<1>10. /\ says \in {"pass", "retains"}
       /\ W.wrapper[got["refs"]] = "strong" => says = "retains"
  BY <1>1, <1>9
<1>11. "trials" \in DOMAIN got /\ Told(got["trials"], got, Trials)
  BY <1>3 DEF HeldInv, TrialsTrue
<1>12. PICK t, u, g, h : t = got["trials"] /\ u = Append(t, says) /\ g = got /\ h = got'
  OBVIOUS
<1>13. h = [g EXCEPT !["trials"] = u]
  BY <1>1, <1>12
<1>14. /\ DOMAIN h = DOMAIN g /\ h["trials"] = u /\ h["refs"] = g["refs"]
       /\ \A y \in DOMAIN g : y # "trials" => h[y] = g[y]
       /\ h["plan"] = g["plan"]
  BY <1>11, <1>12, <1>13
<1>15. Converting' = Converting
  BY <1>1, <1>12, <1>14 DEF Converting, Converts, W
<1>16. Script' = s
  BY <1>2, <1>4, <1>15, ScriptGoes
<1>17. Tried(k) \in Nat /\ Tried(k + 1) = Tried(k) + 1
  BY <1>7 DEF TryAt, Tried
<1>18. Trials = Tried(k) /\ Trials' = Tried(k + 1)
  BY <1>2, <1>4, <1>7, <1>15 DEF Trials
<1>19. Told(u, h, Tried(k) + 1)
  <2>1. /\ t \in Seq({"pass", "retains"}) /\ Len(t) = Tried(k)
        /\ \A i \in 1 .. Len(t) : W.wrapper[g["refs"]] = "strong" => t[i] = "retains"
    BY <1>11, <1>12, <1>18 DEF Told
  <2>2. /\ u \in Seq({"pass", "retains"}) /\ Len(u) = Len(t) + 1
        /\ \A i \in 1 .. Len(t) : u[i] = t[i]
        /\ u[Len(t) + 1] = says
    BY <1>10, <1>12, <2>1
  <2>3. ASSUME NEW i \in 1 .. Len(u), W.wrapper[h["refs"]] = "strong"
        PROVE  u[i] = "retains"
    <3>1. W.wrapper[g["refs"]] = "strong"
      BY <1>14, <2>3
    <3>2. CASE i \in 1 .. Len(t)
      BY <2>1, <2>2, <3>1, <3>2
    <3>3. CASE i \notin 1 .. Len(t)
      <4>1. i = Len(t) + 1
        BY <1>17, <2>1, <2>2, <3>3
      <4> QED BY <1>10, <1>12, <2>2, <3>1, <4>1
    <3> QED BY <3>2, <3>3
  <2>4. "refs" \in DOMAIN h
    BY <1>8, <1>12, <1>14
  <2>5. Len(u) = Tried(k) + 1
    BY <2>1, <2>2
  <2> QED BY <2>2, <2>3, <2>4, <2>5 DEF Told
<1>20. TrialsTrue'
  <2>1. W' = W
    BY <1>1 DEF W
  <2> QED BY <1>11, <1>12, <1>14, <1>17, <1>18, <1>19, <2>1 DEF TrialsTrue, Told
<1>21. PICK doing : doing = "try"
  OBVIOUS
<1>22. /\ \A y \in DOMAIN got : y \in DOMAIN got'
       /\ \A y \in DOMAIN got : got'[y] # got[y] => doing \in {"read", "try"} /\ y = x
  BY <1>6, <1>12, <1>14, <1>21
<1>23. /\ k \in DOMAIN Script /\ Script[k] = <<doing, x>>
       /\ \A i \in 1 .. k : Script'[i] = Script[i]
       /\ k = at.k /\ at'.k = k + 1
  BY <1>2, <1>3, <1>4, <1>16, <1>21
<1>24. doing # "read" /\ doing # "check"
  BY <1>21
<1>25. at' = [at EXCEPT !.k = @ + 1] /\ at'.step = at.step /\ world' = world
  BY <1>1, <1>4
<1>26. at.step \in Steps /\ k \in Nat
  BY <1>3
<1> QED BY <1>20, <1>22, <1>23, <1>24, <1>25, <1>26, HeldGoes

(* Nothing is held at the start of a step, or by one that is given up.      *)
LEMMA HeldNothing ==
  ASSUME at'.k = 1, got' = [trials |-> <<>>] \/ at'.step \notin Steps PROVE HeldInv'
<1>1. CASE at'.step \notin Steps
  BY <1>1 DEF HeldInv, Steps, About
<1>2. CASE got' = [trials |-> <<>>]
  <2>1. Trials' = 0
    BY DEF Trials, Tried
  <2>2. PICK t : t = <<>>
    OBVIOUS
  <2>3. t \in Seq({"pass", "retains"}) /\ Len(t) = 0
    BY <2>2
  <2>4. TrialsTrue'
    BY <1>2, <2>1, <2>2, <2>3 DEF TrialsTrue, Told
  <2>5. ReadRight' /\ CheckedHolds'
    BY DEF ReadRight, CheckedHolds
  <2> QED BY <2>4, <2>5 DEF HeldInv
<1> QED BY <1>1, <1>2

(* What happens to the files does not change what a step holds.             *)
LEMMA HeldStays == ASSUME HeldInv, UNCHANGED <<world, at, got>> PROVE HeldInv'
<1>1. W' = W
  BY DEF W
<1>2. Converting' = Converting
  BY <1>1 DEF Converting, Converts
<1>3. Script' = Script /\ at' = at /\ got' = got
  BY <1>2, ScriptGoes
<1>4. SUFFICES ASSUME at.step \in Steps PROVE (ReadRight /\ CheckedHolds /\ TrialsTrue)'
  BY <1>3 DEF HeldInv, Steps, About
<1>5. Script \in Seq(Instructions) /\ Shaped(Script, TriesAt)
  BY <1>4, ScriptShaped
<1>6. TrialsTrue'
  <2>1. Trials' = Trials
    BY <1>2, <1>3 DEF Trials
  <2> QED BY <1>1, <1>3, <1>4, <2>1 DEF HeldInv, TrialsTrue, Told
<1>7. ReadRight'
  <2>1. ASSUME NEW i, i \in 1 .. at.k - 1, Script[i][1] = "read"
        PROVE  (Script[i][2] \in DOMAIN got /\ Right(Script[i][2], got[Script[i][2]]))'
    <3>1. PICK y, v : y = Script[i][2] /\ v = got[y]
      OBVIOUS
    <3>2. y \in DOMAIN got /\ Right(y, v)
      BY <1>4, <2>1, <3>1 DEF HeldInv, ReadRight
    <3>3. Right(y, v)'
      BY <3>2, RightStays
    <3> QED BY <1>3, <3>1, <3>2, <3>3
  <2> QED BY <1>3, <2>1 DEF ReadRight
<1>8. CheckedHolds'
  <2>1. ASSUME NEW i, i \in 1 .. at.k - 1, Script[i][1] = "check"
        PROVE  Script'[i][2] \in DOMAIN Needs /\ Holds(Script[i][2])'
    <3>1. PICK c : c = Script[i][2]
      OBVIOUS
    <3>2. c \in DOMAIN Needs /\ Holds(c)
      BY <1>4, <2>1, <3>1 DEF HeldInv, CheckedHolds
    <3>3. Holds(c)'
      BY <1>3, <3>2, HoldsKept
    <3> QED BY <1>3, <3>1, <3>2, <3>3
  <2>2. DOMAIN Needs = (DOMAIN Needs)'
    BY DEF Needs
  <2> QED BY <1>3, <2>1, <2>2 DEF CheckedHolds
<1> QED BY <1>6, <1>7, <1>8

-----------------------------------------------------------------------------
(* What the evidence says, once all is read and checked. *)

(* The artifacts of an undisturbed attempt, one by one.                     *)
FilesOf(a) ==
  LET s == InputOf[a.plan]
      t == Post(a.plan, s)
      d == Patch(s, t)
  IN  [plan |-> a.plan, cands |-> s, source |-> s, post |-> t, patch |-> d,
       manifest |-> Manifest(a.plan, s, t, d), refs |-> a.refs, runtime |-> a.runtime,
       trials |-> IF Converts(a.plan) THEN <<"pass", "pass", "pass">> ELSE <<>>]

GateOf(a)   == Restrict(FilesOf(a), About.gate)
DeltaOf(a)  == Restrict(Over(FilesOf(a), [gate |-> GateOf(a)]), About.delta)
TargetOf(a) == Restrict(Over(FilesOf(a), [delta |-> DeltaOf(a)]), About.target)
AllOf(a)    == Over(FilesOf(a), [gate |-> GateOf(a), delta |-> DeltaOf(a), target |-> TargetOf(a)])
CertOf(a)   == Restrict(AllOf(a), About.cert)

(* They are what Undisturbed says. *)
LEMMA UndisturbedIs ==
  ASSUME NEW a
  PROVE  /\ Undisturbed(a)["gate"] = GateOf(a) /\ Undisturbed(a)["delta"] = DeltaOf(a)
         /\ Undisturbed(a)["target"] = TargetOf(a) /\ Undisturbed(a)["cert"] = CertOf(a)
         /\ \A x \in BundleFiles : Undisturbed(a)[x] = FilesOf(a)[x]
         /\ BundleFiles \subseteq DOMAIN Undisturbed(a)
<1>1. PICK files, gate, delta, target, cert, all, u :
        /\ files = FilesOf(a) /\ gate = GateOf(a) /\ delta = DeltaOf(a)
        /\ target = TargetOf(a) /\ cert = CertOf(a) /\ all = AllOf(a)
        /\ u = Over(all, [cert |-> cert])
  OBVIOUS
<1>2. Undisturbed(a) = u
  <2>1. Undisturbed(a) = Over(AllOf(a), [cert |-> CertOf(a)])
    BY Zenon DEF Undisturbed, AllOf, CertOf, TargetOf, DeltaOf, GateOf, FilesOf
  <2> QED BY <1>1, <2>1
<1>3. DOMAIN files = {"plan", "cands", "source", "post", "patch", "manifest",
                      "refs", "runtime", "trials"}
  BY <1>1 DEF FilesOf
<1>4. PICK e : e = [gate |-> gate, delta |-> delta, target |-> target]
  OBVIOUS
<1>5. DOMAIN e = {"gate", "delta", "target"} /\ e["gate"] = gate /\ e["delta"] = delta
      /\ e["target"] = target
  BY <1>4
<1>6. all = Over(files, e)
  BY <1>1, <1>4 DEF AllOf
<1>7. /\ DOMAIN all = DOMAIN files \cup {"gate", "delta", "target"}
      /\ all["gate"] = gate /\ all["delta"] = delta /\ all["target"] = target
      /\ \A x \in DOMAIN files : all[x] = files[x]
  BY <1>3, <1>5, <1>6 DEF Over
<1>8. /\ DOMAIN u = DOMAIN all \cup {"cert"} /\ u["cert"] = cert
      /\ \A x \in DOMAIN all : u[x] = all[x]
  BY <1>1, <1>3, <1>7 DEF Over
<1>9. BundleFiles \subseteq DOMAIN files
  BY <1>3 DEF BundleFiles
<1> QED BY <1>1, <1>2, <1>7, <1>8, <1>9

(* What each of them holds.                                                 *)
LEMMA EvidenceIs ==
  ASSUME NEW a
  PROVE  /\ \A x \in About.gate : GateOf(a)[x] = FilesOf(a)[x]
         /\ \A x \in About.delta \ {"gate"} : DeltaOf(a)[x] = FilesOf(a)[x]
         /\ DeltaOf(a)["gate"] = GateOf(a)
         /\ \A x \in About.target \ {"delta"} : TargetOf(a)[x] = FilesOf(a)[x]
         /\ TargetOf(a)["delta"] = DeltaOf(a)
<1>1. DOMAIN FilesOf(a) = {"plan", "cands", "source", "post", "patch", "manifest",
                           "refs", "runtime", "trials"}
  BY DEF FilesOf
<1>2. \A x \in About.gate : GateOf(a)[x] = FilesOf(a)[x]
  BY DEF GateOf, Restrict
<1>3. PICK f, g, d : f = FilesOf(a) /\ g = GateOf(a) /\ d = DeltaOf(a)
  OBVIOUS
<1>4. (\A x \in DOMAIN f : Over(f, [gate |-> g])[x] = f[x]) /\ Over(f, [gate |-> g])["gate"] = g
  BY <1>1, <1>3 DEF Over
<1>5. \A x \in About.delta : d[x] = Over(f, [gate |-> g])[x]
  BY <1>3 DEF DeltaOf, Restrict
<1>6. (\A x \in About.delta \ {"gate"} : d[x] = f[x]) /\ d["gate"] = g
  <2>1. About.delta \ {"gate"} \subseteq DOMAIN f /\ "gate" \in About.delta
    BY <1>1, <1>3 DEF About, BundleFiles
  <2> QED BY <1>4, <1>5, <2>1
<1>7. (\A x \in DOMAIN f : Over(f, [delta |-> d])[x] = f[x]) /\ Over(f, [delta |-> d])["delta"] = d
  BY <1>1, <1>3 DEF Over
<1>8. \A x \in About.target : TargetOf(a)[x] = Over(f, [delta |-> d])[x]
  BY <1>3 DEF TargetOf, Restrict
<1>9. (\A x \in About.target \ {"delta"} : TargetOf(a)[x] = f[x]) /\ TargetOf(a)["delta"] = d
  <2>1. About.target \ {"delta"} \subseteq DOMAIN f /\ "delta" \in About.target
    BY <1>1, <1>3 DEF About, BundleFiles
  <2> QED BY <1>7, <1>8, <2>1
<1> QED BY <1>2, <1>3, <1>6, <1>9

(* The end of a script: all was read and checked.                           *)
LEMMA AllDone ==
  ASSUME HeldInv, at.step \in Steps, at.k = Len(Script) + 1,
         NEW N, NEW C, Does(Script, N, C)
  PROVE  /\ \A x \in N : x \in DOMAIN got /\ Right(x, got[x])
         /\ \A c \in C : Holds(c)
         /\ TrialsTrue
<1>1. PICK s, n : s = Script /\ n = Len(s)
  OBVIOUS
<1>2. s \in Seq(Instructions)
  BY <1>1, ScriptShaped
<1>3. n \in Nat /\ at.k - 1 = n
  BY <1>1, <1>2
<1>4. ASSUME NEW x \in N PROVE x \in DOMAIN got /\ Right(x, got[x])
  <2>1. PICK i \in 1 .. n : s[i] = <<"read", x>>
    BY <1>1 DEF Does
  <2>2. s[i][1] = "read" /\ s[i][2] = x
    BY <2>1
  <2> QED BY <1>1, <1>3, <2>2 DEF HeldInv, ReadRight
<1>5. ASSUME NEW c \in C PROVE Holds(c)
  <2>1. PICK i \in 1 .. n : s[i] = <<"check", c>>
    BY <1>1 DEF Does
  <2>2. s[i][1] = "check" /\ s[i][2] = c
    BY <2>1
  <2> QED BY <1>1, <1>3, <2>2 DEF HeldInv, CheckedHolds
<1> QED BY <1>4, <1>5 DEF HeldInv

(* Two things that hold the same have the same restriction.                 *)
LEMMA SameRestriction ==
  ASSUME NEW f, NEW g, NEW S, \A x \in S : f[x] = g[x]
  PROVE  Restrict(f, S) = Restrict(g, S)
  BY DEF Restrict

(* fix_gate.py publishes evidence of a plan that deserves it.               *)
LEMMA GateTells ==
  ASSUME FilesInv, HeldInv, at.step = "gate", at.k = Len(Script) + 1
  PROVE  Deserved("gate", Restrict(got, About.gate))
<1>1. Does(Script, About.gate, {"authority", "gated"}) /\ at.step \in Steps
  BY GateShaped DEF Script, Steps, About
<1>2. /\ \A x \in About.gate : x \in DOMAIN got /\ Right(x, got[x])
      /\ Authority /\ Gated
  <2>1. \A c \in {"authority", "gated"} : Holds(c)
    BY <1>1, AllDone
  <2> QED BY <1>1, <2>1, AllDone DEF Holds
<1>3. got.plan \in Plans
  BY <1>2 DEF Right, About
<1>4. PICK p \in Plans : got.manifest = ManifestOf(p)
  BY <1>2 DEF Right, About, BundleFiles
<1>5. /\ got.cands = InputOf[got.plan] /\ got.source = got.cands
      /\ got.manifest = Manifest(got.plan, got.cands, got.post, got.patch)
      /\ Edited(got.post.plan) <=> Converts(got.plan)
  BY <1>2 DEF Authority, Gated
<1>6. /\ got.plan = p /\ got.post = Post(p, InputOf[p])
      /\ got.patch = Patch(InputOf[p], Post(p, InputOf[p]))
  BY <1>4, <1>5 DEF ManifestOf, Manifest, Store!Manifest
<1>7. got.post.plan = p
  BY <1>6 DEF Post, Store!Post
<1>8. PICK a \in Attempts : a.plan = p
  <2>1. tools.refs \in Closures /\ tools.runtime \in Runtimes
    BY <1>1 DEF FilesInv, Steps, About
  <2>2. [plan |-> p, refs |-> tools.refs, runtime |-> tools.runtime] \in Attempts
    BY <2>1 DEF Attempts
  <2> QED BY <2>2
<1>9. \A x \in About.gate : got[x] = FilesOf(a)[x]
  <2>1. /\ got["plan"] = FilesOf(a)["plan"] /\ got["cands"] = FilesOf(a)["cands"]
        /\ got["source"] = FilesOf(a)["source"] /\ got["post"] = FilesOf(a)["post"]
        /\ got["patch"] = FilesOf(a)["patch"] /\ got["manifest"] = FilesOf(a)["manifest"]
    BY <1>4, <1>5, <1>6, <1>8 DEF FilesOf, ManifestOf
  <2> QED BY <2>1 DEF About, BundleFiles
<1>10. Restrict(got, About.gate) = GateOf(a)
  BY <1>9, SameRestriction DEF GateOf
<1>11. Deserves(a, "gate")
  BY <1>5, <1>6, <1>7, <1>8 DEF Deserves
<1> QED BY <1>10, <1>11, UndisturbedIs DEF Deserved

(* Evidence that was read, and the attempt it is of.                        *)
LEMMA EvidenceRead ==
  /\ \A v : Deserved("gate", v) => \E a \in Attempts : v = GateOf(a) /\ Deserves(a, "gate")
  /\ \A v : Deserved("delta", v) => \E a \in Attempts : v = DeltaOf(a) /\ Deserves(a, "delta")
  /\ \A v : Deserved("target", v) => \E a \in Attempts : v = TargetOf(a) /\ Deserves(a, "target")
  BY UndisturbedIs DEF Deserved

(* The files of attempts at one plan differ in the tools only.              *)
LEMMA SamePlan ==
  ASSUME NEW a, NEW b, a.plan = b.plan
  PROVE  /\ \A x \in About.gate : FilesOf(a)[x] = FilesOf(b)[x]
         /\ GateOf(a) = GateOf(b)
<1>1. \A x \in About.gate : FilesOf(a)[x] = FilesOf(b)[x]
  BY DEF FilesOf, About, BundleFiles
<1> QED BY <1>1, SameRestriction DEF GateOf

(* The sites a plan converts were selected in its source.                   *)
LEMMA PlanIs ==
  ASSUME FilesInv, at.step # "apply", NEW p \in Plans
  PROVE  /\ InputOf[p] \in Sources /\ W.image[InputOf[p]] \in Images /\ W.fixed[p] \in Images
         /\ W.convert[p] \subseteq W.selected[InputOf[p]]
  BY WorldIs, InputAssumption DEF Legal

(* Where the closure reproduces the candidates, their ids are the same.     *)
LEMMA IdsReproduced ==
  ASSUME NEW chosen, NEW pre, NEW c0, NEW c, Reproduced(chosen, pre, c0, c),
         NEW S \in SUBSET chosen
  PROVE  IdsOf(pre, c0, S) = IdsOf(pre, c, S) /\ chosen \in SUBSET Eligible(pre, c)
  BY DEF Reproduced, IdsOf

(* fix_delta.py.                                                            *)
LEMMA DeltaTells ==
  ASSUME FilesInv, HeldInv, at.step = "delta", at.k = Len(Script) + 1
  PROVE  Deserved("delta", Restrict(got, About.delta))
<1>1. Does(Script, About.delta, {"gate", "classified"}) /\ at.step \in Steps
      /\ at.step # "apply"
  BY DeltaShaped DEF Script, Steps, About
<1>2. /\ \A x \in About.delta : x \in DOMAIN got /\ Right(x, got[x])
      /\ GateBound /\ Classified
  <2>1. \A c \in {"gate", "classified"} : Holds(c)
    BY <1>1, AllDone
  <2> QED BY <1>1, <2>1, AllDone DEF Holds
<1>3. got.plan \in Plans /\ got.refs \in Closures /\ got.runtime \in Runtimes
      /\ Deserved("gate", got.gate)
  BY <1>2 DEF Right, About, Steps
<1>4. PICK b \in Attempts : got.gate = GateOf(b) /\ Deserves(b, "gate")
  BY <1>3, EvidenceRead
<1>5. \A x \in About.gate : got[x] = FilesOf(b)[x]
  <2>1. \A x \in About.gate : got.gate[x] = got[x]
    BY <1>2 DEF GateBound, Agrees
  <2> QED BY <1>4, <2>1, EvidenceIs
<1>6. PICK a \in Attempts : a.plan = got.plan /\ a.refs = got.refs /\ a.runtime = got.runtime
  <2>1. [plan |-> got.plan, refs |-> got.refs, runtime |-> got.runtime] \in Attempts
    BY <1>3 DEF Attempts
  <2> QED BY <2>1
<1>7. got.plan = b.plan
  BY <1>5 DEF FilesOf, About
<1>8. /\ \A x \in About.gate : got[x] = FilesOf(a)[x]
      /\ got.gate = GateOf(a)
  BY <1>4, <1>5, <1>6, <1>7, SamePlan
<1>9. \A x \in About.delta : got[x] = Over(FilesOf(a), [gate |-> GateOf(a)])[x]
  <2>1. PICK f, g, o : f = FilesOf(a) /\ g = GateOf(a) /\ o = Over(f, [gate |-> g])
    OBVIOUS
  <2>2. DOMAIN f = {"plan", "cands", "source", "post", "patch", "manifest",
                    "refs", "runtime", "trials"}
    BY <2>1 DEF FilesOf
  <2>3. (\A x \in DOMAIN f : o[x] = f[x]) /\ o["gate"] = g
    BY <2>1, <2>2 DEF Over
  <2>4. got["refs"] = f["refs"] /\ got["runtime"] = f["runtime"]
    BY <1>6, <2>1 DEF FilesOf
  <2>5. About.delta = About.gate \cup {"gate", "refs", "runtime"}
        /\ About.gate \subseteq DOMAIN f
    BY <2>2 DEF About, BundleFiles
  <2> QED BY <1>8, <2>1, <2>2, <2>3, <2>4, <2>5
<1>10. Restrict(got, About.delta) = DeltaOf(a)
  BY <1>9, SameRestriction DEF DeltaOf
<1>11. PICK p, s, c, pre, post, chosen, S :
         /\ p = a.plan /\ s = InputOf[p] /\ c = a.refs /\ pre = W.image[s]
         /\ post = W.fixed[p] /\ chosen = W.selected[s] /\ S = W.convert[p]
  OBVIOUS
<1>12. p \in Plans /\ pre \in Images /\ post \in Images /\ S \in SUBSET chosen
  BY <1>1, <1>11, PlanIs DEF Attempts
<1>13. got.source = s /\ got.cands = s /\ got.post.plan = p
  BY <1>8, <1>11 DEF FilesOf, About, BundleFiles, Post, Store!Post
<1>14. ClassifiedOf(W, p, s, s, got.post, c)
  BY <1>2, <1>6, <1>11, <1>13, ChecksSay
<1>15. PICK X, Y : /\ X = {Id(pre, W.collected, u) : u \in S}
                   /\ Y = {Id(pre, W.collected, u) : u \in chosen \ S}
  OBVIOUS
<1>16. Reproduced(chosen, pre, W.collected, c) /\ Verdict(X, Y, pre, post, c) = "pass"
  BY <1>11, <1>13, <1>14, <1>15 DEF ClassifiedOf
<1>17. /\ X = {Id(pre, c, u) : u \in S} /\ Y = {Id(pre, c, u) : u \in chosen \ S}
       /\ chosen \in SUBSET Eligible(pre, c)
  <2>1. PICK R, c0 : R = chosen \ S /\ c0 = W.collected
    OBVIOUS
  <2>2. R \in SUBSET chosen /\ Reproduced(chosen, pre, c0, c)
    BY <1>16, <2>1
  <2>3. /\ IdsOf(pre, c0, S) = IdsOf(pre, c, S) /\ IdsOf(pre, c0, R) = IdsOf(pre, c, R)
        /\ chosen \in SUBSET Eligible(pre, c)
    BY <1>12, <2>2, IdsReproduced
  <2> QED BY <1>15, <2>1, <2>3 DEF IdsOf
<1>18. AsPlanned(chosen, S, pre, post, c)
  BY <1>12, <1>16, <1>17, VerdictTells
<1>19. Deserves(a, "delta")
  <2>1. Edited(p) <=> Converts(p)
    BY <1>4, <1>6, <1>7, <1>11 DEF Deserves
  <2> QED BY <1>11, <1>16, <1>18, <2>1 DEF Deserves
<1> QED BY <1>10, <1>19, UndisturbedIs DEF Deserved

(* Three trials that passed.                                                *)
LEMMA ThreePasses ==
  ASSUME NEW S, NEW t \in Seq(S), Len(t) = 3, \A i \in 1 .. 3 : t[i] = "pass"
  PROVE  t = <<"pass", "pass", "pass">>
  OBVIOUS

(* fix_target.py.                                                           *)
LEMMA TargetTells ==
  ASSUME FilesInv, HeldInv, at.step = "target", at.k = Len(Script) + 1
  PROVE  Deserved("target", Restrict(got, About.target))
<1>1. PICK c : c = Converting
  OBVIOUS
<1>2. c \in BOOLEAN /\ Script = TargetScript(c) /\ at.step \in Steps /\ at.step # "apply"
  BY <1>1 DEF Converting, Converts, Script, Steps, About
<1>3. /\ Does(Script, About.target \ {"trials"}, {"delta", "bundle", "references"})
      /\ c => Does(Script, {}, {"collected"})
  BY <1>2, TargetShaped
<1>4. c => Len(Script) > 20
  BY <1>2, TargetShaped
<1>5. /\ \A x \in About.target \ {"trials"} : x \in DOMAIN got /\ Right(x, got[x])
      /\ DeltaBound /\ BundleBound /\ ReferenceBound /\ TrialsTrue
  <2>1. \A h \in {"delta", "bundle", "references"} : Holds(h)
    BY <1>2, <1>3, AllDone
  <2> QED BY <1>2, <1>3, <2>1, AllDone DEF Holds
<1>6. c => Collected
  <2>1. ASSUME c PROVE Holds("collected")
    BY <1>2, <1>3, <2>1, AllDone
  <2> QED BY <2>1 DEF Holds
<1>7. "plan" \in DOMAIN got /\ Deserved("delta", got.delta) /\ got.refs \in Closures
  BY <1>5 DEF Right, About, Steps
<1>8. PICK a \in Attempts : got.delta = DeltaOf(a) /\ Deserves(a, "delta")
  BY <1>7, EvidenceRead
<1>9. \A x \in About.target \ {"delta", "trials"} : got[x] = FilesOf(a)[x]
  <2>1. \A x \in {"plan", "cands", "source", "refs"} \cup BundleFiles : got.delta[x] = got[x]
    BY <1>5 DEF DeltaBound, BundleBound, ReferenceBound, Agrees
  <2>2. {"plan", "cands", "source", "refs"} \cup BundleFiles \subseteq About.delta \ {"gate"}
    BY DEF About, BundleFiles
  <2>3. \A x \in {"plan", "cands", "source", "refs"} \cup BundleFiles : got[x] = FilesOf(a)[x]
    BY <1>8, <2>1, <2>2, EvidenceIs
  <2>4. About.target \ {"delta", "trials"} = {"plan", "cands", "source", "refs"} \cup BundleFiles
    BY DEF About, BundleFiles
  <2> QED BY <2>3, <2>4
<1>10. got.plan = a.plan /\ got.refs = a.refs
  BY <1>9 DEF FilesOf, About
<1>11. c <=> Converts(a.plan)
  BY <1>1, <1>7, <1>10 DEF Converting
<1>12. PICK t : t = got["trials"]
  OBVIOUS
<1>13. /\ t \in Seq({"pass", "retains"}) /\ Len(t) = Trials
       /\ \A i \in 1 .. Len(t) : W.wrapper[a.refs] = "strong" => t[i] = "retains"
  BY <1>5, <1>10, <1>12 DEF TrialsTrue, Told
<1>14. Trials = IF c THEN 3 ELSE 0
  <2>1. ASSUME c PROVE Trials = 3
    <3>1. Script \in Seq(Instructions)
      BY <1>2, ScriptShaped
    <3>2. PICK n : n = Len(Script)
      OBVIOUS
    <3>3. n \in Nat
      BY <3>1, <3>2
    <3>4. n > 20
      BY <1>4, <2>1, <3>2, Zenon
    <3>5. at.k = n + 1
      BY <3>2
    <3>6. Tried(at.k) = 3
      BY <3>3, <3>4, <3>5 DEF Tried
    <3> QED BY <1>1, <2>1, <3>6 DEF Trials
  <2>2. ASSUME ~ c PROVE Trials = 0
    BY <1>1, <2>2 DEF Trials
  <2> QED BY <1>2, <2>1, <2>2
<1>15. c => \A i \in 1 .. 3 : t[i] = "pass"
  BY <1>6, <1>12 DEF Collected
<1>16. t = IF Converts(a.plan) THEN <<"pass", "pass", "pass">> ELSE <<>>
  <2>1. ASSUME c PROVE t = <<"pass", "pass", "pass">>
    BY <1>13, <1>14, <1>15, <2>1, ThreePasses
  <2>2. ASSUME ~ c PROVE t = <<>>
    BY <1>13, <1>14, <2>2
  <2> QED BY <1>11, <2>1, <2>2
<1>17. \A x \in About.target : got[x] = Over(FilesOf(a), [delta |-> DeltaOf(a)])[x]
  <2>1. PICK f, d, o : f = FilesOf(a) /\ d = DeltaOf(a) /\ o = Over(f, [delta |-> d])
    OBVIOUS
  <2>2. /\ DOMAIN f = {"plan", "cands", "source", "post", "patch", "manifest",
                       "refs", "runtime", "trials"}
        /\ f["trials"] = IF Converts(a.plan) THEN <<"pass", "pass", "pass">> ELSE <<>>
    BY <2>1 DEF FilesOf
  <2>3. (\A x \in DOMAIN f : o[x] = f[x]) /\ o["delta"] = d
    BY <2>1, <2>2 DEF Over
  <2>4. About.target \ {"delta"} \subseteq DOMAIN f
    BY <2>2 DEF About, BundleFiles
  <2>5. got["trials"] = f["trials"] /\ got["delta"] = d
    BY <1>8, <1>12, <1>16, <2>1, <2>2
  <2>6. \A x \in About.target \ {"delta", "trials"} : got[x] = o[x]
    BY <1>9, <2>1, <2>3, <2>4
  <2>7. "trials" \in DOMAIN f
    BY <2>2
  <2> QED BY <2>1, <2>3, <2>5, <2>6, <2>7
<1>18. Restrict(got, About.target) = TargetOf(a)
  BY <1>17, SameRestriction DEF TargetOf
<1>19. Converts(a.plan) => W.wrapper[a.refs] # "strong"
  <2>1. SUFFICES ASSUME c, W.wrapper[a.refs] = "strong" PROVE FALSE
    BY <1>11
  <2>2. Len(t) = 3 /\ t[1] = "pass"
    BY <1>13, <1>14, <1>15, <2>1
  <2> QED BY <1>13, <2>1, <2>2
<1>20. Deserves(a, "target")
  BY <1>8, <1>19 DEF Deserves
<1> QED BY <1>18, <1>20, UndisturbedIs DEF Deserved

(* fix_certify.py.                                                          *)
LEMMA CertTells ==
  ASSUME FilesInv, HeldInv, at.step = "cert", at.k = Len(Script) + 1
  PROVE  Deserved("cert", Restrict(got, About.cert))
<1>1. Does(Script, About.cert, {"certifiable", "closure"}) /\ at.step \in Steps
      /\ at.step # "apply"
  BY CertifyShaped DEF Script, Steps, About
<1>2. /\ \A x \in About.cert : x \in DOMAIN got /\ Right(x, got[x])
      /\ Certifies(got, W) /\ ClosureBound
  <2>1. \A h \in {"certifiable", "closure"} : Holds(h)
    BY <1>1, AllDone
  <2> QED BY <1>1, <2>1, AllDone, ChecksSay DEF Holds
<1>3. Deserved("target", got.target)
  BY <1>2 DEF Right, About, Steps
<1>4. PICK a \in Attempts : got.target = TargetOf(a) /\ Deserves(a, "target")
  BY <1>3, EvidenceRead
<1>5. PICK f, g, d : f = FilesOf(a) /\ g = GateOf(a) /\ d = DeltaOf(a)
  OBVIOUS
<1>6. DOMAIN f = {"plan", "cands", "source", "post", "patch", "manifest",
                  "refs", "runtime", "trials"}
  BY <1>5 DEF FilesOf
<1>7. /\ \A x \in {"plan", "cands", "delta"} \cup BundleFiles : got.target[x] = got[x]
      /\ \A x \in {"plan", "cands", "gate"} \cup BundleFiles : got.delta[x] = got[x]
      /\ got.target.source = got.cands /\ got.target.refs = got.delta.refs
      /\ RepresentableOf(W, got.plan, got.cands, got.post, got.delta.refs)
      /\ got.refs = got.target.refs
  BY <1>2 DEF Certifies, ClosureBound
<1>8. (\A x \in {"plan", "cands", "refs"} \cup BundleFiles : got[x] = f[x]) /\ got.delta = d
  <2>1. (\A x \in About.target \ {"delta"} : got.target[x] = f[x]) /\ got.target.delta = d
    BY <1>4, <1>5, EvidenceIs
  <2>2. {"plan", "cands", "refs"} \cup BundleFiles \subseteq About.target \ {"delta"}
    BY DEF About, BundleFiles
  <2>3. \A x \in {"plan", "cands", "refs"} \cup BundleFiles : got.target[x] = got[x]
    BY <1>7
  <2> QED BY <1>7, <2>1, <2>2, <2>3
<1>9. got.gate = g
  <2>1. d["gate"] = g
    BY <1>5, EvidenceIs
  <2> QED BY <1>7, <1>8, <2>1
<1>10. \A x \in About.cert : got[x] = AllOf(a)[x]
  <2>1. PICK e, o : /\ e = [gate |-> g, delta |-> d, target |-> TargetOf(a)]
                    /\ o = Over(f, e)
    OBVIOUS
  <2>2. /\ DOMAIN e = {"gate", "delta", "target"} /\ e["gate"] = g /\ e["delta"] = d
        /\ e["target"] = TargetOf(a)
    BY <2>1
  <2>3. /\ \A x \in DOMAIN f : o[x] = f[x]
        /\ o["gate"] = g /\ o["delta"] = d /\ o["target"] = TargetOf(a)
    BY <1>6, <2>1, <2>2 DEF Over
  <2>4. AllOf(a) = o
    BY <1>5, <2>1 DEF AllOf
  <2>5. About.cert = {"plan", "cands", "refs"} \cup BundleFiles \cup {"gate", "delta", "target"}
        /\ {"plan", "cands", "refs"} \cup BundleFiles \subseteq DOMAIN f
    BY <1>6 DEF About, BundleFiles
  <2> QED BY <1>4, <1>8, <1>9, <2>3, <2>4, <2>5
<1>11. Restrict(got, About.cert) = CertOf(a)
  BY <1>10, SameRestriction DEF CertOf
<1>12. PICK p, s, c, pre, post, chosen, S :
         /\ p = a.plan /\ s = InputOf[p] /\ c = a.refs /\ pre = W.image[s]
         /\ post = W.fixed[p] /\ chosen = W.selected[s] /\ S = W.convert[p]
  OBVIOUS
<1>13. p \in Plans /\ pre \in Images /\ S \in SUBSET chosen
  BY <1>1, <1>12, PlanIs DEF Attempts
<1>14. got.plan = p /\ got.cands = s /\ got.post.plan = p /\ got.delta.refs = c
  BY <1>5, <1>7, <1>8, <1>12 DEF FilesOf, BundleFiles, Post, Store!Post
<1>15. PICK X, Y : /\ X = {Id(pre, W.collected, u) : u \in S}
                   /\ Y = {Id(pre, W.collected, u) : u \in chosen \ S}
  OBVIOUS
<1>16. Representable(X, Y, pre, post, c)
  BY <1>7, <1>12, <1>14, <1>15 DEF RepresentableOf
<1>17. Reproduced(chosen, pre, W.collected, c)
  BY <1>4, <1>12 DEF Deserves
<1>18. /\ X = {Id(pre, c, u) : u \in S} /\ Y = {Id(pre, c, u) : u \in chosen \ S}
       /\ chosen \in SUBSET Eligible(pre, c)
  <2>1. PICK R, c0 : R = chosen \ S /\ c0 = W.collected
    OBVIOUS
  <2>2. R \in SUBSET chosen /\ Reproduced(chosen, pre, c0, c)
    BY <1>17, <2>1
  <2>3. /\ IdsOf(pre, c0, S) = IdsOf(pre, c, S) /\ IdsOf(pre, c0, R) = IdsOf(pre, c, R)
        /\ chosen \in SUBSET Eligible(pre, c)
    BY <1>13, <2>2, IdsReproduced
  <2> QED BY <1>15, <2>1, <2>3 DEF IdsOf
<1>19. ~ SharedKey(chosen, pre, c)
  BY <1>13, <1>16, <1>18, RepresentableTells
<1>20. Deserves(a, "cert")
  BY <1>4, <1>12, <1>19 DEF Deserves
<1> QED BY <1>11, <1>20, UndisturbedIs DEF Deserved

-----------------------------------------------------------------------------
(* The steps of the chain. *)

(* What the chain does to the application it starts from: nothing, or what  *)
(* may happen to any run of it.                                             *)
LEMMA ChainMoves ==
  ASSUME TypeOK, [ChainNext]_<<avars, cvars>> PROVE [Next]_avars
<1>1. CASE UNCHANGED <<avars, cvars>> \/ Applying
  BY <1>1 DEF Applying
<1>2. CASE HandOver \/ ReadFile \/ MakeCheck \/ ReadAgain \/ TryWrapper \/ PublishEvidence
  BY <1>2 DEF HandOver, ReadFile, MakeCheck, ReadAgain, TryWrapper, PublishEvidence, GiveUp
<1>3. CASE ReplaceInput
  BY <1>3 DEF ReplaceInput, Disturb, Next
<1>4. CASE ReplaceTools \/ Exchange \/ StopStep
  <2>1. Mishap /\ UNCHANGED <<file, disk, pc, memory>>
    BY <1>4 DEF ReplaceTools, Exchange, StopStep, Disturb
  <2>2. file \in Inputs
    BY DEF TypeOK
  <2>3. file' = [file EXCEPT !.plan = file.plan] /\ file.plan \in Plans
    BY <2>1, <2>2 DEF Inputs
  <2>4. Replace
    BY <2>1, <2>3 DEF Replace
  <2> QED BY <2>4 DEF Next
<1> QED BY <1>1, <1>2, <1>3, <1>4 DEF ChainNext, ChainStep

(* So the bundle it starts from is exact for one plan.                      *)
OutExact == \A b \in out : \E p \in Plans : b = Store!Exact(b.by, p)

(* A bundle that is there stays, and one that appears is exact. *)
LEMMA OutStaysExact ==
  ASSUME IInv, OutExact, [Next]_avars PROVE OutExact'
<1>1. CASE out' = out
  BY <1>1 DEF OutExact
<1>2. CASE out' # out
  <2>1. PICK r \in Runs, p \in Plans : out' = {Store!Exact(r, p)}
    BY <1>2, StoreStep DEF Store!StoreNext, Store!Publish, Store!End
  <2>2. Store!Exact(r, p).by = r
    BY DEF Store!Exact
  <2> QED BY <2>1, <2>2 DEF OutExact
<1> QED BY <1>1, <1>2

(* The files stay right when they stay.                                     *)
LEMMA FilesStay ==
  ASSUME FilesInv, UNCHANGED <<world, dossier, tools>>,
         (at.step = "apply") <=> (at'.step = "apply")
  PROVE  FilesInv'
<1>1. \A x \in DOMAIN dossier' : Right(x, dossier[x])'
  BY RightStays DEF FilesInv
<1> QED BY <1>1 DEF FilesInv

(* and when one of them is right, or removed.                               *)
LEMMA FilesGo ==
  ASSUME FilesInv, world' = world, at.step # "apply", at'.step # "apply",
         tools' \in [refs : Closures, runtime : Runtimes],
         \A x \in DOMAIN dossier' :
           \/ x \in DOMAIN dossier /\ dossier'[x] = dossier[x]
           \/ Right(x, dossier'[x])
  PROVE  FilesInv'
<1>1. ASSUME NEW x \in DOMAIN dossier' PROVE Right(x, dossier[x])'
  <2>1. PICK v : v = dossier'[x]
    OBVIOUS
  <2>2. Right(x, v)
    BY <1>1, <2>1 DEF FilesInv
  <2>3. Right(x, v)'
    BY <2>2, RightStays
  <2> QED BY <2>1, <2>3
<1> QED BY <1>1 DEF FilesInv

(* The bundle that is handed over.                                          *)
LEMMA FilesHandedOver == ASSUME OutExact, HandOver PROVE FilesInv'
<1>1. PICK w \in Worlds, b \in out :
        /\ world' = {w} /\ tools' = w.tools
        /\ dossier' = [x \in {y \in BundleFiles : b[y] # {}} |-> CHOOSE c \in b[x] : TRUE]
  BY DEF HandOver
<1>2. at'.step = "gate"
  BY DEF HandOver, Begin
<1>3. tools' \in [refs : Closures, runtime : Runtimes]
  BY <1>1, WorldAssumption DEF Legal
<1>4. PICK p \in Plans : b = Store!Exact(b.by, p)
  BY <1>1 DEF OutExact
<1>5. b["manifest"] = {ManifestOf(p)}
  BY <1>4 DEF Store!Exact, ManifestOf, Manifest, Post, Patch
<1>6. DOMAIN dossier' \subseteq BundleFiles
      /\ ("manifest" \in DOMAIN dossier' => dossier'["manifest"] = ManifestOf(p))
  <2>1. PICK m : m = ManifestOf(p)
    OBVIOUS
  <2>2. (CHOOSE c \in {m} : TRUE) = m
    OBVIOUS
  <2> QED BY <1>1, <1>5, <2>1, <2>2
<1>7. ASSUME NEW x \in DOMAIN dossier' PROVE Right(x, dossier[x])'
  <2>1. PICK v : v = dossier'[x]
    OBVIOUS
  <2>2. x \in BundleFiles /\ (x = "manifest" => v = ManifestOf(p))
    BY <1>6, <1>7, <2>1
  <2>3. Right(x, v)'
    BY <2>2 DEF Right, BundleFiles, Steps, About
  <2> QED BY <2>1, <2>3
<1> QED BY <1>1, <1>2, <1>3, <1>7 DEF FilesInv

(* The evidence that is published.                                          *)
LEMMA FilesPublished ==
  ASSUME FilesInv, HeldInv, PublishEvidence PROVE FilesInv'
<1>1. PICK step : step = at.step
  OBVIOUS
<1>2. step \in Steps /\ at.k = Len(Script) + 1 /\ step # "apply"
  BY <1>1 DEF PublishEvidence, Steps, About
<1>3. CASE GiveUp
  BY <1>1, <1>2, <1>3, FilesStay DEF GiveUp
<1>4. CASE ~ GiveUp
  <2>1. /\ dossier' = Over([x \in {step} |-> Restrict(got, About[x])], dossier)
        /\ UNCHANGED <<world, tools>> /\ at'.step = Following[step]
    BY <1>1, <1>4 DEF PublishEvidence, Begin
  <2>2. Following[step] # "apply"
    BY <1>2 DEF Following, Steps, About
  <2>3. Deserved(step, Restrict(got, About[step]))
    <3>1. step \in {"gate", "delta", "target", "cert"}
      BY <1>2 DEF Steps, About
    <3>2. CASE step = "gate"
      <4>1. About[step] = About.gate
        BY <3>2
      <4> QED BY <1>1, <1>2, <3>2, <4>1, GateTells
    <3>3. CASE step = "delta"
      <4>1. About[step] = About.delta
        BY <3>3
      <4> QED BY <1>1, <1>2, <3>3, <4>1, DeltaTells
    <3>4. CASE step = "target"
      <4>1. About[step] = About.target
        BY <3>4
      <4> QED BY <1>1, <1>2, <3>4, <4>1, TargetTells
    <3>5. CASE step = "cert"
      <4>1. About[step] = About.cert
        BY <3>5
      <4> QED BY <1>1, <1>2, <3>5, <4>1, CertTells
    <3> QED BY <3>1, <3>2, <3>3, <3>4, <3>5
  <2>4. PICK v : v = Restrict(got, About[step])
    OBVIOUS
  <2>5. dossier'[step] = v
        /\ \A x \in DOMAIN dossier' : x # step => x \in DOMAIN dossier /\ dossier'[x] = dossier[x]
    BY <2>1, <2>4 DEF Over
  <2>6. Right(step, v)
    BY <1>2, <2>3, <2>4 DEF Right, Steps, About
  <2>7. tools' \in [refs : Closures, runtime : Runtimes]
    BY <1>1, <1>2, <2>1 DEF FilesInv
  <2> QED BY <1>1, <1>2, <2>1, <2>2, <2>5, <2>6, <2>7, FilesGo
<1> QED BY <1>3, <1>4

(* What is exchanged for the genuine artifact of another attempt.           *)
LEMMA FilesExchanged == ASSUME FilesInv, Exchange PROVE FilesInv'
<1>1. /\ at.step \in Steps /\ at.step # "apply" /\ UNCHANGED <<world, tools, at>>
  BY DEF Exchange, Disturb, Steps, About
<1>2. tools' \in [refs : Closures, runtime : Runtimes]
  BY <1>1 DEF FilesInv
<1>3. PICK a \in W.rivals :
       \/ dossier' = Over(Restrict(Undisturbed(a), BundleFiles), dossier)
       \/ \E step \in Steps :
            /\ Deserves(a, step)
            /\ dossier' = Over([x \in {step} |-> Undisturbed(a)[x]], dossier)
       \/ \E step \in Steps : dossier' = Restrict(dossier, (DOMAIN dossier) \ {step})
  BY DEF Exchange
<1>4. a \in Attempts
  BY <1>1, <1>3, WorldIs DEF Legal
<1>5. CASE dossier' = Over(Restrict(Undisturbed(a), BundleFiles), dossier)
  <2>1. PICK u, d : u = Undisturbed(a) /\ d = Restrict(u, BundleFiles)
    OBVIOUS
  <2>2. d = [x \in BundleFiles |-> u[x]]
    BY <2>1, UndisturbedIs DEF Restrict
  <2>3. d["manifest"] = ManifestOf(a.plan)
    <3>1. FilesOf(a)["manifest"] = ManifestOf(a.plan)
      BY DEF FilesOf, ManifestOf
    <3>2. "manifest" \in BundleFiles
      BY DEF BundleFiles
    <3> QED BY <2>1, <2>2, <3>1, <3>2, UndisturbedIs
  <2>4. a.plan \in Plans
    BY <1>4 DEF Attempts
  <2>5. \A x \in BundleFiles : Right(x, d[x])
    BY <2>3, <2>4 DEF Right, BundleFiles, Steps, About
  <2>6. \A x \in DOMAIN dossier' :
          \/ x \in DOMAIN dossier /\ dossier'[x] = dossier[x]
          \/ x \in BundleFiles /\ dossier'[x] = d[x]
    BY <1>5, <2>1, <2>2 DEF Over
  <2>7. \A x \in DOMAIN dossier' :
          \/ x \in DOMAIN dossier /\ dossier'[x] = dossier[x]
          \/ Right(x, dossier'[x])
    BY <2>5, <2>6
  <2> QED BY <1>1, <1>2, <2>7, FilesGo
<1>6. ASSUME NEW step \in Steps, Deserves(a, step),
             dossier' = Over([x \in {step} |-> Undisturbed(a)[x]], dossier)
      PROVE  FilesInv'
  <2>1. PICK v : v = Undisturbed(a)[step]
    OBVIOUS
  <2>2. dossier'[step] = v
        /\ \A x \in DOMAIN dossier' : x # step => x \in DOMAIN dossier /\ dossier'[x] = dossier[x]
    BY <1>6, <2>1 DEF Over
  <2>3. Deserved(step, v)
    BY <1>4, <1>6, <2>1 DEF Deserved
  <2>4. Right(step, v)
    BY <1>6, <2>3 DEF Right, Steps, About
  <2> QED BY <1>1, <1>2, <2>2, <2>4, FilesGo
<1>7. ASSUME NEW step \in Steps, dossier' = Restrict(dossier, (DOMAIN dossier) \ {step})
      PROVE  FilesInv'
  <2>1. \A x \in DOMAIN dossier' : x \in DOMAIN dossier /\ dossier'[x] = dossier[x]
    BY <1>7 DEF Restrict
  <2> QED BY <1>1, <1>2, <2>1, FilesGo
<1> QED BY <1>3, <1>5, <1>6, <1>7

(* Another closure or another runtime.                                      *)
LEMMA FilesRetooled == ASSUME FilesInv, ReplaceTools PROVE FilesInv'
<1>1. /\ at.step \in Steps /\ at.step # "apply" /\ UNCHANGED <<world, dossier, at>>
  BY DEF ReplaceTools, Disturb, Steps, About
<1>2. tools' \in [refs : Closures, runtime : Runtimes]
  BY <1>1 DEF FilesInv, ReplaceTools
<1> QED BY <1>1, <1>2, FilesGo

(* The invariant of the chain and of the application it starts from.        *)
ChainIInv == IInv /\ OutExact /\ ChainInv /\ FilesInv /\ HeldInv

(* Before the chain starts there is no evidence and no bundle handed over. *)
LEMMA ChainIInvInit == ChainInit => ChainIInv
<1> SUFFICES ASSUME ChainInit PROVE ChainIInv
  OBVIOUS
<1>1. IInv /\ OutExact
  BY IInvInit DEF ChainInit, Init, OutExact
<1>2. ChainInv
  BY ChainInitInv
<1>3. at.step = "apply" /\ dossier = None
  BY DEF ChainInit
<1>4. FilesInv
  BY <1>3 DEF FilesInv, None
<1>5. HeldInv
  BY <1>3 DEF HeldInv, Steps, About
<1> QED BY <1>1, <1>2, <1>4, <1>5 DEF ChainIInv

(* The files, at every step.                                                *)
LEMMA FilesStep ==
  ASSUME ChainIInv, [ChainNext]_<<avars, cvars>> PROVE FilesInv'
<1> USE DEF ChainIInv
<1>1. CASE UNCHANGED <<avars, cvars>> \/ Applying
  BY <1>1, FilesStay DEF Applying, cvars
<1>2. CASE HandOver
  BY <1>2, FilesHandedOver
<1>3. CASE ReadFile \/ MakeCheck \/ ReadAgain \/ TryWrapper \/ ReplaceInput \/ StopStep
  <2>1. at.step \in Steps /\ at.step # "apply" /\ UNCHANGED <<world, dossier, tools>>
    BY <1>3 DEF ReadFile, MakeCheck, ReadAgain, TryWrapper, ReplaceInput, StopStep,
                Instruction, Disturb, GiveUp, Steps, About
  <2>2. at'.step # "apply"
    <3>1. CASE at' = at \/ at' = [step |-> "refused", k |-> 1]
      BY <2>1, <3>1
    <3>2. CASE Advance
      BY <2>1, <3>2 DEF Advance, ChainInv
    <3> QED BY <1>3, <3>1, <3>2 DEF ReadFile, MakeCheck, ReadAgain, TryWrapper,
                                    ReplaceInput, StopStep, GiveUp
  <2> QED BY <2>1, <2>2, FilesStay
<1>4. CASE PublishEvidence
  BY <1>4, FilesPublished
<1>5. CASE Exchange
  BY <1>5, FilesExchanged
<1>6. CASE ReplaceTools
  BY <1>6, FilesRetooled
<1> QED BY <1>1, <1>2, <1>3, <1>4, <1>5, <1>6 DEF ChainNext, ChainStep

(* What a step holds, at every step.                                        *)
LEMMA HeldStep ==
  ASSUME ChainIInv, [ChainNext]_<<avars, cvars>> PROVE HeldInv'
<1> USE DEF ChainIInv
<1>1. CASE UNCHANGED <<avars, cvars>> \/ Applying \/ ReplaceInput \/ ReplaceTools \/ Exchange
  BY <1>1, HeldStays DEF Applying, cvars, ReplaceInput, ReplaceTools, Exchange
<1>2. CASE HandOver \/ PublishEvidence
  BY <1>2, HeldNothing DEF HandOver, PublishEvidence, Begin, GiveUp, Steps, About
<1>3. CASE StopStep \/ GiveUp
  BY <1>3, HeldNothing DEF StopStep, GiveUp, Steps, About
<1>4. CASE ReadFile /\ ~ GiveUp
  <2>1. /\ Instruction("read") /\ at' = [at EXCEPT !.k = @ + 1] /\ world' = world
        /\ FileOf(Operand) \in DOMAIN Disk
        /\ got' = [x \in {Operand} \cup DOMAIN got |->
                     IF x = Operand THEN Disk[FileOf(x)] ELSE got[x]]
    BY <1>4 DEF ReadFile, Advance, Present
  <2>2. file \in Inputs /\ at.step # "apply"
    BY <2>1 DEF IInv, TypeOK, Instruction, Steps, About
  <2>3. PICK v : v = Disk[FileOf(Operand)]
    OBVIOUS
  <2>4. Right(Operand, v)
    BY <2>1, <2>2, <2>3, DiskRight
  <2>5. got' = [x \in {Operand} \cup DOMAIN got |-> IF x = Operand THEN v ELSE got[x]]
    BY <2>1, <2>3
  <2> QED BY <2>1, <2>4, <2>5, HeldReads
<1>5. CASE (MakeCheck \/ ReadAgain) /\ ~ GiveUp
  BY <1>5, HeldStill DEF MakeCheck, ReadAgain, Advance
<1>6. CASE TryWrapper
  BY <1>6, HeldTries
<1> QED BY <1>1, <1>2, <1>3, <1>4, <1>5, <1>6 DEF ChainNext, ChainStep

(* Every step of the chain keeps the invariant, and so does what disturbs it. *)
LEMMA ChainIInvStep == ChainIInv /\ [ChainNext]_<<avars, cvars>> => ChainIInv'
<1> SUFFICES ASSUME ChainIInv, [ChainNext]_<<avars, cvars>> PROVE ChainIInv'
  OBVIOUS
<1>1. [Next]_avars
  BY ChainMoves DEF ChainIInv, IInv
<1>2. IInv' /\ OutExact'
  BY <1>1, IInvStep, OutStaysExact DEF ChainIInv
<1>3. ChainInv'
  BY ChainNextInv DEF ChainIInv
<1> QED BY <1>2, <1>3, FilesStep, HeldStep DEF ChainIInv

(* Right evidence is evidence of one attempt.                               *)
LEMMA RightTells == ASSUME FilesInv PROVE EvidenceOfOneAttempt
<1>1. ASSUME NEW step \in Steps \cap DOMAIN dossier PROVE Deserved(step, dossier[step])
  BY <1>1 DEF FilesInv, Right
<1> QED BY <1>1 DEF Deserved, EvidenceOfOneAttempt

(***************************************************************************)
(* Whatever is replaced, exchanged or stopped between any two reads, and   *)
(* however often, a published gate, delta, target or certificate is the    *)
(* one an undisturbed attempt makes, and that attempt deserves it: the     *)
(* bindings of fix_gate.py, fix_delta.py, fix_target.py and fix_certify.py *)
(* let nothing else through, and from the delta on the fixed file differs  *)
(* from the original by the conversions of the plan.                       *)
(***************************************************************************)
THEOREM EvidenceIsOfOneAttempt == ChainSpec => []EvidenceOfOneAttempt
<1>1. ChainIInv => EvidenceOfOneAttempt
  BY RightTells DEF ChainIInv
<1> QED BY <1>1, ChainIInvInit, ChainIInvStep, PTL DEF ChainSpec


(***************************************************************************)
(* The four programs after apply_bundle, and all that happens to them,     *)
(* leave its output directory as fix_bundle.py promises it: one whole      *)
(* bundle, exact for one plan, once and for all.                           *)
(***************************************************************************)
THEOREM ChainKeepsStore == ChainSpec => StoreRefined
<1>1. ChainInit => Store!StoreInit
  BY DEF ChainInit, Init, Store!StoreInit, Outcome
<1>2. ChainIInv /\ [ChainNext]_<<avars, cvars>> => [Store!StoreNext]_<<out, Outcome>>
  BY ChainMoves, StoreStep DEF ChainIInv, IInv
<1> QED BY <1>1, <1>2, ChainIInvInit, ChainIInvStep, PTL
       DEF ChainSpec, StoreRefined, Store!StoreSpec

(***************************************************************************)
(* And the work directories of its runs as they are without the chain: of  *)
(* one run each, and none left behind but by a kill or a removal that      *)
(* fails (fix_bundle.py: os.makedirs as the lock, `rmtree` on either way   *)
(* out).                                                                   *)
(***************************************************************************)
THEOREM ChainKeepsWorkdirs == ChainSpec => [](OwnWorkdir /\ NoStaleWorkdir)
<1>1. ChainInit => Attended
  BY DEF ChainInit, Init, Attended
<1>2. ChainIInv /\ Attended /\ [ChainNext]_<<avars, cvars>> => Attended'
  BY ChainMoves, AttendedStep DEF ChainIInv, IInv
<1>3. ChainIInv /\ Attended => OwnWorkdir /\ NoStaleWorkdir
  BY DEF ChainIInv, IInv, Attended, NoStaleWorkdir, Claimed, Rewriting, Ended
<1> QED BY <1>1, <1>2, <1>3, ChainIInvInit, ChainIInvStep, PTL DEF ChainSpec
=============================================================================
