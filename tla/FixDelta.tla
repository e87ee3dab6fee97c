------------------------------ MODULE FixDelta ------------------------------
(***************************************************************************)
(* The analyzer delta (ownlang/fix_delta.py): whether what the analyzer    *)
(* says of the fixed file differs from what it said of the original by     *)
(* exactly the conversions of the plan.  The file is seen through its      *)
(* subscriptions: a site is a place in the text, by position, where an     *)
(* event handler may be attached and never released.  Two sites may have   *)
(* one identity (the same statement twice in a member) or one bridge key   *)
(* (the same event and handler in two members).                            *)
(*                                                                         *)
(* An image is one version of the file: the sites still leaking, `left`,   *)
(* and the number of OWN050 advisories.  What is fixable depends on the    *)
(* reference closure, which decides what the extractor can resolve.        *)
(***************************************************************************)
EXTENDS Integers, FiniteSets

CONSTANTS
  Sites,      \* positions in the text
  Identity,   \* site -> member, event, source and handler, as symbols
  Key,        \* site -> file, component, event and handler, as printed
  Shape,      \* site -> the other fields of its OWN001 observation
  Fixable     \* closure -> the sites it lets the extractor resolve

ASSUME SitesAssumption == Sites \subseteq Int /\ IsFiniteSet(Sites)

Images == [left : SUBSET Sites, advice : Nat]

-----------------------------------------------------------------------------
(* What the extractor and the core analyzer say of an image. *)

Eligible(image, c) == image.left \cap Fixable[c]

\* The finding id numbers the occurrences of one identity in the image at hand.
Id(image, c, s) ==
  <<Identity[s], Cardinality({t \in Eligible(image, c) :
                                t < s /\ Identity[t] = Identity[s]})>>

Ids(image, c) == {Id(image, c, s) : s \in Eligible(image, c)}
SiteOf(image, c, id) == CHOOSE s \in Eligible(image, c) : Id(image, c, s) = id

Observation(s)  == <<Key[s], Shape[s]>>
Count(image, o) == Cardinality({s \in image.left : Observation(s) = o})
Under(image, k) == {s \in image.left : Key[s] = k}

-----------------------------------------------------------------------------
(* classify_delta, question by question; `convert` and `manual` are ids. *)

\* validate_image_bridge: under the key of an eligible subscription there are
\* as many observations as eligible subscriptions, all alike.
Bridged(image, c) ==
  \A k \in {Key[s] : s \in Eligible(image, c)} :
    /\ Cardinality({Shape[s] : s \in Under(image, k)}) = 1
    /\ Cardinality(Under(image, k))
         = Cardinality({s \in Eligible(image, c) : Key[s] = k})

\* _bridge_r_c: each accepted id is in the baseline, and no key is both
\* converted and left for review.
Accepted(convert, manual, pre, c) ==
  /\ convert \cup manual \subseteq Ids(pre, c)
  /\ \A x \in convert, y \in manual :
       Key[SiteOf(pre, c, x)] # Key[SiteOf(pre, c, y)]

\* The finding-id equations.
NothingNew(pre, post, c) == Ids(post, c) \subseteq Ids(pre, c)

IdsAgree(convert, manual, pre, post, c) ==
  LET gone == Ids(pre, c) \ Ids(post, c)
      kept == Ids(pre, c) \cap Ids(post, c)
      declared == convert \cup manual
  IN  /\ gone \cap declared = convert
      /\ kept \cap declared = manual
      /\ gone \subseteq declared

\* The multiset of observations lost is the authorized one (R_C).
Lost(pre, post, o) == Count(pre, o) - Count(post, o)
Authorized(convert, pre, c, o) ==
  Cardinality({x \in convert : Observation(SiteOf(pre, c, x)) = o})
Observations == {Observation(s) : s \in Sites}

NoneAppeared(pre, post) == \A o \in Observations : Lost(pre, post, o) >= 0

\* Mutant of CoreAgrees: what else is lost is not looked at.
CoreShrinks(convert, pre, post, c) ==
  \A o \in Observations : Lost(pre, post, o) >= Authorized(convert, pre, c, o)

CoreAgrees(convert, pre, post, c) ==
  \A o \in Observations : Lost(pre, post, o) = Authorized(convert, pre, c, o)

Verdict(convert, manual, pre, post, c) ==
  CASE ~ Bridged(pre, c) \/ ~ Bridged(post, c)         -> "ANALYSIS_IDENTITY"
    [] ~ Accepted(convert, manual, pre, c)             -> "ANALYSIS_IDENTITY"
    [] ~ NothingNew(pre, post, c)                      -> "NEW_OWN001"
    [] ~ IdsAgree(convert, manual, pre, post, c)       -> "DELTA_MISMATCH"
    [] ~ NoneAppeared(pre, post)                       -> "NEW_OWN001"
    [] ~ CoreAgrees(convert, pre, post, c)             -> "DELTA_MISMATCH"
    [] post.advice > pre.advice                        -> "NEW_OWN050"
    [] convert \cap Ids(post, c) # {}                  -> "IDEMPOTENCE"
    [] OTHER                                           -> "pass"

-----------------------------------------------------------------------------
\* check_baseline_authority: the closure at hand gives each candidate, taken
\* with closure c0, the record it had.
Reproduced(candidates, pre, c0, c) ==
  \A s \in candidates : s \in Eligible(pre, c) /\ Id(pre, c, s) = Id(pre, c0, s)

\* _validate_delta_representable and _authorized_removed (fix_certify.py): the
\* equations again, from the evidence and the candidates.  The evidence does
\* not say which undeclared subscriptions share a key, so here the observations
\* under a key must all be of accepted candidates.
Representable(convert, manual, pre, post, c) ==
  /\ Accepted(convert, manual, pre, c)
  /\ \A k \in {Key[SiteOf(pre, c, x)] : x \in convert \cup manual} :
       /\ Cardinality({Shape[s] : s \in Under(pre, k)}) = 1
       /\ Cardinality(Under(pre, k))
            = Cardinality({x \in convert \cup manual : Key[SiteOf(pre, c, x)] = k})
  /\ NothingNew(pre, post, c)
  /\ IdsAgree(convert, manual, pre, post, c)
  /\ NoneAppeared(pre, post)
  /\ CoreAgrees(convert, pre, post, c)
  /\ post.advice <= pre.advice

-----------------------------------------------------------------------------
(***************************************************************************)
(* The reference, about sites: the plan's conversions happened and nothing *)
(* else did, as far as the analyzer can tell sites apart.                  *)
(***************************************************************************)
Twins(image, c, s) == {t \in Eligible(image, c) : Identity[t] = Identity[s]}

\* Sites of one key that the analyzer could not tell apart share their fate.
Tellable(image, c) ==
  \A s \in Eligible(image, c), t \in image.left :
    Key[s] = Key[t] => t \in Fixable[c] /\ Shape[s] = Shape[t]

\* Of the sites of one identity, the last ones are converted, as many as are
\* gone: the ones that remain are numbered from zero.
ConvertedLast(converted, pre, post, c) ==
  \A s \in Eligible(pre, c) :
    LET after == {t \in Twins(pre, c, s) : t >= s}
        gone  == Cardinality(Twins(pre, c, s)) - Cardinality(Twins(post, c, s))
    IN  s \in converted <=> Cardinality(after) <= gone

AsPlanned(candidates, converted, pre, post, c) ==
  /\ candidates \subseteq Eligible(pre, c)
  /\ Tellable(pre, c) /\ Tellable(post, c)
  /\ \A s \in converted, t \in candidates \ converted : Key[s] # Key[t]
  /\ ConvertedLast(converted, pre, post, c)
  /\ \A s \in Eligible(post, c) :
       Cardinality(Twins(post, c, s)) <= Cardinality(Twins(pre, c, s))
  /\ \A o \in Observations :
       Count(pre, o) = Count(post, o)
                         + Cardinality({s \in converted : Observation(s) = o})
  /\ post.advice <= pre.advice

\* An unselected subscription has the key of a selected one.
SharedKey(candidates, pre, c) ==
  \E s \in candidates, t \in pre.left \ candidates : Key[s] = Key[t]
=============================================================================
