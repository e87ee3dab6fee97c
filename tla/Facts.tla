-------------------------------- MODULE Facts --------------------------------
(***************************************************************************)
(* What check_facts (ownlang/ownir.py) asks of one document of facts, one  *)
(* analysis after the other: whether its proven calls are harmless, before *)
(* the lowering; then the lifetimes of the module, the registrations of    *)
(* the services, the effects and the protocols.  A proven call that is not *)
(* harmless is an error, and ends it.                                      *)
(* Each reads its own part of the document, and a part that is absent is   *)
(* an empty input; nothing of one analysis reaches the next.               *)
(***************************************************************************)
EXTENDS HeapEffects, Lifetimes, DiGraph, EffectStability, Obligations

VARIABLE phase   \* the analysis going on, "reported" or "refused"

factvars == <<phase, hevars, ltvars, divars, evars, obvars>>

NoCalls     == [methods |-> << >>, site |-> 0, callee |-> 0]
NoLifetimes == [decls |-> << >>, functions |-> << >>]
NoProtocols == [protocols |-> << >>, methods |-> << >>]
NoEffects   == {FALSE}

\* A document with facts for one of the analyses.
FactsInit ==
  /\ phase = "calls"
  /\ \E part \in {"calls", "lifetimes", "services", "effects", "protocols"} :
       /\ HeInit(IF part = "calls" THEN Programs ELSE {NoCalls})
       /\ LtInit(IF part = "lifetimes" THEN LifetimeModules ELSE {NoLifetimes})
       /\ DiInit(IF part = "services" THEN Registrations ELSE {<< >>})
       /\ EffInit(IF part = "effects" THEN Tables ELSE {CHOOSE t \in Tables : TRUE},
                  IF part = "effects" THEN BOOLEAN ELSE NoEffects)
       /\ ObInit(IF part = "protocols" THEN Checks ELSE {NoProtocols})

In(p) == phase = p

Pass(p, done, q) ==
  /\ In(p) /\ done
  /\ phase' = q
  /\ UNCHANGED <<hevars, ltvars, divars, evars, obvars>>

CallsStep ==
  /\ In("calls") /\ program # NoCalls /\ HeNext
  /\ UNCHANGED <<phase, ltvars, divars, evars, obvars>>
LifetimesStep ==
  /\ In("lifetimes") /\ LtNext
  /\ UNCHANGED <<phase, hevars, divars, evars, obvars>>
ServicesStep ==
  /\ In("services") /\ DiNext
  /\ UNCHANGED <<phase, hevars, ltvars, evars, obvars>>
EffectsStep ==
  /\ In("effects") /\ EffNext
  /\ UNCHANGED <<phase, hevars, ltvars, divars, obvars>>
ProtocolsStep ==
  /\ In("protocols") /\ ObNext
  /\ UNCHANGED <<phase, hevars, ltvars, divars, evars>>

Refuse      == Pass("calls", HeDone /\ ~ admitted[1], "refused")
ToLifetimes == Pass("calls", program = NoCalls \/ (HeDone /\ admitted[1]), "lifetimes")
ToServices  == Pass("lifetimes", LtDone, "services")
ToEffects   == Pass("services", DiDone, "effects")
ToProtocols == Pass("effects", EffDone, "protocols")
ToReport    == Pass("protocols", ObDone, "reported")

FactsNext ==
  \/ CallsStep \/ Refuse \/ ToLifetimes \/ LifetimesStep \/ ToServices \/ ServicesStep
  \/ ToEffects \/ EffectsStep \/ ToProtocols \/ ProtocolsStep \/ ToReport

FactsSpec == FactsInit /\ [][FactsNext]_factvars /\ WF_factvars(FactsNext)

(***************************************************************************)
(* A document goes on to the lowering with its proven calls only if they   *)
(* are harmless, whatever the methods they reach call and return.          *)
(***************************************************************************)
ProvenCallsHarmless == In("calls") => HarmlessExact

(***************************************************************************)
(* What a finding shows as evidence is there in the facts: a chain of      *)
(* dependencies from the singleton to its captive, a path of references    *)
(* from the effect to a fresh identity, neither with a turn.               *)
(***************************************************************************)
EvidenceIsReal == ChainIsReal /\ PathIsReal

(***************************************************************************)
(* check_facts comes to its report or refuses, however regions,            *)
(* registrations and references go round, and however the loops of a       *)
(* method nest: each search remembers where it was, and the header of a    *)
(* loop settles.                                                           *)
(***************************************************************************)
FactsEnd == <>(phase \in {"reported", "refused"})
=============================================================================
