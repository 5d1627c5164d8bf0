------------------------ MODULE ClassificationProofs ------------------------
(***************************************************************************)
(* Proofs about one call of the classifier, for any number of retries.     *)
(***************************************************************************)
EXTENDS Classification, TLAPS

Phases == {"trying", "answered", "returned", "raised"}

\* What the phase tells of the answer and the event.
AnswerInv ==
    /\ phase \in Phases
    /\ answer \in Answers
    /\ phase = "trying" => answer = NoAnswer
    /\ phase = "raised" => answer = NoAnswer \/ ~Valid(answer)
    /\ phase = "returned" => Valid(answer) /\ event = Typed(answer)

-----------------------------------------------------------------------------
(***************************************************************************)
(* The union, its validation and the prompt.                               *)
(***************************************************************************)

LEMMA NoAnswerType == NoAnswer \in Answers
<1>1. NoAnswer \in [shape : Shapes, state : SomeState,
                    missing : {{}} \cup {{f} : f \in Fields},
                    wrong : {{}} \cup {{f} : f \in Fields},
                    stray : BOOLEAN]
  BY DEF NoAnswer, Shapes, SomeState
<1>2. NoAnswer.missing = {} /\ NoAnswer.wrong = {}
  BY DEF NoAnswer
<1> QED
  BY <1>1, <1>2 DEF Answers

\* The classes of events.py divide the states as the lists of schemas.py do.
LEMMA ClassesMatchStates ==
    ASSUME NEW s \in CanonicalStates
    PROVE  /\ s \in ShipmentStates <=> PayloadBase(s) = "_ShipmentPayloadBase"
           /\ s \in InvoiceStates <=> PayloadBase(s) = "_InvoicePayloadBase"
           /\ s = "UNCLASSIFIED" <=> PayloadBase(s) = "_PayloadBase"
<1>1. CASE s \in ShipmentStates
  BY <1>1 DEF ShipmentStates, InvoiceStates, PayloadBase
<1>2. CASE s \in InvoiceStates
  BY <1>2 DEF ShipmentStates, InvoiceStates, PayloadBase
<1>3. CASE s = "UNCLASSIFIED"
  BY <1>3 DEF ShipmentStates, InvoiceStates, PayloadBase
<1> QED
  BY <1>1, <1>2, <1>3 DEF CanonicalStates

\* The key field of an entity is required of every class that has one.
LEMMA KeyIsRequired ==
    ASSUME NEW s \in CanonicalStates \ {"UNCLASSIFIED"}
    PROVE  KeyField(s) \in Required(s)
BY ClassesMatchStates
   DEF CanonicalStates, KeyField, Required, ShipmentBase, InvoiceBase

\* The prompt demands of each state what its class requires.
LEMMA PromptDemandsRequired ==
    ASSUME NEW s \in CanonicalStates
    PROVE  Envelope \cup Required(s) \subseteq Prompted(s)
<1>1. CASE s \in ShipmentStates
  <2>1. Required(s) = ShipmentBase
    BY <1>1, ClassesMatchStates DEF Required
  <2> QED
    BY <1>1, <2>1 DEF Envelope, Prompted, ShipmentBase, ShipmentStates
<1>2. CASE s \in InvoiceStates
  BY <1>2, ClassesMatchStates
     DEF Envelope, Required, Prompted, InvoiceBase, InvoiceOwn, InvoiceStates,
         ShipmentStates
<1>3. CASE s = "UNCLASSIFIED"
  BY <1>3, ClassesMatchStates
     DEF Envelope, Required, Prompted, InvoiceStates, ShipmentStates
<1> QED
  BY <1>1, <1>2, <1>3 DEF CanonicalStates

-----------------------------------------------------------------------------

LEMMA AnswerInvInit == Init => AnswerInv
BY NoAnswerType DEF Init, AnswerInv, Phases

LEMMA AnswerInvStep == AnswerInv /\ [Next]_call => AnswerInv'
<1> SUFFICES ASSUME AnswerInv, [Next]_call
             PROVE  AnswerInv'
  OBVIOUS
<1>1. CASE TryFails \/ TryRefused
  BY <1>1 DEF AnswerInv, TryFails, TryRefused, Phases
<1>2. CASE TryAnswers
  BY <1>2 DEF AnswerInv, TryAnswers, Phases
<1>3. CASE Accept
  BY <1>3 DEF AnswerInv, Accept, Phases, Valid, Typed, Key
<1>4. CASE Reject
  BY <1>4 DEF AnswerInv, Reject, Phases, Valid
<1>5. CASE UNCHANGED call
  BY <1>5 DEF AnswerInv, call
<1> QED
  BY <1>1, <1>2, <1>3, <1>4, <1>5 DEF Next, Step

LEMMA AnswerInvAlways == Spec => []AnswerInv
BY AnswerInvInit, AnswerInvStep, PTL DEF Spec

\* Whatever the model sends: what classify returns has the table of its state
\* and, if it is an entity's, the entity's key.
THEOREM AlwaysTableAndKey == Spec => []EventsHaveTableAndKey
<1>1. AnswerInv => EventsHaveTableAndKey
  <2> SUFFICES ASSUME AnswerInv, phase = "returned",
                      event.state # "UNCLASSIFIED"
               PROVE  /\ event.state \in ShipmentStates => event.table = "shipments"
                      /\ event.state \in InvoiceStates => event.table = "invoices"
                      /\ event.table # "PersistError"
                      /\ event.key = "given"
    BY DEF EventsHaveTableAndKey
  <2> DEFINE s == answer.state
  <2>1. /\ s \in CanonicalStates
        /\ (Envelope \cup Required(s)) \cap answer.missing = {}
    BY DEF AnswerInv, Valid
  <2>2. event.state = s /\ event.table = TableOf(s) /\ event.key = Key(answer)
    BY DEF AnswerInv, Typed
  <2>3. s \in CanonicalStates \ {"UNCLASSIFIED"}
    BY <2>1, <2>2
  <2>4. /\ s \in ShipmentStates <=> PayloadBase(s) = "_ShipmentPayloadBase"
        /\ s \in InvoiceStates <=> PayloadBase(s) = "_InvoicePayloadBase"
        /\ PayloadBase(s) # "_PayloadBase"
    BY <2>3, ClassesMatchStates
  <2>5. TableOf(s) = IF s \in ShipmentStates THEN "shipments" ELSE "invoices"
    BY <2>3, <2>4 DEF TableOf, CanonicalStates
  <2>6. Key(answer) = "given"
    BY <2>1, <2>3, <2>4, KeyIsRequired DEF Key, Modelled
  <2>7. ~(s \in ShipmentStates /\ s \in InvoiceStates)
    BY <2>4
  <2> QED
    BY <2>2, <2>5, <2>6, <2>7
<1> QED
  BY <1>1, AnswerInvAlways, PTL

\* A model that sends what the prompt demands is never refused for its answer.
THEOREM PromptAlwaysSuffices == Spec => []PromptSuffices
<1>1. AnswerInv => PromptSuffices
  <2> SUFFICES ASSUME AnswerInv, ~Valid(answer), Obeys(answer),
                      answer.shape = "nested"
               PROVE  FALSE
    BY DEF PromptSuffices, Refused, AnswerInv
  <2>1. (Envelope \cup Required(answer.state)) \cap answer.missing = {}
    BY PromptDemandsRequired DEF Obeys
  <2> QED
    BY <2>1 DEF Valid, Obeys
<1> QED
  BY <1>1, AnswerInvAlways, PTL
=============================================================================
