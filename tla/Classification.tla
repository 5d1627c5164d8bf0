--------------------------- MODULE Classification ---------------------------
(***************************************************************************)
(* One call of Classifier.classify (src/app/llm/classifier.py): the tries  *)
(* of the LLM client (src/app/llm/__init__.py), the answer, its validation *)
(* against the typed event union (src/app/core/events.py), and what        *)
(* persist_normalized (src/app/services/normalization.py) reads off the    *)
(* typed event.                                                            *)
(*                                                                         *)
(* The model is a noisy upstream: any field may be missing or wrong, the   *)
(* object may have another shape.  A field is a name; of its value it      *)
(* matters only whether the schema takes it.  "optional" stands for all    *)
(* the fields with a default.  Unknown fields are ignored by the classes   *)
(* and left out here, but for those of a line item, which forbids them.    *)
(*                                                                         *)
(* Time is left out: `timeout=30` bounds each operation of the HTTP        *)
(* client, not a try, so the code sets no bound on a call.                 *)
(***************************************************************************)
EXTENDS Integers, FiniteSets

CONSTANT MaxRetries   \* max_retries of the LLM client

ASSUME MaxRetriesAssumption == MaxRetries \in Nat

-----------------------------------------------------------------------------
(***************************************************************************)
(* The canonical states of schemas.py, and the payload classes of          *)
(* events.py with their fields.                                            *)
(***************************************************************************)
ShipmentStates == {"PICKED_UP", "IN_TRANSIT", "OUT_FOR_DELIVERY", "DELIVERED"}
InvoiceStates == {"ISSUED", "PAID", "VOIDED", "REFUNDED"}
CanonicalStates == ShipmentStates \cup InvoiceStates \cup {"UNCLASSIFIED"}

\* The base class of the variant whose Literal is the state.
PayloadBase(s) ==
    CASE s \in {"PICKED_UP", "IN_TRANSIT", "OUT_FOR_DELIVERY", "DELIVERED"} ->
            "_ShipmentPayloadBase"
      [] s \in {"ISSUED", "PAID", "VOIDED", "REFUNDED"} -> "_InvoicePayloadBase"
      [] OTHER -> "_PayloadBase"

Envelope == {"vendor", "event_at"}

ShipmentBase == {"vendor_milestone", "transport_doc_number"}
InvoiceBase == {"vendor_milestone", "document_reference", "currency"}

InvoiceOwn(s) ==
    CASE s = "ISSUED" -> {"amount", "issued_at"}
      [] s = "PAID" -> {"amount_paid", "settled_at"}
      [] s = "VOIDED" -> {"voided_at"}
      [] s = "REFUNDED" -> {"refund_amount", "refunded_at"}

\* Mutation of Required: a field that the prompt calls optional has no default.
RequiredAndOptional(s) ==
    CASE PayloadBase(s) = "_ShipmentPayloadBase" -> ShipmentBase \cup {"optional"}
      [] PayloadBase(s) = "_InvoicePayloadBase" -> InvoiceBase \cup InvoiceOwn(s)
      [] OTHER -> {"reason"}

Required(s) ==
    CASE PayloadBase(s) = "_ShipmentPayloadBase" -> ShipmentBase
      [] PayloadBase(s) = "_InvoicePayloadBase" -> InvoiceBase \cup InvoiceOwn(s)
      [] OTHER -> {"reason"}

Modelled(s) == Envelope \cup Required(s) \cup {"optional"}
Fields == UNION {Modelled(s) : s \in CanonicalStates}

(***************************************************************************)
(* Answers.  "nested" is the envelope around a payload that the tool's     *)
(* schema describes; "other" is any other shape: the flat object of the    *)
(* prompt, a payload sent as a string, no tool call.  `stray` says that a  *)
(* line item has a field of its own.  Bound: one field is missing or       *)
(* wrong, and only where the shape is right.                               *)
(***************************************************************************)
Shapes == {"nested", "other"}

\* A state that the model invented counts as one that no class has.
SomeState == CanonicalStates \cup {"ANY_OTHER"}

Answers ==
    {a \in [shape : Shapes, state : SomeState,
            missing : {{}} \cup {{f} : f \in Fields},
            wrong : {{}} \cup {{f} : f \in Fields},
            stray : BOOLEAN] :
        /\ a.missing = {} \/ a.wrong = {}
        /\ a.shape # "nested" => a.missing \cup a.wrong = {}}

\* NormalizedEvent.model_validate: the discriminator, the required fields, the
\* constraints on every field of the class, and extra="forbid" of line items.
Valid(a) ==
    /\ a.shape = "nested"
    /\ a.state \in CanonicalStates
    /\ (Envelope \cup Required(a.state)) \cap a.missing = {}
    /\ Modelled(a.state) \cap (a.wrong \ a.missing) = {}
    /\ a.state = "ISSUED" => ~a.stray

-----------------------------------------------------------------------------
(***************************************************************************)
(* What persist_normalized reads off a valid answer: UNCLASSIFIED ends it  *)
(* early; otherwise the base class of the payload decides the tables, by   *)
(* isinstance, and external_ref is the key field of the base class.        *)
(***************************************************************************)
TableOf(s) ==
    CASE PayloadBase(s) = "_ShipmentPayloadBase" -> "shipments"
      [] PayloadBase(s) = "_InvoicePayloadBase" -> "invoices"
      [] OTHER -> "PersistError"

\* Mutation of KeyField: the accessor knows only one kind of entity.
KeyFieldOfInvoice(s) == "document_reference"

KeyField(s) ==
    IF PayloadBase(s) = "_ShipmentPayloadBase"
    THEN "transport_doc_number" ELSE "document_reference"

\* external_ref: of a class or an answer without the field there is no key.
Key(a) ==
    IF /\ PayloadBase(a.state) # "_PayloadBase"
       /\ KeyField(a.state) \in Modelled(a.state) \ a.missing
    THEN "given" ELSE "None"

Typed(a) == [state |-> a.state, table |-> TableOf(a.state), key |-> Key(a)]

NoAnswer == [shape |-> "other", state |-> "ANY_OTHER", missing |-> {},
             wrong |-> {}, stray |-> FALSE]
NoEvent == [state |-> "none", table |-> "none", key |-> "None"]

-----------------------------------------------------------------------------
VARIABLES
    phase,      \* trying, answered, returned, raised
    tries,      \* tries so far, the current one included
    answer,     \* what the model sent
    event       \* what classify returns

call == <<phase, tries, answer, event>>

Init ==
    /\ phase = "trying" /\ tries = 1
    /\ answer = NoAnswer /\ event = NoEvent

MayRetry == tries <= MaxRetries

\* A try ends without answer: no connection, overload, a server error, a
\* timeout.  The client pauses and tries again, or gives up.
TryFails ==
    /\ phase = "trying"
    /\ phase' = IF MayRetry THEN "trying" ELSE "raised"
    /\ tries' = IF MayRetry THEN tries + 1 ELSE tries
    /\ UNCHANGED <<answer, event>>

\* An error that is not retried: a bad key, a request that is too large.
TryRefused ==
    /\ phase = "trying"
    /\ phase' = "raised"
    /\ UNCHANGED <<tries, answer, event>>

TryAnswers ==
    /\ phase = "trying"
    /\ answer' \in Answers
    /\ phase' = "answered"
    /\ UNCHANGED <<tries, event>>

\* The parser of with_structured_output, or model_validate.
Accept ==
    /\ phase = "answered"
    /\ Valid(answer)
    /\ event' = Typed(answer)
    /\ phase' = "returned"
    /\ UNCHANGED <<tries, answer>>

\* Mutation of Reject: the model is asked again, in a call of its own.
RejectAndAskAgain ==
    /\ phase = "answered"
    /\ ~Valid(answer)
    /\ phase' = "trying" /\ tries' = 1
    /\ UNCHANGED <<answer, event>>

Reject ==
    /\ phase = "answered"
    /\ ~Valid(answer)
    /\ phase' = "raised"
    /\ UNCHANGED <<tries, answer, event>>

Ended == phase \in {"returned", "raised"}

Step == TryFails \/ TryRefused \/ TryAnswers \/ Accept \/ Reject

Next == Step \/ (Ended /\ UNCHANGED call)

Spec == Init /\ [][Next]_call

\* A try returns or fails in the end, and the event loop goes on.
FairSpec == Spec /\ WF_call(Step)

-----------------------------------------------------------------------------
(***************************************************************************)
(* Properties.                                                             *)
(***************************************************************************)

\* What classify returns has a table and a key: the dispatch on the payload's
\* class finds the table that the state belongs to by schemas.py, and the
\* accessor of the key finds it filled in, so that persist_normalized does not
\* raise its PersistError and no NULL key reaches the upsert.
EventsHaveTableAndKey ==
    phase = "returned" =>
        \/ event.state = "UNCLASSIFIED"
        \/ /\ event.state \in ShipmentStates => event.table = "shipments"
           /\ event.state \in InvoiceStates => event.table = "invoices"
           /\ event.table # "PersistError"
           /\ event.key = "given"

\* What the prompt demands for each state.
Prompted(s) ==
    {"vendor", "event_at"} \cup
    CASE s \in ShipmentStates -> {"vendor_milestone", "transport_doc_number"}
      [] s = "ISSUED" -> {"vendor_milestone", "document_reference", "currency",
                          "amount", "issued_at"}
      [] s = "PAID" -> {"vendor_milestone", "document_reference", "currency",
                        "amount_paid", "settled_at"}
      [] s = "VOIDED" -> {"vendor_milestone", "document_reference", "currency",
                          "voided_at"}
      [] s = "REFUNDED" -> {"vendor_milestone", "document_reference", "currency",
                            "refund_amount", "refunded_at"}
      [] OTHER -> {"reason"}

\* Everything the prompt demands is there, nothing is wrong, and line items
\* have the three fields the prompt lists.
Obeys(a) ==
    /\ a.state \in CanonicalStates
    /\ Prompted(a.state) \cap a.missing = {}
    /\ a.wrong = {} /\ ~a.stray

Refused(a) == phase = "raised" /\ answer = a /\ a # NoAnswer

\* The prompt demands enough: a model that obeys it and keeps to the tool's
\* shape is never refused, whatever else it leaves out.
PromptSuffices ==
    Refused(answer) => ~(Obeys(answer) /\ answer.shape = "nested")

\* The call ends, however the tries go.
CallEnds == <>Ended
=============================================================================
