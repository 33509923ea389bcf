--------------------------- MODULE Interpretation ---------------------------
(***************************************************************************)
(* One recording on its way from the Pi's client to the PC and back to the *)
(* outcome the operation cycle acts on: HttpInterpretationClient, the      *)
(* audio route of the PC's server, AudioInterpretationPipeline with its    *)
(* mapper and catalog match, PcResponseInterpreter and OperationValidator. *)
(*                                                                         *)
(* The PC goes on working after the client gave up.  Each side read its    *)
(* own copy of the catalog at its start.  What the speech and language     *)
(* services say is arbitrary; only the shape of a draft is told apart, a   *)
(* value of any other type being Other.  A product given as a display      *)
(* string is the description that has only a name.                         *)
(***************************************************************************)
EXTENDS ProductCatalog

CONSTANTS Files,         \* catalog files either side may have read
          Blank,         \* texts with no visible character
          Quantities,    \* integers the model may say
          Other,         \* a value of another type or vocabulary
          Nothing,       \* None
          OtherPayloads  \* payloads of a PC that is not this version

ASSUME InterpretationAssumption ==
  /\ Blank \subseteq Texts /\ NoText \notin Blank
  /\ \A t \in Blank : Normal[t] = Absent
  /\ Quantities \subseteq Int
  /\ Other \notin Int /\ Other \notin Descriptions
  /\ Other \notin {"add_stock", "remove_stock", "unit", "1", "success", "error",
                     "agregar_stock", "restar_stock"}

VARIABLES
  peer,     \* what answers at the configured URL: groq, stub, or another PC
  pcFile, piFile,
  pi,       \* ready, waiting for the response, read its envelope, done
  pc,       \* idle, received, heard, drafted, handled
  draft,    \* what the language model said
  result,   \* the ServiceResult of the audio handler
  reply,    \* the HTTP response on its way
  envelope, \* what the client made of it
  outcome   \* InterpretationOutcome

vars == <<peer, pcFile, piFile, pi, pc, draft, result, reply, envelope, outcome>>
pcVars == <<pc, draft, result, reply>>
piVars == <<pi, envelope, outcome>>
setup  == <<peer, pcFile, piFile>>

\* TransportEnvelope and ServiceResult have the same three fields, of which
\* success fills one and failure another.  A service result that is no object,
\* contradicts itself or has no payload is incomplete.
Success(payload) == [status |-> "success", code |-> Nothing, payload |-> payload]
Failure(code)    == [status |-> "error", code |-> code, payload |-> Nothing]
Incomplete       == [status |-> Other, code |-> Nothing, payload |-> Nothing]

\* A payload that is not a contract: no known version.
NoContract == [version |-> Other, operations |-> << >>, extra |-> {}]

Response(http, body, content) == [http |-> http, body |-> body, content |-> content]

Init ==
  /\ peer \in {"groq", "stub", "other"}
  /\ pcFile \in {file \in Files : PcReads(file)}
  /\ piFile \in {file \in Files : PiReads(file)}
  /\ pi = "ready" /\ pc = "idle"
  /\ draft = Nothing /\ result = Nothing /\ reply = Nothing
  /\ envelope = Nothing /\ outcome = Nothing

-----------------------------------------------------------------------------
(* The PC.                                                                 *)

\* Items and drafts the service's model may return; the strict schema it is
\* given is the service's promise and the PC checks none of it.
DraftItems ==
  [operation: {"agregar_stock", "restar_stock", Other},
   product:   Descriptions \cup {Other},
   quantity:  Quantities \cup {Other}]
NoItem == [operation |-> Other, product |-> Other, quantity |-> Other]
Drafts == [count: {0, 2}, item: {NoItem}] \cup [count: {1}, item: DraftItems]

Translation(operation) ==
  IF operation = "agregar_stock" THEN "add_stock" ELSE "remove_stock"

\* map_draft translates, or refuses what it would have to guess.
Mappable(item) ==
  /\ item.operation \in {"agregar_stock", "restar_stock"}
  /\ item.quantity \in Int
  /\ item.product \in Descriptions
  /\ item.product[Name] # NoText
  /\ \A a \in Attributes : item.product[a] \notin Blank

ContractOf(item) ==
  [version    |-> "1",
   operations |-> << [operation |-> Translation(item.operation),
                      product   |-> item.product,
                      quantity  |-> item.quantity,
                      unit      |-> "unit"] >>,
   extra      |-> {"recognized_text"}]

\* _contract_for, once the model has answered.
ServiceResult(d) ==
  IF d.count # 1
  THEN Failure("unsupported_command")
  ELSE IF ~Mappable(d.item)
  THEN Failure("contract_mapping_failure")
  ELSE IF ~PcIdentified(d.item.product, pcFile)
  THEN Failure("product_not_identified")
  ELSE Success(ContractOf(d.item))

\* The route refuses the media type, the size or the WAV, or the handler raises.
Refuse(code) ==
  /\ pc = "received"
  /\ pc' = "handled"
  /\ reply' = Response("other", "envelope", Failure(code))
  /\ UNCHANGED <<draft, result, piVars, setup>>

\* VOICESTOCK_AUDIO_PIPELINE=stub describes the audio instead.
DescribeAudio ==
  /\ peer = "stub" /\ pc = "received"
  /\ pc' = "handled"
  /\ result' = Success(NoContract)
  /\ reply' = Response("200", "envelope", Success(result'))
  /\ UNCHANGED <<draft, piVars, setup>>

Transcribe ==
  /\ peer = "groq" /\ pc = "received"
  /\ pc' = "heard"
  /\ UNCHANGED <<draft, result, reply, piVars, setup>>

Interpret(d) ==
  /\ pc = "heard"
  /\ pc' = "drafted"
  /\ draft' = d
  /\ UNCHANGED <<result, reply, piVars, setup>>

\* A TranscriptionError, a ProviderError or any other exception of either.
ServiceFails(code) ==
  /\ \/ peer = "groq" /\ pc = "received" /\ code = "transcription_failure"
     \/ pc = "heard" /\ code = "provider_failure"
  /\ pc' = "handled"
  /\ result' = Failure(code)
  /\ reply' = Response("200", "envelope", Success(result'))
  /\ UNCHANGED <<draft, piVars, setup>>

Handle ==
  /\ pc = "drafted"
  /\ pc' = "handled"
  /\ result' = ServiceResult(draft)
  /\ reply' = Response("200", "envelope", Success(result'))
  /\ UNCHANGED <<draft, piVars, setup>>

\* Another program, or a PC of another version, answers at the URL.
OtherAnswers ==
  /\ peer = "other" /\ pc = "received"
  /\ pc' = "handled"
  /\ \/ reply' = Response("200", "undecodable", Nothing)
     \/ reply' = Response("other", "other_json", Nothing)
     \/ reply' = Response("200", "envelope", Failure("handler_failure"))
     \/ \E service \in {Incomplete} \cup {Success(p) : p \in OtherPayloads} :
          reply' = Response("200", "envelope", Success(service))
  /\ UNCHANGED <<draft, result, piVars, setup>>

-----------------------------------------------------------------------------
(* The client of the Pi.                                                   *)

CannotRead ==
  /\ pi = "ready"
  /\ pi' = "read"
  /\ envelope' = Failure("audio_read_failure")
  /\ UNCHANGED <<outcome, pcVars, setup>>

Post ==
  /\ pi = "ready"
  /\ pi' = "waiting"
  /\ pc' = "received"
  /\ UNCHANGED <<envelope, outcome, draft, result, reply, setup>>

\* A timeout or a transport error of httpx, whatever the PC has done by then.
PostFails(code) ==
  /\ pi = "waiting"
  /\ pi' = "read"
  /\ envelope' = Failure(code)
  /\ UNCHANGED <<outcome, pcVars, setup>>

\* _read_envelope: success must come with 200, and only success.
Read(response) ==
  IF response.body # "envelope"
  THEN Failure(IF response.http = "200" THEN "invalid_envelope"
                                        ELSE "unexpected_status")
  ELSE IF (response.content.status = "success") # (response.http = "200")
  THEN Failure("unexpected_status")
  ELSE response.content

Receive ==
  /\ pi = "waiting" /\ pc = "handled"
  /\ pi' = "read"
  /\ envelope' = Read(reply)
  /\ UNCHANGED <<outcome, pcVars, setup>>

-----------------------------------------------------------------------------
(* The validator of the Pi.                                                *)

ContractItem(item) ==
  /\ item.operation \in {"add_stock", "remove_stock"}
  /\ item.product \in Descriptions /\ item.product[Name] # NoText
  /\ item.quantity \in Int
  /\ item.unit = "unit"

\* A mutated form: the recognized text stays in the payload and is one field
\* too many.
StructuredStrictly(payload) ==
  /\ payload.version = "1"
  /\ payload.extra = {}
  /\ Len(payload.operations) = 1
  /\ ContractItem(payload.operations[1])

\* validate_structure, after _without_recognized_text.
Structured(payload) ==
  /\ payload.version = "1"
  /\ payload.extra \subseteq {"recognized_text"}
  /\ Len(payload.operations) = 1
  /\ ContractItem(payload.operations[1])

Rejected(kind, cause) == [kind |-> kind, cause |-> cause, operation |-> Nothing]
Accepted(operation) ==
  [kind |-> "accepted", cause |-> Nothing, operation |-> operation]

\* _validate_item: the product first, then the rules that depend on it.
ValidateItem(item) ==
  IF ~Identified(item.product, piFile)
  THEN Rejected("contract_rejection", "product")
  ELSE LET product == piFile[CHOOSE i \in DOMAIN piFile :
                               Identifies(item.product, piFile, i)]
       IN IF item.quantity <= 0
          THEN Rejected("contract_rejection", "quantity")
          ELSE IF item.unit \notin product.units
          THEN Rejected("contract_rejection", "unit")
          ELSE Accepted([operation |-> item.operation, product |-> product.id,
                         quantity |-> item.quantity, unit |-> item.unit])

\* PcResponseInterpreter.interpret: no failure reaches the validator.
OutcomeOf(e) ==
  LET service == e.payload
  IN IF e.status = "error"
     THEN Rejected("transport_error", e.code)
     ELSE IF service.status = "error"
     THEN Rejected("service_error", service.code)
     ELSE IF service.status # "success"
     THEN Rejected("service_error", "incomplete")
     ELSE IF ~Structured(service.payload)
     THEN Rejected("contract_rejection", "structure")
     ELSE ValidateItem(service.payload.operations[1])

Classify ==
  /\ pi = "read"
  /\ pi' = "done"
  /\ outcome' = OutcomeOf(envelope)
  /\ UNCHANGED <<envelope, pcVars, setup>>

-----------------------------------------------------------------------------

PcStep ==
  \/ \E code \in {"refused", "handler_failure"} : Refuse(code)
  \/ DescribeAudio \/ Transcribe \/ Handle \/ OtherAnswers
  \/ \E d \in Drafts : Interpret(d)
  \/ \E code \in {"transcription_failure", "provider_failure"} : ServiceFails(code)

PiStep ==
  \/ CannotRead \/ Post \/ Receive \/ Classify
  \/ \E code \in {"timeout", "connection_failed"} : PostFails(code)

Next == PcStep \/ PiStep

Spec == Init /\ [][Next]_vars

-----------------------------------------------------------------------------
(* Properties.                                                             *)

\* The rows both sides match against are the same (the PC ignores the rest).
SameRows ==
  /\ DOMAIN pcFile = DOMAIN piFile
  /\ \A i \in DOMAIN pcFile : pcFile[i].row = piFile[i].row

\* What the operator is shown is what the PC understood: the product is the
\* only one of the Pi's catalog with every attribute that was said, the
\* quantity is positive and unchanged, the direction is the one said, and the
\* payload was one version-1 operation.  (pipeline.py, mapper.py, validator.py
\* and products.py together: no step completes, picks or drops anything.)
AcceptedIsMeant ==
  pi = "done" /\ outcome.kind = "accepted" =>
    LET payload == envelope.payload.payload
        said    == payload.operations[1]
        shown   == outcome.operation
        Matches(i) == \A a \in Attributes :
                        Normal[said.product[a]] \in {Absent, Normal[piFile[i].row[a]]}
    IN /\ payload.version = "1" /\ Len(payload.operations) = 1
       /\ shown.quantity = said.quantity /\ shown.quantity > 0
       /\ shown.operation = said.operation
       /\ \E i \in DOMAIN piFile :
            /\ shown.product = piFile[i].id /\ shown.unit \in piFile[i].units
            /\ \A j \in DOMAIN piFile : Matches(j) <=> j = i
       /\ peer = "groq" =>
            /\ draft.count = 1
            /\ said.product = draft.item.product
            /\ said.quantity = draft.item.quantity
            /\ (said.operation = "add_stock") <=> (draft.item.operation = "agregar_stock")

\* A rejection is of the stage that caused it: a transport error is never what
\* a success of the server became, a service error is one the PC reported, and
\* after the production pipeline there is a contract rejection only when
\* the two catalogs differ, the quantity is not positive or the product is not
\* counted in units.  (response.py and the duplicated match of catalog.py and
\* products.py: a description the PC found unique the Pi does not refuse.)
RejectionHasItsCause ==
  pi = "done" =>
    /\ outcome.kind = "transport_error" =>
         \/ outcome.cause \in {"audio_read_failure", "timeout", "connection_failed"}
         \/ reply.body # "envelope" \/ reply.content.status = "error"
    /\ outcome.kind = "service_error" =>
         peer = "other" \/ (peer = "groq" /\ result.status = "error")
    /\ outcome.kind = "contract_rejection" /\ peer = "groq" =>
         \/ ~SameRows
         \/ draft.item.quantity <= 0
         \/ \E i \in DOMAIN piFile :
              Identifies(draft.item.product, piFile, i) /\ "unit" \notin piFile[i].units
=============================================================================
