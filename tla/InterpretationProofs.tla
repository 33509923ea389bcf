------------------------ MODULE InterpretationProofs ------------------------
(***************************************************************************)
(* What the matching rule of ADR-0006 guarantees for every catalog and     *)
(* description, and what the outcome of a recording says for every pair of *)
(* catalogs, every draft of the model and every answer of another program. *)
(***************************************************************************)
EXTENDS Interpretation, TLAPS

-----------------------------------------------------------------------------
(* The matching rule.                                                      *)

\* A product the Pi has read is never covered by another one: no other product
\* has all of its attributes.  (_check_catalog of products.py)
THEOREM CheckedCatalogIsUnambiguous ==
  ASSUME NEW file, PiReads(file),
         NEW i \in DOMAIN file, NEW j \in DOMAIN file, i # j
  PROVE  ~Agrees(file[j].row, file[i].row)
  BY DEF PiReads, Identifies, Candidates

\* Saying more narrows the candidates.
LEMMA MoreSaidNarrows ==
  ASSUME NEW file, NEW brief, NEW full,
         \A a \in Wanted(brief) : Normal[full[a]] = Normal[brief[a]]
  PROVE  Candidates(full, file) \subseteq Candidates(brief, file)
<1>1. Wanted(brief) \subseteq Wanted(full)
  BY DEF Wanted
<1>2. \A i \in DOMAIN file : Agrees(file[i].row, full) => Agrees(file[i].row, brief)
  BY <1>1 DEF Agrees
<1> QED
  BY <1>2 DEF Candidates

\* A description that is identified keeps its product when more is said about
\* it: it may become unknown, but it never becomes another product.
\* (match_products of products.py, match_description of catalog.py)
THEOREM MoreSaidSameProduct ==
  ASSUME NEW file, NEW brief, NEW full,
         \A a \in Wanted(brief) : Normal[full[a]] = Normal[brief[a]],
         NEW i, Identifies(brief, file, i), NEW j, Identifies(full, file, j)
  PROVE  i = j
  BY MoreSaidNarrows DEF Identifies

\* Spellings with the same words are the same description.
THEOREM SpellingDoesNotMatter ==
  ASSUME NEW file, NEW one, NEW two,
         \A a \in Attributes : Normal[one[a]] = Normal[two[a]], NEW i
  PROVE  Identifies(one, file, i) <=> Identifies(two, file, i)
<1>1. Wanted(one) = Wanted(two)
  BY DEF Wanted
<1>2. \A row : Agrees(row, one) <=> Agrees(row, two)
  BY <1>1 DEF Agrees, Wanted
<1>3. Candidates(one, file) = Candidates(two, file)
  BY <1>2 DEF Candidates
<1> QED
  BY <1>1, <1>3 DEF Identifies, Insufficient

\* The two implementations of the match agree: the PC finds a description unique in
\* its file exactly when the Pi identifies it in a file with the same rows, whatever
\* its ids and units.  (match_description of catalog.py, match_products of products.py)
THEOREM SameRowsSameVerdict ==
  ASSUME NEW one, NEW two, DOMAIN one = DOMAIN two,
         \A i \in DOMAIN one : one[i].row = two[i].row, NEW description
  PROVE  PcIdentified(description, one) <=> Identified(description, two)
<1>1. PcMatches(description, one) = Candidates(description, two)
  BY DEF PcMatches, Candidates, Agrees, Wanted
<1>2. Normal[description[Name]] # Absent <=> ~Insufficient(description)
  BY CatalogAssumption DEF Insufficient, Wanted
<1> QED
  BY <1>1, <1>2 DEF PcIdentified, Identified, Identifies

-----------------------------------------------------------------------------
(* The outcome of a recording.                                             *)

ClientCodes == {"audio_read_failure", "timeout", "connection_failed"}
ServerCodes == {"refused", "handler_failure"}

\* Where the PC is, and what its handler can have made of the request.
StageInv ==
  /\ pi = "ready" => pc = "idle"
  /\ pc \in {"heard", "drafted"} => peer = "groq"
  /\ pc = "drafted" => draft \in Drafts

GroqResult ==
  \/ \E code : result = Failure(code)
  \/ draft \in Drafts /\ result = ServiceResult(draft)

ReplyInv ==
  pc = "handled" =>
    \/ \E code \in ServerCodes : reply = Response("other", "envelope", Failure(code))
    \/ /\ peer \in {"groq", "stub"}
       /\ reply = Response("200", "envelope", Success(result))
       /\ peer = "groq" => GroqResult
       /\ peer = "stub" => result = Success(NoContract)
    \/ /\ peer = "other"
       /\ \/ reply.body # "envelope"
          \/ reply.http = "200" /\ reply.content.status \in {"success", "error"}

\* The client's envelope is its own failure or what it read.
EnvelopeInv ==
  pi \in {"read", "done"} =>
    \/ \E code \in ClientCodes : envelope = Failure(code)
    \/ pc = "handled" /\ envelope = Read(reply)

OutcomeInv == pi = "done" => outcome = OutcomeOf(envelope)

IInv == peer \in {"groq", "stub", "other"} /\ StageInv /\ ReplyInv /\ EnvelopeInv /\ OutcomeInv

-----------------------------------------------------------------------------

LEMMA IInit == Init => IInv
  BY DEF Init, IInv, StageInv, ReplyInv, EnvelopeInv, OutcomeInv

\* The steps of the PC leave what the Pi has read alone.
LEMMA PcKeepsIInv == IInv /\ PcStep => IInv'
<1>. SUFFICES ASSUME IInv, PcStep PROVE IInv'
  OBVIOUS
<1>. USE DEF IInv, pcVars, piVars, setup
<1>1. /\ pc \in {"received", "heard", "drafted"}
      /\ UNCHANGED <<pi, envelope, outcome, peer, pcFile, piFile>>
  BY DEF PcStep, Refuse, DescribeAudio, Transcribe, Handle, OtherAnswers,
         Interpret, ServiceFails
<1>2. EnvelopeInv' /\ OutcomeInv'
  BY <1>1 DEF EnvelopeInv, OutcomeInv, OutcomeOf, ValidateItem
<1>3. ASSUME NEW code \in ServerCodes, Refuse(code) PROVE StageInv' /\ ReplyInv'
  BY <1>1, <1>3 DEF Refuse, StageInv, ReplyInv, Response
<1>4. CASE DescribeAudio
  <2>1. StageInv' /\ ReplyInv'
    BY <1>1, <1>4 DEF DescribeAudio, StageInv, ReplyInv
  <2> QED BY <1>1, <1>2, <2>1
<1>5. CASE Transcribe
  <2>1. StageInv' /\ ReplyInv'
    BY <1>1, <1>5 DEF Transcribe, StageInv, ReplyInv
  <2> QED BY <1>1, <1>2, <2>1
<1>6. CASE Handle
  <2>1. draft \in Drafts /\ peer = "groq"
    BY <1>6 DEF Handle, StageInv
  <2>2. result' = ServiceResult(draft)' /\ draft' = draft
    BY <1>1, <1>6 DEF Handle, ServiceResult
  <2>3. StageInv' /\ ReplyInv'
    BY <1>1, <1>6, <2>1, <2>2 DEF Handle, StageInv, ReplyInv, GroqResult
  <2> QED BY <1>1, <1>2, <2>3
<1>7. CASE OtherAnswers
  <2>1. peer' = "other" /\ pc' = "handled" /\ pi' # "ready"
    BY <1>1, <1>7 DEF OtherAnswers, StageInv
  <2>2. \/ reply'.body # "envelope"
        \/ reply'.http = "200" /\ reply'.content.status \in {"success", "error"}
    <3>1. CASE \/ reply' = Response("200", "undecodable", Nothing)
               \/ reply' = Response("other", "other_json", Nothing)
      BY <3>1 DEF Response
    <3>2. CASE reply' = Response("200", "envelope", Failure("handler_failure"))
      BY <3>2 DEF Response, Failure
    <3>3. ASSUME NEW service, reply' = Response("200", "envelope", Success(service))
          PROVE  reply'.http = "200" /\ reply'.content.status \in {"success", "error"}
      BY <3>3 DEF Response, Success
    <3> QED BY <1>7, <3>1, <3>2, <3>3 DEF OtherAnswers
  <2>3. StageInv' /\ ReplyInv'
    BY <2>1, <2>2 DEF StageInv, ReplyInv
  <2> QED BY <1>1, <1>2, <2>3
<1>8. ASSUME NEW d \in Drafts, Interpret(d) PROVE StageInv' /\ ReplyInv'
  BY <1>1, <1>8 DEF Interpret, StageInv, ReplyInv
<1>9. ASSUME NEW code, ServiceFails(code) PROVE StageInv' /\ ReplyInv'
  BY <1>1, <1>9 DEF ServiceFails, StageInv, ReplyInv, GroqResult
<1> QED
  BY <1>1, <1>2, <1>3, <1>4, <1>5, <1>6, <1>7, <1>8, <1>9 DEF PcStep, ServerCodes

LEMMA PiKeepsIInv == IInv /\ PiStep => IInv'
<1>. SUFFICES ASSUME IInv, PiStep PROVE IInv'
  OBVIOUS
<1>. USE DEF IInv, pcVars, piVars, setup
<1>1. UNCHANGED setup /\ UNCHANGED <<draft, result, reply>>
  BY DEF PiStep, CannotRead, Post, PostFails, Receive, Classify
<1>2. CASE Post
  <2>1. StageInv' /\ ReplyInv'
    BY <1>2 DEF Post, StageInv, ReplyInv
  <2>2. EnvelopeInv' /\ OutcomeInv'
    BY <1>2 DEF Post, EnvelopeInv, OutcomeInv
  <2> QED BY <1>1, <2>1, <2>2
<1>3. CASE ~Post
  <2>1. pc' = pc /\ pi' # "ready"
    BY <1>3 DEF PiStep, CannotRead, PostFails, Receive, Classify
  <2>2. StageInv' /\ ReplyInv'
    BY <1>1, <2>1 DEF StageInv, ReplyInv, GroqResult, ServiceResult
  <2>3. CASE CannotRead
    BY <1>1, <2>2, <2>3 DEF CannotRead, EnvelopeInv, OutcomeInv, ClientCodes
  <2>4. ASSUME NEW code \in {"timeout", "connection_failed"}, PostFails(code)
        PROVE  EnvelopeInv' /\ OutcomeInv'
    BY <2>4 DEF PostFails, EnvelopeInv, OutcomeInv, ClientCodes
  <2>5. CASE Receive
    BY <1>1, <2>2, <2>5 DEF Receive, EnvelopeInv, OutcomeInv
  <2>6. CASE Classify
    <3>1. EnvelopeInv'
      BY <1>1, <2>6 DEF Classify, EnvelopeInv
    <3>2. OutcomeInv'
      BY <1>1, <2>6 DEF Classify, OutcomeInv, OutcomeOf, ValidateItem
    <3> QED BY <1>1, <2>2, <3>1, <3>2
  <2> QED
    BY <1>1, <1>3, <2>2, <2>3, <2>4, <2>5, <2>6 DEF PiStep
<1> QED
  BY <1>2, <1>3

\* The strengthened invariant is inductive.
THEOREM Inductive == Spec => []IInv
<1>1. IInv /\ UNCHANGED vars => IInv'
  BY DEF vars, IInv, StageInv, ReplyInv, GroqResult, ServiceResult, EnvelopeInv,
         OutcomeInv, OutcomeOf, ValidateItem
<1> QED
  BY IInit, PcKeepsIInv, PiKeepsIInv, <1>1, PTL DEF Spec, Next

-----------------------------------------------------------------------------
(* What an outcome is the outcome of.                                      *)

\* The outcomes the validator can give to an item.
LEMMA ItemVerdict ==
  ASSUME NEW item, outcome = ValidateItem(item)
  PROVE  \/ /\ outcome = Rejected("contract_rejection", "product")
            /\ ~Identified(item.product, piFile)
         \/ \E i \in DOMAIN piFile :
              /\ Identifies(item.product, piFile, i)
              /\ \/ /\ outcome = Rejected("contract_rejection", "quantity")
                    /\ item.quantity <= 0
                 \/ /\ outcome = Rejected("contract_rejection", "unit")
                    /\ item.unit \notin piFile[i].units
                 \/ /\ ~(item.quantity <= 0) /\ item.unit \in piFile[i].units
                    /\ outcome = Accepted([operation |-> item.operation,
                                          product   |-> piFile[i].id,
                                          quantity  |-> item.quantity,
                                          unit      |-> item.unit])
<1>1. CASE ~Identified(item.product, piFile)
  BY <1>1 DEF ValidateItem
<1>2. CASE Identified(item.product, piFile)
  <2>. DEFINE i == CHOOSE i \in DOMAIN piFile : Identifies(item.product, piFile, i)
  <2>1. i \in DOMAIN piFile /\ Identifies(item.product, piFile, i)
    BY <1>2 DEF Identified
  <2>. HIDE DEF i
  <2>2. outcome = IF item.quantity <= 0
                  THEN Rejected("contract_rejection", "quantity")
                  ELSE IF item.unit \notin piFile[i].units
                  THEN Rejected("contract_rejection", "unit")
                  ELSE Accepted([operation |-> item.operation,
                                 product   |-> piFile[i].id,
                                 quantity  |-> item.quantity,
                                 unit      |-> item.unit])
    BY <1>2 DEF ValidateItem, i
  <2> QED BY <2>1, <2>2
<1> QED BY <1>1, <1>2

\* An outcome that is neither the transport's nor the PC's is the validator's
\* verdict on a version-1 contract of one item, or on its structure.
LEMMA PayloadVerdict ==
  ASSUME pi = "done", OutcomeInv
  PROVE  LET payload == envelope.payload.payload
         IN \/ envelope.status = "error" /\ outcome = Rejected("transport_error", envelope.code)
            \/ outcome.kind = "service_error" /\ envelope.status # "error"
                 /\ envelope.payload.status # "success"
            \/ /\ outcome = Rejected("contract_rejection", "structure")
               /\ envelope.status # "error" /\ envelope.payload.status = "success"
               /\ ~Structured(payload)
            \/ /\ outcome = ValidateItem(payload.operations[1])
               /\ envelope.status # "error" /\ envelope.payload.status = "success"
               /\ Structured(payload)
  BY DEF OutcomeInv, OutcomeOf, Rejected

\* What the Pi read from the production pipeline is the pipeline's result.
LEMMA ReadFromPipeline ==
  ASSUME IInv, pi = "done", peer \in {"groq", "stub"}, envelope.status # "error"
  PROVE  envelope.payload = result /\ (peer = "groq" => GroqResult)
                                  /\ (peer = "stub" => result = Success(NoContract))
<1>1. pc = "handled" /\ envelope = Read(reply)
  BY DEF IInv, EnvelopeInv, Failure
<1>2. CASE \E code \in ServerCodes : reply = Response("other", "envelope", Failure(code))
  <2>1. envelope.status = "error"
    BY <1>1, <1>2 DEF Read, Response, Failure
  <2> QED BY <2>1
<1>3. CASE /\ reply = Response("200", "envelope", Success(result))
           /\ peer = "groq" => GroqResult
           /\ peer = "stub" => result = Success(NoContract)
  BY <1>1, <1>3 DEF Read, Response, Success
<1> QED BY <1>1, <1>2, <1>3 DEF IInv, ReplyInv

\* A contract of the pipeline carries a draft it could translate, whose product
\* the PC's catalog identifies.
LEMMA ContractFromDraft ==
  ASSUME GroqResult, result.status # "error"
  PROVE  /\ draft.count = 1
         /\ Mappable(draft.item) /\ PcIdentified(draft.item.product, pcFile)
         /\ result = Success(ContractOf(draft.item))
<1>1. result = ServiceResult(draft)
  BY DEF GroqResult, Failure
<1> QED BY <1>1 DEF ServiceResult, Failure

-----------------------------------------------------------------------------
(* The safety properties.                                                  *)

LEMMA MatchesIsAgrees ==
  ASSUME NEW description \in Descriptions, NEW row
  PROVE  (\A a \in Attributes : Normal[description[a]] \in {Absent, Normal[row[a]]})
           <=> Agrees(row, description)
  BY DEF Agrees, Wanted

\* For all catalogs and drafts, an accepted operation is the one meant: its
\* product is the only one with the attributes said, its quantity and direction
\* are the ones said.  (validator.py, response.py, mapper.py, pipeline.py)
THEOREM AcceptedMeant == Spec => []AcceptedIsMeant
<1>1. IInv => AcceptedIsMeant
  <2>. SUFFICES ASSUME IInv, pi = "done", outcome.kind = "accepted"
                PROVE  AcceptedIsMeant
    BY DEF AcceptedIsMeant
  <2>. DEFINE payload == envelope.payload.payload
              said    == payload.operations[1]
  <2>1. /\ outcome = ValidateItem(said) /\ Structured(payload)
        /\ envelope.status # "error" /\ envelope.payload.status = "success"
    BY PayloadVerdict DEF IInv, Rejected
  <2>2. PICK i \in DOMAIN piFile :
          /\ Identifies(said.product, piFile, i)
          /\ ~(said.quantity <= 0) /\ said.unit \in piFile[i].units
          /\ outcome = Accepted([operation |-> said.operation, product |-> piFile[i].id,
                                quantity |-> said.quantity, unit |-> said.unit])
    <3>. HIDE DEF said
    <3> QED BY <2>1, ItemVerdict DEF Rejected
  <2>3. /\ payload.version = "1" /\ Len(payload.operations) = 1
        /\ said.quantity \in Int /\ said.product \in Descriptions
    BY <2>1 DEF Structured, ContractItem
  <2>4. \A j \in DOMAIN piFile : Agrees(piFile[j].row, said.product) <=> j = i
    BY <2>2 DEF Identifies, Candidates
  <2>5. ASSUME peer = "groq"
        PROVE  /\ draft.count = 1
               /\ said.product = draft.item.product
               /\ said.quantity = draft.item.quantity
               /\ (said.operation = "add_stock") <=> (draft.item.operation = "agregar_stock")
    <3>1. envelope.payload = result /\ GroqResult
      BY <2>1, <2>5, ReadFromPipeline
    <3>2. draft.count = 1 /\ payload = ContractOf(draft.item) /\ Mappable(draft.item)
      BY <2>1, <3>1, ContractFromDraft DEF Success
    <3> QED
      BY <3>2 DEF ContractOf, Translation, Mappable
  <2>6. /\ outcome.operation.operation = said.operation
        /\ outcome.operation.product = piFile[i].id
        /\ outcome.operation.quantity = said.quantity
        /\ outcome.operation.unit = said.unit
    BY <2>2 DEF Accepted
  <2>7. said.quantity > 0
    <3>. HIDE DEF said
    <3> QED BY <2>2, <2>3
  <2>8. \A j \in DOMAIN piFile :
          (\A a \in Attributes :
             Normal[said.product[a]] \in {Absent, Normal[piFile[j].row[a]]}) <=> j = i
    BY <2>3, <2>4, MatchesIsAgrees
  <2> QED
    BY <2>2, <2>3, <2>5, <2>6, <2>7, <2>8 DEF AcceptedIsMeant
<1> QED
  BY Inductive, <1>1, PTL

\* For all catalogs and drafts, a rejection is of the stage that caused it, and
\* with equal rows on both sides the Pi never refuses a product the PC found.
\* (response.py, client.py, catalog.py, products.py)
THEOREM RejectionCaused == Spec => []RejectionHasItsCause
<1>1. IInv => RejectionHasItsCause
  <2>. SUFFICES ASSUME IInv, pi = "done" PROVE RejectionHasItsCause
    BY DEF RejectionHasItsCause
  <2>1. ASSUME outcome.kind = "transport_error"
        PROVE  \/ outcome.cause \in {"audio_read_failure", "timeout", "connection_failed"}
               \/ reply.body # "envelope" \/ reply.content.status = "error"
    <3>1. envelope.status = "error" /\ outcome = Rejected("transport_error", envelope.code)
      <4>1. ~(outcome = ValidateItem(envelope.payload.payload.operations[1]))
        BY <2>1, ItemVerdict DEF Rejected, Accepted
      <4> QED BY <2>1, <4>1, PayloadVerdict DEF IInv, Rejected
    <3>2. CASE \E code \in ClientCodes : envelope = Failure(code)
      BY <3>1, <3>2 DEF Failure, Rejected, ClientCodes
    <3>3. CASE pc = "handled" /\ envelope = Read(reply)
      <4>. SUFFICES ASSUME reply.body = "envelope", reply.content.status # "error"
                    PROVE  FALSE
        OBVIOUS
      <4>1. ~(\E code \in ServerCodes :
                reply = Response("other", "envelope", Failure(code)))
        BY DEF Response, Failure
      <4>2. reply.http = "200" /\ reply.content.status = "success"
        BY <3>3, <4>1 DEF IInv, ReplyInv, Response, Success
      <4>3. envelope = reply.content
        BY <3>3, <4>2 DEF Read
      <4> QED BY <3>1, <4>2, <4>3
    <3> QED BY <3>2, <3>3 DEF IInv, EnvelopeInv
  <2>2. ASSUME outcome.kind = "service_error"
        PROVE  peer = "other" \/ (peer = "groq" /\ result.status = "error")
    <3>1. envelope.status # "error" /\ envelope.payload.status # "success"
      <4>1. ~(outcome = ValidateItem(envelope.payload.payload.operations[1]))
        BY <2>2, ItemVerdict DEF Rejected, Accepted
      <4> QED BY <2>2, <4>1, PayloadVerdict DEF IInv, Rejected
    <3>2. CASE peer = "groq"
      <4>1. GroqResult /\ result.status # "success"
        BY <3>1, <3>2, ReadFromPipeline
      <4>2. result.status = "error"
        <5>. SUFFICES ASSUME result.status # "error" PROVE FALSE
          OBVIOUS
        <5> QED BY <4>1, ContractFromDraft DEF Success
      <4> QED BY <3>2, <4>2
    <3>3. CASE peer = "stub"
      BY <3>1, <3>3, ReadFromPipeline DEF Success
    <3> QED BY <3>2, <3>3 DEF IInv
  <2>3. ASSUME outcome.kind = "contract_rejection", peer = "groq", SameRows,
               ~(draft.item.quantity <= 0)
        PROVE  \E i \in DOMAIN piFile :
                 Identifies(draft.item.product, piFile, i) /\ "unit" \notin piFile[i].units
    <3>. DEFINE payload == envelope.payload.payload
                said    == payload.operations[1]
    <3>1. \/ envelope.status # "error" /\ envelope.payload.status = "success"
             /\ ~Structured(payload)
          \/ envelope.status # "error" /\ envelope.payload.status = "success"
             /\ outcome = ValidateItem(said)
      BY <2>3, PayloadVerdict DEF IInv, Rejected
    <3>2. envelope.payload = result /\ GroqResult
      BY <2>3, <3>1, ReadFromPipeline
    <3>3. /\ payload = ContractOf(draft.item) /\ Mappable(draft.item)
          /\ PcIdentified(draft.item.product, pcFile)
      BY <3>1, <3>2, ContractFromDraft DEF Success
    <3>4. /\ payload.version = "1" /\ payload.extra = {"recognized_text"}
          /\ payload.operations =
               << [operation |-> Translation(draft.item.operation),
                   product   |-> draft.item.product,
                   quantity  |-> draft.item.quantity,
                   unit      |-> "unit"] >>
      <4>. HIDE DEF payload
      <4> QED BY <3>3 DEF ContractOf
    <3>5. /\ Len(payload.operations) = 1
          /\ said.operation = Translation(draft.item.operation)
          /\ said.product = draft.item.product
          /\ said.quantity = draft.item.quantity /\ said.unit = "unit"
      <4>. HIDE DEF payload
      <4> QED BY <3>4
    <3>6. Structured(payload)
      <4>. HIDE DEF payload
      <4>1. ContractItem(payload.operations[1])
        BY <3>3, <3>5 DEF ContractItem, Mappable, Translation
      <4> QED BY <3>4, <3>5, <4>1 DEF Structured
    <3>7. Identified(said.product, piFile)
      <4>1. Identified(draft.item.product, piFile)
        BY <2>3, <3>3, SameRowsSameVerdict DEF SameRows
      <4> QED BY <3>5, <4>1
    <3>8. PICK i \in DOMAIN piFile :
            Identifies(said.product, piFile, i) /\ said.unit \notin piFile[i].units
      <4>1. outcome = ValidateItem(said)
        BY <3>1, <3>6
      <4>. HIDE DEF said
      <4> QED BY <2>3, <3>5, <3>7, <4>1, ItemVerdict DEF Accepted
    <3> QED BY <3>5, <3>8
  <2> QED
    BY <2>1, <2>2, <2>3 DEF RejectionHasItsCause
<1> QED
  BY Inductive, <1>1, PTL
=============================================================================
