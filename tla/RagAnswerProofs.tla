--------------------------- MODULE RagAnswerProofs ---------------------------
(* An answer rests on the longest run of its search's results that fits, and   *)
(* its review never claims more than was done and never loses it: for any      *)
(* rankings, texts, answers, replies, limits and interleavings.                *)
EXTENDS RagAnswer, HybridRetrievalProofs

Fields(a) ==
  [pc |-> a.pc, verify |-> a.verify, sources |-> a.sources, used |-> a.used,
   answer |-> a.answer, findings |-> a.findings, omitted |-> a.omitted,
   review |-> a.review, reply |-> a.reply]

Steps == {"none", "generate", "review", "respond", "replied", "rejected", "failed"}

\* What a review still waits for is what was computed from the answer; before
\* the model has answered there is nothing to review.
RequestInv(a) ==
  /\ a = Fields(a)
  /\ a.pc \in Steps
  /\ a.pc = "generate" => a.reply = << >>
  /\ a.pc = "review" => /\ a.answer \in Answers
                        /\ a.findings = Findings(a.answer, Len(a.sources))
                        /\ a.omitted = Omitted(a.answer)
  /\ Honest(a)

\* The inductive invariant: each request by itself, whatever the others do.
RagInv ==
  /\ rag = [r \in Requests |-> rag[r]]
  /\ \A r \in Requests : RequestInv(rag[r])

-----------------------------------------------------------------------------

\* A status that the model's verdicts have is none of those given without it.
LEMMA ModelStatuses ==
  \A status \in {"awaiting", "not_checked", "missing_citation", "invalid_citation"} :
    ~OfModel(status)
  BY DEF OfModel, ModelStatus, Verdicts

\* Before the review no claim has a model's verdict, and one that awaits it
\* cites sources that exist.
LEMMA FindingsPrechecked ==
  ASSUME NEW answer, NEW known,
         NEW i \in DOMAIN Findings(answer, known)
  PROVE  LET f == Findings(answer, known)[i]
         IN  /\ ~OfModel(f.status)
             /\ f.status = "awaiting" => f.cites # {} /\ f.cites \subseteq 1 .. known
  <1>1. CASE answer.oversized
    BY <1>1, ModelStatuses DEF Findings
  <1>2. CASE ~answer.oversized
    <2>1. /\ i \in DOMAIN answer.pieces
          /\ Findings(answer, known)[i]
               = [cites |-> answer.pieces[i].cites, status |-> Precheck(answer.pieces[i], known)]
      BY <1>2 DEF Findings
    <2>2. Precheck(answer.pieces[i], known)
            \in {"awaiting", "not_checked", "missing_citation", "invalid_citation"}
      BY DEF Precheck
    <2>3. Precheck(answer.pieces[i], known) = "awaiting"
            => answer.pieces[i].cites # {} /\ answer.pieces[i].cites \subseteq 1 .. known
      BY DEF Precheck
    <2> QED BY <2>1, <2>2, <2>3, ModelStatuses
  <1> QED BY <1>1, <1>2

\* When nothing was left out and nothing is undecided, every piece of the answer
\* that says something has its finding.
LEMMA NothingUnseen ==
  ASSUME NEW answer \in Answers, NEW known, Omitted(answer) = 0, ~answer.oversized,
         NEW i \in DOMAIN answer.pieces, answer.pieces[i].kind # "labels"
  PROVE  i \in DOMAIN Findings(answer, known)
  <1>1. answer.pieces \in Seq(Piece) BY ReviewAssumption
  <1>2. Len(answer.pieces) \in Nat /\ DOMAIN answer.pieces = 1 .. Len(answer.pieces)
    BY <1>1
  <1>3. MaxClaims \in Nat BY ReviewAssumption
  <1>4. Len(answer.pieces) <= MaxClaims
    BY <1>2, <1>3 DEF Omitted
  <1>5. i <= MaxClaims BY <1>2, <1>3, <1>4
  <1> QED BY <1>5 DEF Findings

\* A valid reply holds one verdict for each claim it speaks of.
LEMMA OneVerdict ==
  ASSUME NEW reply \in Replies, NEW ids, ValidReply(reply, ids),
         NEW k \in DOMAIN reply
  PROVE  LET about == {l \in DOMAIN reply : reply[l][1] = reply[k][1]}
         IN  about = {k} /\ Max(about) = k
  <1>1. reply \in Seq(Nat \X STRING) BY ReviewAssumption
  <1>2. Len(reply) \in Nat /\ DOMAIN reply = 1 .. Len(reply) BY <1>1
  <1>3. ASSUME NEW l \in DOMAIN reply, reply[l][1] = reply[k][1]
        PROVE  l = k
    <2>1. ~(l < k)
      BY <1>2, <1>3 DEF ValidReply
    <2>2. ~(k < l)
      BY <1>2, <1>3 DEF ValidReply
    <2> QED BY <1>2, <2>1, <2>2
  <1>4. {l \in DOMAIN reply : reply[l][1] = reply[k][1]} = {k} BY <1>3
  <1>5. Max({k}) = k BY <1>2 DEF Max
  <1> QED BY <1>4, <1>5

\* What a valid reply makes of a claim that it does not speak of, and of one
\* that it does.
LEMMA FinishedBy ==
  ASSUME NEW findings, NEW reply \in Replies, ValidReply(reply, Reviewable(findings)),
         NEW i \in DOMAIN findings,
         findings[i] = [cites |-> findings[i].cites, status |-> findings[i].status]
  PROVE  /\ DOMAIN Finished(findings, reply) = DOMAIN findings
         /\ Finished(findings, reply)[i].cites = findings[i].cites
         /\ \/ /\ Finished(findings, reply)[i] = findings[i]
               /\ \A k \in DOMAIN reply : reply[k][1] # i
            \/ /\ findings[i].status = "awaiting"
               /\ \E k \in DOMAIN reply : reply[k][1] = i
               /\ \A k \in DOMAIN reply : reply[k][1] = i =>
                    Finished(findings, reply)[i].status = ModelStatus(reply[k][2])
  <1> DEFINE about == {k \in DOMAIN reply : reply[k][1] = i}
  <1>1. DOMAIN Finished(findings, reply) = DOMAIN findings BY DEF Finished
  <1>2. CASE about = {}
    <2>1. Finished(findings, reply)[i] = findings[i] BY <1>2 DEF Finished
    <2> QED BY <1>1, <1>2, <2>1
  <1>3. CASE about # {}
    <2>1. PICK k \in DOMAIN reply : reply[k][1] = i BY <1>3
    <2>2. about = {k} /\ Max(about) = k BY <2>1, OneVerdict
    <2>3. findings[i].status = "awaiting"
      BY <2>1 DEF ValidReply, Reviewable
    <2>4. Finished(findings, reply)[i]
            = [findings[i] EXCEPT !.status = ModelStatus(reply[k][2])]
      BY <1>3, <2>2 DEF Finished
    <2>5. /\ Finished(findings, reply)[i].cites = findings[i].cites
          /\ Finished(findings, reply)[i].status = ModelStatus(reply[k][2])
      BY <2>4
    <2> QED BY <1>1, <2>1, <2>2, <2>3, <2>5
  <1> QED BY <1>2, <1>3

\* Findings are records with two fields, and valid verdicts are allowed ones.
LEMMA FindingsAreRecords ==
  ASSUME NEW answer, NEW known, NEW i \in DOMAIN Findings(answer, known)
  PROVE  Findings(answer, known)[i] = [cites  |-> Findings(answer, known)[i].cites,
                                       status |-> Findings(answer, known)[i].status]
  <1>1. CASE answer.oversized BY <1>1 DEF Findings
  <1>2. CASE ~answer.oversized BY <1>2 DEF Findings
  <1> QED BY <1>1, <1>2

-----------------------------------------------------------------------------

\* A request whose search is packed.
LEMMA AskKeeps ==
  ASSUME RagInv, NEW r \in Requests, Ask(r)
  PROVE  RequestInv(rag'[r])
  <1> DEFINE context == Context(rq[r].results)
             asked   == [NoAnswer EXCEPT !.sources = context.sources, !.used = context.used]
             pc      == IF rq[r].results = << >> THEN "replied"
                        ELSE IF context.sources = << >> THEN "rejected" ELSE "generate"
  <1>1. PICK verify \in BOOLEAN :
          rag' = [rag EXCEPT ![r] = [asked EXCEPT !.verify = verify, !.pc = pc]]
    BY DEF Ask, Turn
  <1>2. pc \in {"replied", "rejected", "generate"} OBVIOUS
  <1> HIDE DEF context, pc
  <1>3. rag'[r] = [asked EXCEPT !.verify = verify, !.pc = pc]
    BY <1>1 DEF RagInv
  <1> DEFINE sources == context.sources
             used    == context.used
  <1>4. rag'[r] = [pc |-> pc, verify |-> verify, sources |-> sources, used |-> used,
                   answer |-> [oversized |-> FALSE, pieces |-> << >>],
                   findings |-> [i \in {} |-> "none"], omitted |-> 0, review |-> "none",
                   reply |-> << >>]
    BY <1>3 DEF NoAnswer
  <1> HIDE DEF sources, used
  <1>5. /\ rag'[r] = Fields(rag'[r]) /\ rag'[r].pc = pc /\ rag'[r].reply = << >>
        /\ DOMAIN rag'[r].findings = {} /\ rag'[r].answer.pieces = << >>
        /\ rag'[r].review = "none"
    BY <1>4 DEF Fields
  <1> QED BY <1>2, <1>5 DEF RequestInv, Steps, Honest

\* A model's answer, reviewed as far as no model is needed.
LEMMA GenerateKeeps ==
  ASSUME RagInv, NEW r \in Requests, Generate(r)
  PROVE  RequestInv(rag'[r])
  <1> DEFINE old == rag[r]
             new == rag'[r]
  <1>1. old = Fields(old) /\ old.pc = "generate" /\ old.reply = << >>
    BY DEF RagInv, RequestInv, Generate
  <1>2. PICK answer \in Answers :
          LET findings == Findings(answer, Len(old.sources))
              omitted  == Omitted(answer)
              answered == [old EXCEPT !.answer = answer, !.pc = "respond"]
          IN  rag' = [rag EXCEPT ![r] =
                IF ~old.verify THEN answered
                ELSE [answered EXCEPT
                  !.findings = findings, !.omitted = omitted,
                  !.pc     = IF Reviewable(findings) = {} THEN "respond" ELSE "review",
                  !.review = IF Reviewable(findings) # {} THEN "none"
                             ELSE ReviewStatus(findings, omitted, "not_applicable")]]
    BY DEF Generate, Turn
  <1>3. CASE ~old.verify
    <2>1. new = [old EXCEPT !.answer = answer, !.pc = "respond"]
      BY <1>2, <1>3 DEF RagInv
    <2>2. new = Fields(new) /\ new.pc = "respond" /\ ~new.verify
      BY <1>1, <1>3, <2>1 DEF Fields
    <2> QED BY <2>2 DEF RequestInv, Steps, Honest
  <1>4. CASE old.verify
    <2> DEFINE findings == Findings(answer, Len(old.sources))
    <2>1. new = [[old EXCEPT !.answer = answer, !.pc = "respond"] EXCEPT
                  !.findings = findings, !.omitted = Omitted(answer),
                  !.pc     = IF Reviewable(findings) = {} THEN "respond" ELSE "review",
                  !.review = IF Reviewable(findings) # {} THEN "none"
                             ELSE ReviewStatus(findings, Omitted(answer), "not_applicable")]
      BY <1>2, <1>4 DEF RagInv
    <2> HIDE DEF findings
    <2>2. /\ new = Fields(new) /\ new.pc \in {"respond", "review"}
          /\ new.answer = answer /\ new.findings = findings /\ new.sources = old.sources
          /\ new.omitted = Omitted(answer)
          /\ new.review \in {"none", ReviewStatus(findings, Omitted(answer), "not_applicable")}
      BY <1>1, <2>1 DEF Fields
    <2>3. new.review \in {"none", "partial", "not_applicable"}
      BY <2>2 DEF ReviewStatus
    <2>4. \A i \in DOMAIN findings : ~OfModel(findings[i].status)
      BY FindingsPrechecked DEF findings
    <2>5. Honest(new) BY <2>2, <2>3, <2>4 DEF Honest
    <2> QED BY <2>2, <2>5 DEF RequestInv, Steps, findings
  <1> QED BY <1>3, <1>4

\* A reply that is valid, or not.
LEMMA ReviewKeeps ==
  ASSUME RagInv, NEW r \in Requests, Review(r)
  PROVE  RequestInv(rag'[r])
  <1> DEFINE old == rag[r]
             new == rag'[r]
  <1>1. /\ old = Fields(old) /\ old.pc = "review" /\ old.answer \in Answers
        /\ old.findings = Findings(old.answer, Len(old.sources))
        /\ old.omitted = Omitted(old.answer)
    BY DEF RagInv, RequestInv, Review
  <1>2. PICK reply \in Replies :
          rag' = [rag EXCEPT ![r] =
            IF ValidReply(reply, Reviewable(old.findings))
              THEN [old EXCEPT !.pc = "respond", !.findings = Finished(old.findings, reply),
                      !.reply = reply,
                      !.review = ReviewStatus(Finished(old.findings, reply), old.omitted,
                                              "completed")]
              ELSE [old EXCEPT !.pc = "respond", !.review = "unavailable"]]
    BY DEF Review, Turn
  <1>3. CASE ~ValidReply(reply, Reviewable(old.findings))
    <2>1. new = [old EXCEPT !.pc = "respond", !.review = "unavailable"]
      BY <1>2, <1>3 DEF RagInv
    <2>2. /\ new = Fields(new) /\ new.pc = "respond" /\ new.review = "unavailable"
          /\ new.findings = old.findings
      BY <1>1, <2>1 DEF Fields
    <2>3. \A i \in DOMAIN new.findings : ~OfModel(new.findings[i].status)
      BY <1>1, <2>2, FindingsPrechecked
    <2> QED BY <2>2, <2>3 DEF RequestInv, Steps, Honest
  <1>4. CASE ValidReply(reply, Reviewable(old.findings))
    <2> DEFINE finished == Finished(old.findings, reply)
    <2>1. new = [old EXCEPT !.pc = "respond", !.findings = finished, !.reply = reply,
                      !.review = ReviewStatus(finished, old.omitted, "completed")]
      BY <1>2, <1>4 DEF RagInv
    <2> HIDE DEF finished
    <2>2. /\ new = Fields(new) /\ new.pc = "respond" /\ new.findings = finished
          /\ new.reply = reply /\ new.sources = old.sources /\ new.answer = old.answer
          /\ new.review = ReviewStatus(finished, old.omitted, "completed")
      BY <1>1, <2>1 DEF Fields
    <2>3. \A i \in DOMAIN old.findings :
            old.findings[i] = [cites  |-> old.findings[i].cites,
                               status |-> old.findings[i].status]
      BY <1>1, FindingsAreRecords
    <2>4. DOMAIN finished = DOMAIN old.findings BY DEF finished, Finished
    <2>5. ASSUME NEW i \in DOMAIN new.findings, OfModel(new.findings[i].status)
          PROVE  Founded(new, i)
      <3>1. i \in DOMAIN old.findings BY <2>2, <2>4, <2>5
      <3>2. ~OfModel(old.findings[i].status)
        BY <1>1, <3>1, FindingsPrechecked
      <3>3. finished[i] # old.findings[i] BY <2>2, <2>5, <3>2
      <3>4. /\ finished[i].cites = old.findings[i].cites
            /\ old.findings[i].status = "awaiting"
            /\ \E k \in DOMAIN reply : reply[k][1] = i
            /\ \A k \in DOMAIN reply : reply[k][1] = i =>
                 finished[i].status = ModelStatus(reply[k][2])
        <4>1. old.findings[i] = [cites  |-> old.findings[i].cites,
                                 status |-> old.findings[i].status]
          BY <2>3, <3>1
        <4>2. /\ Finished(old.findings, reply)[i].cites = old.findings[i].cites
              /\ \/ Finished(old.findings, reply)[i] = old.findings[i]
                 \/ /\ old.findings[i].status = "awaiting"
                    /\ \E k \in DOMAIN reply : reply[k][1] = i
                    /\ \A k \in DOMAIN reply : reply[k][1] = i =>
                         Finished(old.findings, reply)[i].status = ModelStatus(reply[k][2])
          BY <1>4, <3>1, <4>1, FinishedBy
        <4> QED BY <3>3, <4>2 DEF finished
      <3>5. /\ old.findings[i].cites # {}
            /\ old.findings[i].cites \subseteq 1 .. Len(old.sources)
        BY <1>1, <3>1, <3>4, FindingsPrechecked
      <3> QED BY <2>2, <3>4, <3>5 DEF Founded
    <2>6. new.review # "unavailable" BY <2>2 DEF ReviewStatus
    <2>7. ASSUME new.review = "completed", NEW i \in DOMAIN new.answer.pieces,
                 new.answer.pieces[i].kind # "labels"
          PROVE  i \in DOMAIN new.findings /\ new.findings[i].status \notin Undecided
      <3>1. ~(old.omitted > 0) /\ \A k \in DOMAIN finished : finished[k].status \notin Undecided
        BY <2>2, <2>7 DEF ReviewStatus
      <3>2. old.answer.pieces \in Seq(Piece) BY <1>1, ReviewAssumption
      <3>3. old.omitted \in Nat
        BY <1>1, <3>2, ReviewAssumption DEF Omitted
      <3>4. Omitted(old.answer) = 0 BY <1>1, <3>1, <3>3
      <3>5. ~old.answer.oversized
        <4>1. SUFFICES ASSUME old.answer.oversized PROVE FALSE OBVIOUS
        <4>2. 1 \in DOMAIN old.findings /\ old.findings[1].status = "not_checked"
          BY <1>1, <4>1 DEF Findings
        <4>3. finished[1] = old.findings[1]
          BY <1>4, <2>3, <4>2, FinishedBy DEF finished
        <4> QED BY <2>4, <3>1, <4>2, <4>3 DEF Undecided
      <3>6. i \in DOMAIN old.findings
        BY <1>1, <2>2, <2>7, <3>4, <3>5, NothingUnseen
      <3> QED BY <2>2, <2>4, <3>1, <3>6
    <2>8. Honest(new) BY <2>5, <2>6, <2>7 DEF Honest
    <2> QED BY <2>2, <2>8 DEF RequestInv, Steps
  <1> QED BY <1>3, <1>4

\* A review that fails leaves the findings as they were.
LEMMA ReviewFailsKeeps ==
  ASSUME RagInv, NEW r \in Requests, ReviewFails(r)
  PROVE  RequestInv(rag'[r])
  <1>1. /\ rag[r] = Fields(rag[r])
        /\ rag[r].findings = Findings(rag[r].answer, Len(rag[r].sources))
    BY DEF RagInv, RequestInv, ReviewFails
  <1>2. rag'[r] = [rag[r] EXCEPT !.pc = "respond", !.review = "unavailable"]
    BY DEF RagInv, ReviewFails, Turn
  <1>3. /\ rag'[r] = Fields(rag'[r]) /\ rag'[r].pc = "respond"
        /\ rag'[r].review = "unavailable" /\ rag'[r].findings = rag[r].findings
    BY <1>1, <1>2 DEF Fields
  <1>4. \A i \in DOMAIN rag'[r].findings : ~OfModel(rag'[r].findings[i].status)
    BY <1>1, <1>3, FindingsPrechecked
  <1> QED BY <1>3, <1>4 DEF RequestInv, Steps, Honest

\* A response changes nothing but where the request is.
LEMMA RespondKeeps ==
  ASSUME RagInv, NEW r \in Requests, Respond(r)
  PROVE  RequestInv(rag'[r])
  <1>1. rag[r] = Fields(rag[r]) /\ rag[r].pc = "respond" /\ Honest(rag[r])
    BY DEF RagInv, RequestInv, Respond
  <1>2. PICK pc \in {"replied", "failed"} : rag'[r] = [rag[r] EXCEPT !.pc = pc]
    BY DEF RagInv, Respond, Turn
  <1>3. /\ rag'[r] = Fields(rag'[r]) /\ rag'[r].pc = pc
        /\ rag'[r].verify = rag[r].verify /\ rag'[r].findings = rag[r].findings
        /\ rag'[r].sources = rag[r].sources /\ rag'[r].reply = rag[r].reply
        /\ rag'[r].answer = rag[r].answer /\ rag'[r].review = rag[r].review
    BY <1>1, <1>2 DEF Fields
  <1>4. Honest(rag'[r]) BY <1>1, <1>3 DEF Honest, Founded
  <1> QED BY <1>3, <1>4 DEF RequestInv, Steps

LEMMA GenerateFailsKeeps ==
  ASSUME RagInv, NEW r \in Requests, GenerateFails(r)
  PROVE  RequestInv(rag'[r])
  <1>1. rag[r] = Fields(rag[r]) BY DEF RagInv, RequestInv
  <1>2. rag'[r] = [rag[r] EXCEPT !.pc = "failed"]
    BY DEF RagInv, GenerateFails, Turn
  <1>3. rag'[r] = Fields(rag'[r]) /\ rag'[r].pc = "failed"
    BY <1>1, <1>2 DEF Fields
  <1> QED BY <1>3 DEF RequestInv, Steps, Honest

LEMMA InitKeeps == RagInit => RagInv
  <1> SUFFICES ASSUME RagInit PROVE RagInv OBVIOUS
  <1>1. \A r \in Requests : rag[r] = NoAnswer BY DEF RagInit
  <1>2. /\ NoAnswer = Fields(NoAnswer) /\ NoAnswer.pc = "none"
    BY DEF NoAnswer, Fields
  <1>3. RequestInv(NoAnswer) BY <1>2 DEF RequestInv, Steps, Honest
  <1> QED BY <1>1, <1>3 DEF RagInv, RagInit

\* Each step changes one request, which keeps its invariant.
LEMMA StepKeeps == RagInv /\ [RagNext]_ragVars => RagInv'
  <1> SUFFICES ASSUME RagInv, [RagNext]_ragVars PROVE RagInv' OBVIOUS
  <1>1. CASE UNCHANGED rag BY <1>1 DEF RagInv
  <1>2. ASSUME NEW r \in Requests,
               \/ Ask(r) \/ Generate(r) \/ GenerateFails(r)
               \/ Review(r) \/ ReviewFails(r) \/ Respond(r)
        PROVE  RagInv'
    <2>1. RequestInv(rag'[r])
      BY <1>2, AskKeeps, GenerateKeeps, GenerateFailsKeeps, ReviewKeeps,
         ReviewFailsKeeps, RespondKeeps
    <2>2. \E state : rag' = [rag EXCEPT ![r] = state]
      <3>1. CASE Ask(r) BY <3>1 DEF Ask, Turn
      <3>2. CASE Generate(r) BY <3>2 DEF Generate, Turn
      <3>3. CASE GenerateFails(r) BY <3>3 DEF GenerateFails, Turn
      <3>4. CASE Review(r) BY <3>4 DEF Review, Turn
      <3>5. CASE ReviewFails(r) BY <3>5 DEF ReviewFails, Turn
      <3>6. CASE Respond(r) BY <3>6 DEF Respond, Turn
      <3> QED BY <1>2, <3>1, <3>2, <3>3, <3>4, <3>5, <3>6
    <2>3. rag' = [s \in Requests |-> rag'[s]] BY <2>2 DEF RagInv
    <2>4. \A s \in Requests \ {r} : rag'[s] = rag[s] BY <2>2 DEF RagInv
    <2> QED BY <2>1, <2>3, <2>4 DEF RagInv
  <1> QED BY <1>1, <1>2 DEF RagNext, ragVars

\* A review reports no verdict without a source, none that the reviewer did not
\* give, and no completeness it does not have (review_answer_citations).
THEOREM ReviewsAreHonest == RagSpec => []ReviewIsHonest
  <1>1. RagInv => ReviewIsHonest BY DEF RagInv, RequestInv, ReviewIsHonest
  <1> QED BY <1>1, InitKeeps, StepKeeps, PTL DEF RagSpec

-----------------------------------------------------------------------------

\* What the reviewer's step does to the answer, its sources and its findings.
LEMMA ReviewKeepsRest ==
  ASSUME RagInv, NEW r \in Requests, Review(r)
  PROVE  LET old == rag[r]  new == rag'[r]
         IN  /\ <<new.answer, new.sources, new.omitted>> = <<old.answer, old.sources, old.omitted>>
             /\ DOMAIN new.findings = DOMAIN old.findings
             /\ \A i \in DOMAIN new.findings :
                  new.findings[i] = old.findings[i] \/ old.findings[i].status = "awaiting"
             /\ new.pc = "respond"
  <1> DEFINE old == rag[r]
             new == rag'[r]
  <1>1. old = Fields(old) /\ old.findings = Findings(old.answer, Len(old.sources))
    BY DEF RagInv, RequestInv, Review
  <1>2. PICK reply \in Replies :
          new = IF ValidReply(reply, Reviewable(old.findings))
              THEN [old EXCEPT !.pc = "respond", !.findings = Finished(old.findings, reply),
                      !.reply = reply,
                      !.review = ReviewStatus(Finished(old.findings, reply), old.omitted,
                                              "completed")]
              ELSE [old EXCEPT !.pc = "respond", !.review = "unavailable"]
    BY DEF RagInv, Review, Turn
  <1>3. CASE ~ValidReply(reply, Reviewable(old.findings))
    BY <1>1, <1>2, <1>3 DEF Fields
  <1>4. CASE ValidReply(reply, Reviewable(old.findings))
    <2> DEFINE finished == Finished(old.findings, reply)
    <2>1. \A i \in DOMAIN old.findings :
            old.findings[i] = [cites  |-> old.findings[i].cites,
                               status |-> old.findings[i].status]
      BY <1>1, FindingsAreRecords
    <2>2. DOMAIN finished = DOMAIN old.findings BY DEF Finished
    <2>3. \A i \in DOMAIN old.findings :
            finished[i] = old.findings[i] \/ old.findings[i].status = "awaiting"
      BY <1>4, <2>1, FinishedBy
    <2> HIDE DEF finished
    <2>4. /\ new.findings = finished /\ new.pc = "respond" /\ new.answer = old.answer
          /\ new.sources = old.sources /\ new.omitted = old.omitted
      BY <1>1, <1>2, <1>4 DEF Fields, finished
    <2> QED BY <2>2, <2>3, <2>4
  <1> QED BY <1>3, <1>4

\* Nothing that happens to a review loses the answer, unless a claim has more
\* labels than its response may hold.
THEOREM ReviewsKeepAnswers == RagSpec => ReviewKeepsAnswer
  <1> DEFINE Kept(old, new) ==
        /\ <<new.answer, new.sources, new.omitted>> = <<old.answer, old.sources, old.omitted>>
        /\ DOMAIN new.findings = DOMAIN old.findings
        /\ \A i \in DOMAIN new.findings :
             new.findings[i] = old.findings[i] \/ old.findings[i].status = "awaiting"
        /\ new.pc = "failed" =>
             \E i \in DOMAIN new.findings : ~(Cardinality(new.findings[i].cites) <= MaxLabels)
  <1>1. ASSUME RagInv, [RagNext]_ragVars, NEW r \in Requests, rag[r].pc \in {"review", "respond"}
        PROVE  Kept(rag[r], rag'[r])
    <2>0. rag[r] = Fields(rag[r]) BY <1>1 DEF RagInv, RequestInv
    <2>1. CASE rag'[r] = rag[r] BY <1>1, <2>1
    <2>2. CASE Review(r) BY <1>1, <2>2, ReviewKeepsRest
    <2>3. CASE ReviewFails(r)
      <3>1. rag'[r] = [rag[r] EXCEPT !.pc = "respond", !.review = "unavailable"]
        BY <1>1, <2>3 DEF RagInv, ReviewFails, Turn
      <3> QED BY <2>0, <3>1 DEF Fields
    <2>4. CASE Respond(r)
      <3>1. rag'[r] = [rag[r] EXCEPT !.pc =
              IF \A i \in DOMAIN rag[r].findings : Cardinality(rag[r].findings[i].cites) <= MaxLabels
                THEN "replied" ELSE "failed"]
        BY <1>1, <2>4 DEF RagInv, Respond, Turn
      <3>2. /\ rag'[r].findings = rag[r].findings /\ rag'[r].answer = rag[r].answer
            /\ rag'[r].sources = rag[r].sources /\ rag'[r].omitted = rag[r].omitted
            /\ rag'[r].pc = "failed" =>
                 \E i \in DOMAIN rag[r].findings : ~(Cardinality(rag[r].findings[i].cites) <= MaxLabels)
        BY <2>0, <3>1 DEF Fields
      <3> QED BY <3>2
    <2>5. ASSUME NEW s \in Requests \ {r},
                 \/ Ask(s) \/ Generate(s) \/ GenerateFails(s)
                 \/ Review(s) \/ ReviewFails(s) \/ Respond(s)
          PROVE  rag'[r] = rag[r]
      <3>1. \E state : rag' = [rag EXCEPT ![s] = state]
        BY <2>5 DEF Ask, Generate, GenerateFails, Review, ReviewFails, Respond, Turn
      <3> QED BY <1>1, <3>1 DEF RagInv
    <2>6. ~Ask(r) /\ ~Generate(r) /\ ~GenerateFails(r)
      BY <1>1 DEF Ask, Generate, GenerateFails
    <2>7. \/ UNCHANGED rag \/ Review(r) \/ ReviewFails(r) \/ Respond(r)
          \/ \E s \in Requests \ {r} :
               \/ Ask(s) \/ Generate(s) \/ GenerateFails(s)
               \/ Review(s) \/ ReviewFails(s) \/ Respond(s)
      BY <1>1, <2>6 DEF RagNext, ragVars
    <2> QED BY <2>1, <2>2, <2>3, <2>4, <2>5, <2>7
  <1>2. RagInv /\ [RagNext]_ragVars
          => [\A r \in Requests : rag[r].pc \in {"review", "respond"}
                => Kept(rag[r], rag'[r])]_ragVars
    BY <1>1
  <1> QED BY <1>2, InitKeeps, StepKeeps, PTL DEF RagSpec, ReviewKeepsAnswer

-----------------------------------------------------------------------------

\* The searches under the answers are the searches: what is proved of these
\* holds with answers built on them too.
LEMMA RagSearches == RagSpec => Spec
  <1>1. RagInit => Init BY DEF RagInit
  <1>2. [RagNext]_ragVars => [Next]_vars
    BY DEF RagNext, ragVars, Ask, Generate, GenerateFails, Review, ReviewFails, Respond, Turn
  <1> QED BY <1>1, <1>2, PTL DEF RagSpec, Spec

\* The search under an answer returned only what was active while it ran.
THEOREM RagServesActive == RagSpec => []AnswersWereActive
  BY RagSearches, AnswersServeActive, PTL

\* Every search under an answer is accepted by its trace, and traced.
THEOREM RagTraced == RagSpec => []AnswersAreTraced
  BY RagSearches, AnswersTraced, PTL

\* Fusion respects both branches in the searches under answers too.
THEOREM RagFusionRespects == RagSpec => []FusionRespectsBranches
  BY RagSearches, FusionRespects, PTL

\* Comparing the traces of searches under answers loses nothing either.
THEOREM RagComparisonsKeep == RagSpec => []ComparisonKeepsRankings
  BY RagSearches, ComparisonsKeepRankings, PTL

\* Measuring the traces of searches under answers is sound too.
THEOREM RagMetricsSound == RagSpec => []MetricsAreSound
  BY RagSearches, MetricsStaySound, PTL

-----------------------------------------------------------------------------

\* The loop over the results is well defined: each turn takes the context the
\* turn before it left.
LEMMA TurnsAre ==
  ASSUME NEW results \in Seq(Chunk)
  PROVE  LET after == Turns(results)
         IN  /\ after[0] = EmptyContext
             /\ \A n \in 1 .. Len(results) : after[n] = Packed(after[n - 1], n, results[n])
  <1> DEFINE L == Len(results)
             Body(g, n) == IF n = 0 THEN EmptyContext ELSE Packed(g[n - 1], n, results[n])
             S == {m \in 0 .. L : \E g : g = [n \in 0 .. m |-> Body(g, n)]}
  <1>1. L \in Nat OBVIOUS
  <1>2. 0 \in S
    <2> DEFINE g == [n \in 0 .. 0 |-> EmptyContext]
    <2>1. g = [n \in 0 .. 0 |-> Body(g, n)] OBVIOUS
    <2> HIDE DEF g
    <2>2. \E h : h = [n \in 0 .. 0 |-> Body(h, n)] BY <2>1
    <2> QED BY <1>1, <2>2
  <1>3. ASSUME NEW m \in 0 .. L - 1, m \in S PROVE m + 1 \in S
    <2>1. PICK g : g = [n \in 0 .. m |-> Body(g, n)] BY <1>3
    <2> DEFINE h == [n \in 0 .. m + 1 |-> IF n <= m THEN g[n] ELSE Body(g, n)]
    <2>2. ASSUME NEW n \in 0 .. m + 1 PROVE h[n] = Body(h, n)
      <3>1. CASE n = 0
        <4>1. g[0] = EmptyContext BY <2>1
        <4> QED BY <3>1, <4>1
      <3>2. CASE n # 0
        <4>1. n - 1 \in 0 .. m BY <3>2
        <4>2. h[n - 1] = g[n - 1] BY <4>1
        <4>3. h[n] = Body(g, n)
          <5>1. CASE n <= m
            <6>1. n \in 0 .. m BY <5>1
            <6>2. g[n] = Body(g, n) BY <2>1, <6>1
            <6> QED BY <5>1, <6>2
          <5>2. CASE ~(n <= m) BY <5>2
          <5> QED BY <5>1, <5>2
        <4> HIDE DEF h
        <4> QED BY <3>2, <4>2, <4>3
      <3> QED BY <3>1, <3>2
    <2>3. h = [n \in 0 .. m + 1 |-> Body(h, n)] BY <2>2
    <2>4. m + 1 \in 0 .. L BY <1>1
    <2> QED BY <2>3, <2>4
  <1>4. L \in S
    <2>1. \A m \in 0 .. L - 1 : m \in S => m + 1 \in S BY <1>3
    <2> HIDE DEF S, L
    <2>2. 0 .. L \subseteq S BY <1>1, <1>2, <2>1, SetInduction
    <2> QED BY <1>1, <2>2
  <1>5. PICK g : g = [n \in 0 .. L |-> Body(g, n)] BY <1>4
  <1>6. Turns(results) = CHOOSE f : f = [n \in 0 .. L |-> Body(f, n)] BY DEF Turns
  <1>7. Turns(results) = [n \in 0 .. L |-> Body(Turns(results), n)] BY <1>5, <1>6
  <1> QED BY <1>1, <1>7

Source == [rank : Nat, chunk : Chunk, taken : Nat]

LeftOut(results, n, sources) ==
  {k \in 1 .. n : results[k] \notin Blank} \ {sources[i].rank : i \in DOMAIN sources}

\* What the first n turns of the loop leave: nothing is left out before the
\* context is full, and it is full when a source was cut short or one did not
\* fit.
Packs(results, n, ctx) ==
  LET left == LeftOut(results, n, ctx.sources)
  IN  /\ ctx = [used |-> ctx.used, sources |-> ctx.sources, full |-> ctx.full]
      /\ ctx.full \in BOOLEAN
      /\ ctx.used \in 0 .. MaxContext
      /\ ctx.sources \in Seq(Source)
      /\ ctx.sources = << >> => ctx.used = 0 /\ ~ctx.full
      /\ \A i \in 1 .. Len(ctx.sources) :
           /\ ctx.sources[i].rank \in 1 .. n
           /\ ctx.sources[i].chunk = results[ctx.sources[i].rank]
           /\ ctx.sources[i].chunk \notin Blank
           /\ \/ ctx.sources[i].taken = Length[ctx.sources[i].chunk]
              \/ Len(ctx.sources) = 1 /\ ctx.used = MaxContext /\ ctx.full
           /\ \A j \in 1 .. i - 1 : ctx.sources[j].rank < ctx.sources[i].rank
      /\ \A k \in left :
           /\ ctx.full
           /\ \A i \in 1 .. Len(ctx.sources) : ctx.sources[i].rank < k
           /\ (\A l \in left : k <= l) =>
                ctx.used + Frame[results[k]] + Length[results[k]] > MaxContext
      /\ ctx.full /\ left = {} => ctx.used = MaxContext

\* A turn of a context that is full, or over a blank result, changes nothing.
LEMMA SkippingPacks ==
  ASSUME NEW results \in Seq(Chunk), NEW n \in 1 .. Len(results), NEW ctx,
         Packs(results, n - 1, ctx), ctx.full \/ results[n] \in Blank
  PROVE  Packs(results, n, ctx)
  <1> DEFINE old == LeftOut(results, n - 1, ctx.sources)
             left == LeftOut(results, n, ctx.sources)
             sources == ctx.sources
  <1>1. /\ ctx = [used |-> ctx.used, sources |-> sources, full |-> ctx.full]
        /\ ctx.full \in BOOLEAN /\ ctx.used \in 0 .. MaxContext
        /\ sources \in Seq(Source)
        /\ sources = << >> => ctx.used = 0 /\ ~ctx.full
    BY DEF Packs
  <1>2. \A i \in 1 .. Len(sources) : sources[i].rank \in 1 .. n - 1 BY DEF Packs
  <1>3. n \in Nat /\ n >= 1 /\ MaxContext \in Int BY ContextAssumption
  <1>4. old \subseteq left /\ left \subseteq old \union {n} /\ (n \in left => results[n] \notin Blank)
    BY <1>3 DEF LeftOut
  <1>5. \A k \in old : k \in 1 .. n - 1 BY DEF LeftOut
  <1>6. \A k \in old : /\ ctx.full
                       /\ \A i \in 1 .. Len(sources) : sources[i].rank < k
                       /\ (\A l \in old : k <= l) =>
                            ctx.used + Frame[results[k]] + Length[results[k]] > MaxContext
    BY DEF Packs
  <1>7. ctx.full /\ old = {} => ctx.used = MaxContext BY DEF Packs
  <1> HIDE DEF old, left
  <1>8. ASSUME NEW k \in left
        PROVE  /\ ctx.full
               /\ \A i \in 1 .. Len(sources) : sources[i].rank < k
               /\ (\A l \in left : k <= l) =>
                    ctx.used + Frame[results[k]] + Length[results[k]] > MaxContext
    <2>1. CASE k \in old
      <3>1. (\A l \in left : k <= l) => (\A l \in old : k <= l) BY <1>4
      <3> QED BY <1>6, <2>1, <3>1
    <2>2. CASE k \notin old
      <3>1. k = n /\ results[n] \notin Blank BY <1>4, <2>2
      <3>2. ctx.full BY <3>1
      <3>3. \A i \in 1 .. Len(sources) : sources[i].rank < k BY <1>2, <1>3, <3>1
      <3>4. ASSUME \A l \in left : k <= l
            PROVE  ctx.used + Frame[results[k]] + Length[results[k]] > MaxContext
        <4>1. old = {} BY <1>3, <1>4, <1>5, <3>1, <3>4
        <4>2. ctx.used = MaxContext BY <1>7, <3>2, <4>1
        <4>3. Frame[results[n]] \in Nat \ {0} /\ Length[results[n]] \in Nat \ {0}
          BY ContextAssumption
        <4> QED BY <1>1, <3>1, <4>2, <4>3
      <3> QED BY <3>2, <3>3, <3>4
    <2> QED BY <2>1, <2>2
  <1>9. ctx.full /\ left = {} => ctx.used = MaxContext BY <1>4, <1>7
  <1>10. ASSUME NEW i \in 1 .. Len(sources)
         PROVE  /\ sources[i].rank \in 1 .. n
                /\ sources[i].chunk = results[sources[i].rank]
                /\ sources[i].chunk \notin Blank
                /\ \/ sources[i].taken = Length[sources[i].chunk]
                   \/ Len(sources) = 1 /\ ctx.used = MaxContext /\ ctx.full
                /\ \A j \in 1 .. i - 1 : sources[j].rank < sources[i].rank
    <2>1. sources[i].rank \in 1 .. n BY <1>2, <1>3
    <2> QED BY <2>1 DEF Packs
  <1> QED BY <1>1, <1>8, <1>9, <1>10 DEF Packs, left

\* The result that does not fit is the first that is left out.
LEMMA FillingPacks ==
  ASSUME NEW results \in Seq(Chunk), NEW n \in 1 .. Len(results), NEW ctx,
         Packs(results, n - 1, ctx), ~ctx.full, results[n] \notin Blank,
         LET available == MaxContext - ctx.used - Frame[results[n]]
         IN  available <= 0 \/ (Length[results[n]] > available /\ ctx.sources # << >>),
         NEW new, new = [ctx EXCEPT !.full = TRUE]
  PROVE  Packs(results, n, new)
  <1> DEFINE sources == ctx.sources
             used == ctx.used
             c == results[n]
             left == LeftOut(results, n, sources)
  <1>1. /\ ctx = [used |-> ctx.used, sources |-> sources, full |-> ctx.full]
        /\ used \in 0 .. MaxContext /\ sources \in Seq(Source)
        /\ sources = << >> => used = 0
    BY DEF Packs
  <1>2. \A i \in 1 .. Len(sources) :
          /\ sources[i].rank \in 1 .. n - 1
          /\ sources[i].chunk = results[sources[i].rank] /\ sources[i].chunk \notin Blank
          /\ sources[i].taken = Length[sources[i].chunk]
          /\ \A j \in 1 .. i - 1 : sources[j].rank < sources[i].rank
    BY DEF Packs
  <1>3. LeftOut(results, n - 1, sources) = {} BY DEF Packs
  <1>4. /\ Frame[c] \in Nat \ {0} /\ Length[c] \in Nat \ {0} /\ Frame[c] < MaxContext
        /\ n \in Nat /\ n >= 1 /\ MaxContext \in Int
    <2>1. c \in Chunk OBVIOUS
    <2> QED BY <2>1, ContextAssumption
  <1>5. left = {n}
    <2>1. n \notin {sources[i].rank : i \in DOMAIN sources}
      <3>1. DOMAIN sources = 1 .. Len(sources) BY <1>1
      <3>2. \A i \in DOMAIN sources : sources[i].rank \in 1 .. n - 1 BY <1>2, <3>1
      <3> HIDE DEF sources, c
      <3>3. n \notin 1 .. n - 1 BY <1>4
      <3> QED BY <3>2, <3>3
    <2>2. \A k \in left : k = n BY <1>3, <1>4 DEF LeftOut
    <2>3. n \in left BY <1>4, <2>1 DEF LeftOut
    <2> QED BY <2>2, <2>3
  <1>6. sources # << >> BY <1>1, <1>4
  <1>7. used + Frame[c] + Length[c] > MaxContext BY <1>1, <1>4
  <1>8. new.used = used /\ new.sources = sources /\ new.full = TRUE
        /\ new = [used |-> used, sources |-> sources, full |-> new.full]
    BY <1>1
  <1>9. ASSUME NEW k \in left
        PROVE  /\ \A i \in 1 .. Len(sources) : sources[i].rank < k
               /\ used + Frame[results[k]] + Length[results[k]] > MaxContext
    BY <1>2, <1>4, <1>5, <1>7
  <1>10. \A i \in 1 .. Len(sources) : sources[i].rank \in 1 .. n BY <1>2, <1>4
  <1>11. left # {} BY <1>5
  <1>12. new.full \in BOOLEAN BY <1>8
  <1> HIDE DEF left
  <1>13. left = LeftOut(results, n, new.sources) BY <1>8 DEF left
  <1> QED BY <1>1, <1>2, <1>6, <1>8, <1>9, <1>10, <1>11, <1>12, <1>13 DEF Packs

\* What fits into the rest of the budget keeps to the budget.
LEMMA RestIsEnough ==
  ASSUME NEW budget \in Nat, NEW spent \in Nat, NEW frame \in Nat, NEW part \in Nat,
         NEW rest, rest = budget - spent - frame, part <= rest
  PROVE  spent + frame + part \in Nat /\ spent + frame + part <= budget
  OBVIOUS

\* A source is appended: nothing is left out yet, and only the first may be cut.
LEMMA AppendingPacks ==
  ASSUME NEW results \in Seq(Chunk), NEW n \in 1 .. Len(results), NEW ctx,
         Packs(results, n - 1, ctx), ~ctx.full, results[n] \notin Blank,
         NEW available, available = MaxContext - ctx.used - Frame[results[n]],
         available > 0, Length[results[n]] <= available \/ ctx.sources = << >>,
         NEW taken,
         taken = IF Length[results[n]] < available THEN Length[results[n]] ELSE available,
         NEW source, source = [rank |-> n, chunk |-> results[n], taken |-> taken],
         NEW full \in BOOLEAN, full <=> taken < Length[results[n]],
         NEW new,
         new = [used |-> ctx.used + Frame[results[n]] + taken,
                sources |-> Append(ctx.sources, source), full |-> full]
  PROVE  Packs(results, n, new)
  <1> DEFINE sources == ctx.sources
             used == ctx.used
             c == results[n]
             all == new.sources
  <1>1. used \in 0 .. MaxContext /\ sources \in Seq(Source) /\ (sources = << >> => used = 0)
    BY DEF Packs
  <1>2. \A i \in 1 .. Len(sources) :
          /\ sources[i].rank \in 1 .. n - 1
          /\ sources[i].chunk = results[sources[i].rank] /\ sources[i].chunk \notin Blank
          /\ sources[i].taken = Length[sources[i].chunk]
          /\ \A j \in 1 .. i - 1 : sources[j].rank < sources[i].rank
    BY DEF Packs
  <1>3. LeftOut(results, n - 1, sources) = {} BY DEF Packs
  <1>4. /\ c \in Chunk
        /\ Frame[c] \in Nat \ {0} /\ Length[c] \in Nat \ {0} /\ Frame[c] < MaxContext
        /\ n \in Nat /\ n >= 1 /\ MaxContext \in Nat \ {0}
    <2>1. c \in Chunk OBVIOUS
    <2> QED BY <2>1, ContextAssumption
  <1>5. /\ taken \in Nat /\ new.used = used + Frame[c] + taken
        /\ new.used \in 0 .. MaxContext
        /\ ~(taken < Length[c]) => taken = Length[c]
        /\ taken < Length[c] => sources = << >> /\ new.used = MaxContext
    <2>1. new.used = used + Frame[c] + taken OBVIOUS
    <2>2. used \in Nat /\ used <= MaxContext BY <1>1, <1>4
    <2>3. available = MaxContext - used - Frame[c] OBVIOUS
    <2>4. taken = IF Length[c] < available THEN Length[c] ELSE available OBVIOUS
    <2>5. Length[c] <= available \/ sources = << >> OBVIOUS
    <2> HIDE DEF used, c, sources
    <2>6. taken \in Nat /\ taken <= available BY <1>4, <2>2, <2>3, <2>4
    <2>7. new.used \in Nat /\ new.used <= MaxContext
      <3>1. Frame[c] \in Nat BY <1>4
      <3>2. used + Frame[c] + taken \in Nat /\ used + Frame[c] + taken <= MaxContext
        BY <1>4, <2>2, <2>3, <2>6, <3>1, RestIsEnough
      <3> QED BY <2>1, <3>2
    <2>8. ~(taken < Length[c]) => taken = Length[c] BY <1>4, <2>4, <2>6
    <2>9. taken < Length[c] => taken = available /\ sources = << >>
      BY <1>4, <2>2, <2>3, <2>4, <2>5
    <2>10. taken = available => new.used = MaxContext BY <1>4, <2>1, <2>2, <2>3
    <2> QED BY <1>4, <2>1, <2>6, <2>7, <2>8, <2>9, <2>10
  <1>6. source \in Source BY <1>4, <1>5 DEF Source
  <1>7. /\ all = Append(sources, source) /\ all \in Seq(Source)
        /\ Len(all) = Len(sources) + 1 /\ all[Len(sources) + 1] = source
        /\ \A i \in 1 .. Len(sources) : all[i] = sources[i]
    BY <1>1, <1>6
  <1>8. /\ new = [used |-> new.used, sources |-> all, full |-> new.full]
        /\ new.full = full
    OBVIOUS
  <1> HIDE DEF all, sources, used, c
  <1>9. Len(sources) \in Nat /\ all # << >>
    <2>1. Len(sources) \in Nat BY <1>1
    <2> QED BY <1>7, <2>1
  <1>10. LeftOut(results, n, all) = {}
    <2> SUFFICES ASSUME NEW k \in 1 .. n, results[k] \notin Blank
                 PROVE  \E i \in DOMAIN all : all[i].rank = k
      BY DEF LeftOut
    <2>1. DOMAIN all = 1 .. Len(all) /\ DOMAIN sources = 1 .. Len(sources) BY <1>1, <1>7
    <2>2. CASE k = n
      <3>1. all[Len(sources) + 1].rank = k
        <4>1. source.rank = n OBVIOUS
        <4> QED BY <1>7, <2>2, <4>1
      <3>2. Len(sources) + 1 \in DOMAIN all BY <1>7, <1>9, <2>1
      <3> HIDE DEF all
      <3> QED BY <3>1, <3>2
    <2>3. CASE k # n
      <3>1. k \in 1 .. n - 1 BY <1>4, <2>3
      <3>2. PICK i \in DOMAIN sources : sources[i].rank = k BY <1>3, <3>1 DEF LeftOut
      <3> QED BY <1>7, <1>9, <2>1, <3>2
    <2> QED BY <2>2, <2>3
  <1>11. ASSUME NEW i \in 1 .. Len(all)
         PROVE  /\ all[i].rank \in 1 .. n
                /\ all[i].chunk = results[all[i].rank]
                /\ all[i].chunk \notin Blank
                /\ \/ all[i].taken = Length[all[i].chunk]
                   \/ Len(all) = 1 /\ new.used = MaxContext /\ new.full
                /\ \A j \in 1 .. i - 1 : all[j].rank < all[i].rank
    <2>1. CASE i \in 1 .. Len(sources)
      <3>1. all[i] = sources[i] /\ all[i].rank \in 1 .. n BY <1>2, <1>4, <1>7, <2>1
      <3>2. \A j \in 1 .. i - 1 : all[j] = sources[j] BY <1>7, <1>9, <2>1
      <3> QED BY <1>2, <2>1, <3>1, <3>2
    <2>2. CASE i = Len(sources) + 1
      <3>1. all[i].rank = n /\ all[i].chunk = c /\ all[i].taken = taken BY <1>7, <2>2 DEF c
      <3>2. \A j \in 1 .. i - 1 : all[j].rank < n BY <1>2, <1>4, <1>7, <1>9, <2>2
      <3>3. taken = Length[c] \/ (Len(all) = 1 /\ new.used = MaxContext /\ new.full)
        <4>1. CASE taken < Length[c]
          <5>1. sources = << >> /\ new.used = MaxContext BY <1>5, <4>1
          <5>2. Len(all) = 1 BY <1>7, <5>1
          <5>3. new.full BY <1>8, <4>1 DEF c
          <5> QED BY <5>1, <5>2, <5>3
        <4> QED BY <1>5, <4>1
      <3> QED BY <1>4, <3>1, <3>2, <3>3 DEF c
    <2> QED BY <1>7, <1>9, <2>1, <2>2
  <1>12. new.full => new.used = MaxContext BY <1>5, <1>8 DEF c
  <1> QED BY <1>5, <1>7, <1>8, <1>9, <1>10, <1>11, <1>12 DEF Packs, all

\* Every turn of the loop keeps what the turns before it left.
LEMMA PackedPacks ==
  ASSUME NEW results \in Seq(Chunk), NEW n \in 1 .. Len(results), NEW ctx,
         Packs(results, n - 1, ctx)
  PROVE  Packs(results, n, Packed(ctx, n, results[n]))
  <1> DEFINE c == results[n]
             available == MaxContext - ctx.used - Frame[c]
             taken == IF Length[c] < available THEN Length[c] ELSE available
             new == Packed(ctx, n, c)
  <1>1. CASE ctx.full \/ c \in Blank
    <2>1. new = ctx BY <1>1 DEF Packed
    <2> QED BY <1>1, <2>1, SkippingPacks
  <1>2. CASE ~ctx.full /\ c \notin Blank
             /\ (available <= 0 \/ (Length[c] > available /\ ctx.sources # << >>))
    <2>1. new = [ctx EXCEPT !.full = TRUE] BY <1>2 DEF Packed
    <2> HIDE DEF new
    <2>2. Packs(results, n, new) BY <1>2, <2>1, FillingPacks
    <2> QED BY <2>2 DEF new
  <1>3. CASE ~ctx.full /\ c \notin Blank
             /\ ~(available <= 0 \/ (Length[c] > available /\ ctx.sources # << >>))
    <2> DEFINE source == [rank |-> n, chunk |-> c, taken |-> taken]
               full == taken < Length[c]
    <2>1. new = [used |-> ctx.used + Frame[c] + taken,
                 sources |-> Append(ctx.sources, source), full |-> full]
      BY <1>3 DEF Packed
    <2>2. c \in Chunk /\ ctx.used \in Int /\ ctx.sources \in Seq(Source) BY DEF Packs
    <2>3. /\ Length[c] \in Int /\ available \in Int
      BY <2>2, ContextAssumption
    <2>4. available > 0 /\ (Length[c] <= available \/ ctx.sources = << >>) BY <1>3, <2>3
    <2>5. full \in BOOLEAN /\ (full <=> taken < Length[c]) OBVIOUS
    <2>6. taken = IF Length[c] < available THEN Length[c] ELSE available OBVIOUS
    <2>7. available = MaxContext - ctx.used - Frame[c] OBVIOUS
    <2>8. source = [rank |-> n, chunk |-> c, taken |-> taken] OBVIOUS
    <2> HIDE DEF new, available, taken, source, full
    <2>9. Packs(results, n, new)
      BY <1>3, <2>1, <2>4, <2>5, <2>6, <2>7, <2>8, AppendingPacks
    <2> QED BY <2>9 DEF new
  <1> QED BY <1>1, <1>2, <1>3

\* The loop over all results: by induction on its turns.
LEMMA ContextPacks ==
  ASSUME NEW results \in Seq(Chunk)
  PROVE  Packs(results, Len(results), Context(results))
  <1> DEFINE L == Len(results)
             T == Turns(results)
             S == {n \in 0 .. L : Packs(results, n, T[n])}
  <1>1. /\ T[0] = EmptyContext
        /\ \A n \in 1 .. L : T[n] = Packed(T[n - 1], n, results[n])
    BY TurnsAre
  <1>2. L \in Nat OBVIOUS
  <1>3. 0 \in S
    <2>1. T[0] = EmptyContext BY <1>1
    <2>2. Packs(results, 0, EmptyContext)
      <3> DEFINE e == EmptyContext
      <3>1. /\ e.used = 0 /\ e.sources = << >> /\ e.full \in BOOLEAN /\ ~e.full
            /\ e = [used |-> e.used, sources |-> e.sources, full |-> e.full]
        BY Zenon DEF EmptyContext
      <3>2. LeftOut(results, 0, e.sources) = {} BY DEF LeftOut
      <3>3. MaxContext \in Nat BY ContextAssumption
      <3> HIDE DEF e
      <3>4. Packs(results, 0, e) BY <3>1, <3>2, <3>3 DEF Packs
      <3> QED BY <3>4 DEF e
    <2> QED BY <1>2, <2>1, <2>2
  <1>4. ASSUME NEW m \in 0 .. L - 1, m \in S PROVE m + 1 \in S
    <2>1. m + 1 \in 1 .. L /\ (m + 1) - 1 = m BY <1>2
    <2>2. T[m + 1] = Packed(T[m], m + 1, results[m + 1])
      <3> HIDE DEF T, L
      <3> QED BY <1>1, <2>1
    <2>3. Packs(results, (m + 1) - 1, T[m]) BY <1>4, <2>1
    <2> HIDE DEF T
    <2>4. Packs(results, m + 1, Packed(T[m], m + 1, results[m + 1])) BY <2>1, <2>3, PackedPacks
    <2> QED BY <1>2, <2>1, <2>2, <2>4
  <1>5. L \in S
    <2> HIDE DEF S, L
    <2>1. 0 .. L \subseteq S BY <1>2, <1>3, <1>4, SetInduction
    <2> QED BY <1>2, <2>1
  <1> QED BY <1>5 DEF Context

-----------------------------------------------------------------------------

\* The inductive invariant of the context: an answer is built on a search that
\* is over, and holds what that search's results pack into.
ContextInv ==
  \A r \in Requests : rag[r].pc # "none" =>
    LET context == Context(rq[r].results)
    IN  /\ rq[r].pc = "answered"
        /\ rag[r].sources = context.sources /\ rag[r].used = context.used

\* A search that is over stays as it is.
LEMMA AnsweredStays ==
  ASSUME SearchesInv, [Next]_vars, NEW r \in Requests, rq[r].pc = "answered"
  PROVE  rq'[r] = rq[r]
  <1>1. CASE rq' = rq BY <1>1
  <1>2. CASE \E s \in Requests : \E state : rq[s].pc # "answered" /\ rq' = [rq EXCEPT ![s] = state]
    BY <1>2 DEF SearchesInv
  <1>3. CASE UNCHANGED vars \/ \E d \in Docs : Activate(d)
    BY <1>1, <1>3 DEF vars, Activate
  <1>4. ASSUME NEW s \in Requests,
               \/ Begin(s) \/ ReadVector(s) \/ ReadKeyword(s) \/ Collect(s) \/ Fuse(s)
               \/ Rerank(s) \/ Record(s) \/ RecordFails(s) \/ SearchFails(s)
        PROVE  \E state : rq[s].pc # "answered" /\ rq' = [rq EXCEPT ![s] = state]
    <2>1. CASE Begin(s) BY <2>1 DEF Begin, Become
    <2>2. CASE ReadVector(s) BY <2>2 DEF ReadVector, Become
    <2>3. CASE ReadKeyword(s) BY <2>3 DEF ReadKeyword, Become
    <2>4. CASE Collect(s) BY <2>4 DEF Collect, Become
    <2>5. CASE Fuse(s) BY <2>5 DEF Fuse, Become
    <2>6. CASE Rerank(s) BY <2>6 DEF Rerank, Become
    <2>7. CASE Record(s) BY <2>7 DEF Record, Become
    <2>8. CASE RecordFails(s) BY <2>8 DEF RecordFails, Become
    <2>9. CASE SearchFails(s) BY <2>9 DEF SearchFails, Become
    <2> QED BY <1>4, <2>1, <2>2, <2>3, <2>4, <2>5, <2>6, <2>7, <2>8, <2>9
  <1> QED BY <1>2, <1>3, <1>4 DEF Next

\* After the context is packed no step touches the sources.
LEMMA SourcesStay ==
  ASSUME RagInv, NEW r \in Requests,
         Generate(r) \/ GenerateFails(r) \/ Review(r) \/ ReviewFails(r) \/ Respond(r)
  PROVE  /\ rag'[r].sources = rag[r].sources /\ rag'[r].used = rag[r].used
         /\ rag[r].pc # "none"
  <1> DEFINE old == rag[r]
  <1>1. old = Fields(old) BY DEF RagInv, RequestInv
  <1>2. ASSUME NEW new, rag' = [rag EXCEPT ![r] = new] PROVE rag'[r] = new
    BY <1>2 DEF RagInv
  <1>3. CASE Generate(r)
    <2>1. PICK answer \in Answers :
            LET findings == Findings(answer, Len(old.sources))
                omitted  == Omitted(answer)
                answered == [old EXCEPT !.answer = answer, !.pc = "respond"]
            IN  Turn(r, IF ~old.verify THEN answered
                   ELSE [answered EXCEPT
                     !.findings = findings, !.omitted = omitted,
                     !.pc     = IF Reviewable(findings) = {} THEN "respond" ELSE "review",
                     !.review = IF Reviewable(findings) # {} THEN "none"
                                ELSE ReviewStatus(findings, omitted, "not_applicable")])
      BY <1>3 DEF Generate
    <2> DEFINE findings == Findings(answer, Len(old.sources))
               omitted  == Omitted(answer)
               pc       == IF Reviewable(findings) = {} THEN "respond" ELSE "review"
               review   == IF Reviewable(findings) # {} THEN "none"
                           ELSE ReviewStatus(findings, omitted, "not_applicable")
    <2>2. rag'[r] = IF ~old.verify THEN [old EXCEPT !.answer = answer, !.pc = "respond"]
                    ELSE [[old EXCEPT !.answer = answer, !.pc = "respond"] EXCEPT
                            !.findings = findings, !.omitted = omitted,
                            !.pc = pc, !.review = review]
      BY <1>2, <2>1 DEF Turn
    <2>3. old.pc = "generate" BY <1>3 DEF Generate
    <2> HIDE DEF findings, omitted, pc, review
    <2>4. CASE ~old.verify BY <1>1, <2>2, <2>3, <2>4 DEF Fields
    <2>5. CASE old.verify BY <1>1, <2>2, <2>3, <2>5 DEF Fields
    <2> QED BY <2>4, <2>5
  <1>4. CASE GenerateFails(r) BY <1>1, <1>2, <1>4 DEF GenerateFails, Turn, Fields
  <1>5. CASE Review(r)
    <2>1. PICK reply \in Replies :
            LET finished == Finished(old.findings, reply)
            IN  Turn(r, IF ValidReply(reply, Reviewable(old.findings))
                  THEN [old EXCEPT !.pc = "respond", !.findings = finished, !.reply = reply,
                          !.review = ReviewStatus(finished, old.omitted, "completed")]
                  ELSE [old EXCEPT !.pc = "respond", !.review = "unavailable"])
      BY <1>5 DEF Review
    <2>2. \E findings, review :
            \/ rag'[r] = [old EXCEPT !.pc = "respond", !.findings = findings,
                            !.reply = reply, !.review = review]
            \/ rag'[r] = [old EXCEPT !.pc = "respond", !.review = review]
      BY <1>2, <2>1 DEF Turn
    <2>3. old.pc = "review" BY <1>5 DEF Review
    <2> QED BY <1>1, <2>2, <2>3 DEF Fields
  <1>6. CASE ReviewFails(r) BY <1>1, <1>2, <1>6 DEF ReviewFails, Turn, Fields
  <1>7. CASE Respond(r) BY <1>1, <1>2, <1>7 DEF Respond, Turn, Fields
  <1> QED BY <1>3, <1>4, <1>5, <1>6, <1>7

LEMMA ContextStep ==
  RagInv /\ SearchesInv /\ ContextInv /\ [RagNext]_ragVars => ContextInv'
  <1> SUFFICES ASSUME RagInv, SearchesInv, ContextInv, [RagNext]_ragVars PROVE ContextInv'
    OBVIOUS
  <1>1. [Next]_vars
    BY DEF RagNext, ragVars, Ask, Generate, GenerateFails, Review, ReviewFails, Respond, Turn
  <1> SUFFICES ASSUME NEW r \in Requests, rag'[r].pc # "none"
               PROVE  LET context == Context(rq'[r].results)
                      IN  /\ rq'[r].pc = "answered"
                          /\ rag'[r].sources = context.sources /\ rag'[r].used = context.used
    BY DEF ContextInv
  <1>2. ASSUME rag'[r].sources = rag[r].sources, rag'[r].used = rag[r].used, rag[r].pc # "none"
        PROVE  LET context == Context(rq'[r].results)
               IN  /\ rq'[r].pc = "answered"
                   /\ rag'[r].sources = context.sources /\ rag'[r].used = context.used
    <2>1. rq[r].pc = "answered" BY <1>2 DEF ContextInv
    <2>2. rq'[r] = rq[r] BY <1>1, <2>1, AnsweredStays
    <2> QED BY <1>2, <2>2 DEF ContextInv
  <1>3. CASE rag'[r] = rag[r] BY <1>2, <1>3
  <1>4. CASE Ask(r)
    <2> DEFINE context == Context(rq[r].results)
               asked == [NoAnswer EXCEPT !.sources = context.sources, !.used = context.used]
    <2>1. rq' = rq /\ rq[r].pc = "answered" BY <1>4 DEF Ask, Turn, vars
    <2>2. \E verify \in BOOLEAN : \E pc :
            rag' = [rag EXCEPT ![r] = [asked EXCEPT !.verify = verify, !.pc = pc]]
      BY <1>4 DEF Ask, Turn
    <2>3. PICK verify \in BOOLEAN : \E pc :
            rag' = [rag EXCEPT ![r] = [asked EXCEPT !.verify = verify, !.pc = pc]]
      BY <2>2
    <2>5. PICK pc : rag' = [rag EXCEPT ![r] = [asked EXCEPT !.verify = verify, !.pc = pc]]
      BY <2>3
    <2>6. rag'[r] = [asked EXCEPT !.verify = verify, !.pc = pc] BY <2>5 DEF RagInv
    <2> HIDE DEF context
    <2>4. rag'[r].sources = context.sources /\ rag'[r].used = context.used
      BY <2>6 DEF NoAnswer
    <2> QED BY <2>1, <2>4 DEF context
  <1>5. CASE Generate(r) \/ GenerateFails(r) \/ Review(r) \/ ReviewFails(r) \/ Respond(r)
    BY <1>2, <1>5, SourcesStay
  <1>6. ASSUME NEW s \in Requests \ {r},
               \/ Ask(s) \/ Generate(s) \/ GenerateFails(s)
               \/ Review(s) \/ ReviewFails(s) \/ Respond(s)
        PROVE  rag'[r] = rag[r]
    <2>1. \E state : rag' = [rag EXCEPT ![s] = state]
      BY <1>6 DEF Ask, Generate, GenerateFails, Review, ReviewFails, Respond, Turn
    <2> QED BY <2>1 DEF RagInv
  <1> QED BY <1>3, <1>4, <1>5, <1>6 DEF RagNext, ragVars

LEMMA ContextInit == RagInit => ContextInv
  BY DEF RagInit, ContextInv, NoAnswer

\* What the loop leaves is what an answer may rest on, under the trace that was
\* stored of its search.
LEMMA PackedContextIsFaithful ==
  ASSUME SearchesInv, ContextInv
  PROVE  ContextIsFaithful
  <1> SUFFICES ASSUME NEW r \in Requests, rag[r].pc # "none"
               PROVE  \E t \in traces :
      LET sources == rag[r].sources
          used    == rag[r].used
          left    == {k \in DOMAIN t.results : t.results[k].chunk \notin Blank}
                       \ {sources[i].rank : i \in DOMAIN sources}
      IN  /\ t.search = r
          /\ \A i \in DOMAIN sources :
               /\ sources[i].rank \in DOMAIN t.results
               /\ sources[i].chunk = t.results[sources[i].rank].chunk
               /\ sources[i].chunk \notin Blank
               /\ \/ sources[i].taken = Length[sources[i].chunk]
                  \/ Len(sources) = 1 /\ used = MaxContext
               /\ \A j \in 1 .. i - 1 : sources[j].rank < sources[i].rank
          /\ used <= MaxContext
          /\ \A k \in left :
               /\ sources # << >> /\ \A i \in DOMAIN sources : sources[i].rank < k
               /\ (\A l \in left : k <= l) =>
                    used + Frame[t.results[k].chunk] + Length[t.results[k].chunk] > MaxContext
    BY DEF ContextIsFaithful
  <1> DEFINE t == Trace(r)
             results == rq[r].results
             ctx == Context(results)
             sources == rag[r].sources
             used == rag[r].used
             left == LeftOut(results, Len(results), sources)
  <1>1. t \in traces /\ results \in Seq(Chunk)
        /\ sources = ctx.sources /\ used = ctx.used
    BY ShotsAre DEF SearchesInv, Recorded, ContextInv, SearchInv, ResultInv
  <1>2. /\ t.search = r /\ DOMAIN t.results = DOMAIN results
        /\ \A k \in DOMAIN results : t.results[k].chunk = results[k]
    BY DEF Trace, Snapshots
  <1>3. DOMAIN results = 1 .. Len(results) BY <1>1
  <1> HIDE DEF ctx, t, results, sources, used
  <1>4. Packs(results, Len(results), ctx) BY <1>1, ContextPacks DEF ctx
  <1>5. /\ sources \in Seq(Source) /\ DOMAIN sources = 1 .. Len(sources)
        /\ used \in 0 .. MaxContext
        /\ \A k \in left : ctx.full
        /\ sources = << >> => ~ctx.full
    BY <1>1, <1>4 DEF Packs
  <1>6. \A i \in 1 .. Len(sources) :
          /\ sources[i].rank \in 1 .. Len(results)
          /\ sources[i].chunk = results[sources[i].rank]
          /\ sources[i].chunk \notin Blank
          /\ \/ sources[i].taken = Length[sources[i].chunk]
             \/ Len(sources) = 1 /\ used = MaxContext
          /\ \A j \in 1 .. i - 1 : sources[j].rank < sources[i].rank
    BY <1>1, <1>4 DEF Packs
  <1>7. \A k \in left :
          /\ k \in 1 .. Len(results)
          /\ \A i \in 1 .. Len(sources) : sources[i].rank < k
          /\ (\A l \in left : k <= l) =>
               used + Frame[results[k]] + Length[results[k]] > MaxContext
    BY <1>1, <1>4 DEF Packs, LeftOut
  <1>8. left = {k \in DOMAIN t.results : t.results[k].chunk \notin Blank}
                 \ {sources[i].rank : i \in DOMAIN sources}
    BY <1>2, <1>3 DEF LeftOut
  <1>9. used <= MaxContext BY <1>5, ContextAssumption
  <1> HIDE DEF left
  <1>10. \A i \in DOMAIN sources :
           /\ sources[i].rank \in DOMAIN t.results
           /\ sources[i].chunk = t.results[sources[i].rank].chunk
           /\ sources[i].chunk \notin Blank
           /\ \/ sources[i].taken = Length[sources[i].chunk]
              \/ Len(sources) = 1 /\ used = MaxContext
           /\ \A j \in 1 .. i - 1 : sources[j].rank < sources[i].rank
    BY <1>2, <1>3, <1>5, <1>6
  <1>11. \A k \in left :
           /\ sources # << >> /\ \A i \in DOMAIN sources : sources[i].rank < k
           /\ (\A l \in left : k <= l) =>
                used + Frame[t.results[k].chunk] + Length[t.results[k].chunk] > MaxContext
    BY <1>2, <1>3, <1>5, <1>7
  <1> QED BY <1>1, <1>2, <1>8, <1>9, <1>10, <1>11 DEF sources, used

\* An answer rests on the longest run of its traced results that fits into the
\* context, and on nothing else (_build_context): by induction on the turns of
\* the loop, and with the searches' own invariant.
THEOREM ContextFaithful == RagSpec => []ContextIsFaithful
  <1>1. RagSpec => []RagInv
    BY InitKeeps, StepKeeps, PTL DEF RagSpec
  <1>2. RagSpec => []SearchesInv
    BY RagSearches, Searches, PTL
  <1>3. RagSpec => []ContextInv
    BY <1>1, <1>2, ContextInit, ContextStep, PTL DEF RagSpec
  <1>4. SearchesInv /\ ContextInv => ContextIsFaithful BY PackedContextIsFaithful
  <1> QED BY <1>2, <1>3, <1>4, PTL
=============================================================================
