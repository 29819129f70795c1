------------------------------ MODULE RagAnswer ------------------------------
(***************************************************************************)
(* Grounded answers: a hybrid search without filters or reranking, whose   *)
(* results are packed into a bounded context; a model answers from it, and *)
(* on request a second call reviews which claims the cited sources bear.   *)
(*                                                                         *)
(* An answer is the pieces it splits into.  A piece is a fact, one too     *)
(* long to review, or nothing but labels, and cites source numbers.        *)
(***************************************************************************)
EXTENDS HybridRetrieval, Integers

CONSTANTS
  Frame,           \* characters of a source's header and footer
  Length,          \* characters of a chunk's text
  Blank,           \* chunks whose text is white space
  MaxContext,      \* MAX_RAG_CONTEXT_CHARACTERS
  Answers,         \* what the model may answer
  MaxClaims,       \* MAX_REVIEWED_CLAIMS
  MaxLabels,       \* max_length of ClaimAssessmentResponse.cited_labels
  Replies          \* what the reviewer may reply, as <<id, verdict>> entries

Piece == [kind : {"fact", "long", "labels"}, cites : SUBSET Nat]

ASSUME ContextAssumption ==
  /\ MaxContext \in Nat \ {0}
  /\ \A c \in Chunk : Frame[c] \in Nat \ {0} /\ Length[c] \in Nat \ {0}
  /\ \A c \in Chunk : Frame[c] < MaxContext
  /\ Blank \subseteq Chunk
ASSUME ReviewAssumption ==
  /\ MaxClaims \in Nat \ {0}
  /\ Limit <= MaxLabels
  /\ Answers \subseteq [oversized : BOOLEAN, pieces : Seq(Piece) \ {<< >>}]
  /\ Replies \subseteq Seq(Nat \X STRING)

Verdicts == {"supported", "unsupported", "uncertain"}

VARIABLE rag       \* what each answer request holds after its search

ragVars == <<vars, rag>>

NoAnswer == [pc |-> "none", verify |-> FALSE, sources |-> << >>, used |-> 0,
             answer |-> [oversized |-> FALSE, pieces |-> << >>],
             findings |-> [i \in {} |-> "none"], omitted |-> 0, review |-> "none", reply |-> << >>]

-----------------------------------------------------------------------------

\* One turn of the loop over the results, for the chunk c at a rank.
PackedSkippingLarge(ctx, rank, c) ==
  LET available == MaxContext - ctx.used - Frame[c]
      taken     == IF Length[c] < available THEN Length[c] ELSE available
  IN  IF c \in Blank \/ available <= 0 \/ (Length[c] > available /\ ctx.sources # << >>)
        THEN ctx
        ELSE [ctx EXCEPT !.used = @ + Frame[c] + taken,
                         !.sources = Append(@, [rank |-> rank, chunk |-> c, taken |-> taken])]

Packed(ctx, rank, c) ==
  LET available == MaxContext - ctx.used - Frame[c]
      taken     == IF Length[c] < available THEN Length[c] ELSE available
  IN  IF ctx.full \/ c \in Blank
        THEN ctx
      ELSE IF available <= 0 \/ (Length[c] > available /\ ctx.sources # << >>)
        THEN [ctx EXCEPT !.full = TRUE]
      ELSE [used    |-> ctx.used + Frame[c] + taken,
            sources |-> Append(ctx.sources, [rank |-> rank, chunk |-> c, taken |-> taken]),
            full    |-> taken < Length[c]]

EmptyContext == [used |-> 0, sources |-> << >>, full |-> FALSE]

\* The context before the loop and after each of its turns.
Turns(results) ==
  LET after[n \in 0 .. Len(results)] ==
        IF n = 0 THEN EmptyContext ELSE Packed(after[n - 1], n, results[n])
  IN  after

\* _build_context.
Context(results) == Turns(results)[Len(results)]

\* The verdict on a piece before any review, given how many sources there are.
Precheck(piece, known) ==
  IF piece.kind = "long" THEN "not_checked"
  ELSE IF piece.cites = {} THEN "missing_citation"
  ELSE IF ~(piece.cites \subseteq 1 .. known) THEN "invalid_citation"
  ELSE "awaiting"

\* _claims, by id.  Labels alone make no claim, and an oversized answer makes one
\* that is not looked at.  "awaiting" is not_checked with the reason that it
\* awaits the reviewer.
Findings(answer, known) ==
  IF answer.oversized
    THEN [i \in {1} |-> [cites |-> {}, status |-> "not_checked"]]
    ELSE LET claims == {k \in DOMAIN answer.pieces :
                          k <= MaxClaims /\ answer.pieces[k].kind # "labels"}
         IN  [i \in claims |-> [cites  |-> answer.pieces[i].cites,
                               status |-> Precheck(answer.pieces[i], known)]]

Omitted(answer) ==
  LET shown == IF answer.oversized THEN 1 ELSE MaxClaims
  IN  IF Len(answer.pieces) > shown THEN Len(answer.pieces) - shown ELSE 0

Reviewable(findings) == {i \in DOMAIN findings : findings[i].status = "awaiting"}

VerdictsOfKnownIds(reply, ids) ==
  \A n \in DOMAIN reply : reply[n][1] \in ids /\ reply[n][2] \in Verdicts

\* _require_model_verdicts: one allowed verdict for each claim that was asked.
ValidReply(reply, ids) ==
  /\ Len(reply) = Cardinality(ids)
  /\ \A n \in DOMAIN reply :
       /\ reply[n][1] \in ids
       /\ reply[n][2] \in Verdicts
       /\ \A k \in 1 .. n - 1 : reply[k][1] # reply[n][1]

ModelStatus(verdict) ==
  CASE verdict = "supported"   -> "model_supported"
    [] verdict = "unsupported" -> "model_unsupported"
    [] verdict = "uncertain"   -> "model_uncertain"

\* The last verdict on a claim wins, as in the dictionary of results.
Finished(findings, reply) ==
  [i \in DOMAIN findings |->
     LET about == {k \in DOMAIN reply : reply[k][1] = i}
     IN  IF about = {} THEN findings[i]
         ELSE [findings[i] EXCEPT !.status = ModelStatus(reply[Max(about)][2])]]

Undecided == {"awaiting", "not_checked"}

\* How the review as a whole is reported when nothing failed.
ReviewStatus(findings, omitted, done) ==
  IF \/ omitted > 0
     \/ \E i \in DOMAIN findings : findings[i].status \in Undecided
    THEN "partial" ELSE done

-----------------------------------------------------------------------------

Turn(r, state) == rag' = [rag EXCEPT ![r] = state] /\ UNCHANGED vars

\* The search of an answer request has returned its matches.
Ask(r) ==
  /\ rag[r].pc = "none"
  /\ rq[r].pc = "answered" /\ rq[r].mode = "hybrid" /\ ~rq[r].rerank /\ rq[r].filter = Docs
  /\ LET context == Context(rq[r].results)
         asked   == [NoAnswer EXCEPT !.sources = context.sources, !.used = context.used]
     IN  \E verify \in BOOLEAN :
           Turn(r, [asked EXCEPT !.verify = verify,
             !.pc = IF rq[r].results = << >> THEN "replied"
                    ELSE IF context.sources = << >> THEN "rejected" ELSE "generate"])

\* The model answers; a review starts with what needs no model.
Generate(r) ==
  /\ rag[r].pc = "generate"
  /\ \E answer \in Answers :
       LET findings == Findings(answer, Len(rag[r].sources))
           omitted  == Omitted(answer)
           answered == [rag[r] EXCEPT !.answer = answer, !.pc = "respond"]
       IN  Turn(r, IF ~rag[r].verify THEN answered
                   ELSE [answered EXCEPT
                     !.findings = findings, !.omitted = omitted,
                     !.pc     = IF Reviewable(findings) = {} THEN "respond" ELSE "review",
                     !.review = IF Reviewable(findings) # {} THEN "none"
                                ELSE ReviewStatus(findings, omitted, "not_applicable")])

\* The model fails or answers nothing: the search was traced all the same.
GenerateFails(r) == rag[r].pc = "generate" /\ Turn(r, [rag[r] EXCEPT !.pc = "failed"])

\* The reviewer replies.
Review(r) ==
  /\ rag[r].pc = "review"
  /\ \E reply \in Replies :
       LET finished == Finished(rag[r].findings, reply)
       IN  Turn(r, IF ValidReply(reply, Reviewable(rag[r].findings))
             THEN [rag[r] EXCEPT !.pc = "respond", !.findings = finished, !.reply = reply,
                     !.review = ReviewStatus(finished, rag[r].omitted, "completed")]
             ELSE [rag[r] EXCEPT !.pc = "respond", !.review = "unavailable"])

ReviewFailsTheRequest(r) ==
  rag[r].pc = "review" /\ Turn(r, [rag[r] EXCEPT !.pc = "failed"])

\* The reviewer fails, or its prompt is too long to be sent.
ReviewFails(r) ==
  /\ rag[r].pc = "review"
  /\ Turn(r, [rag[r] EXCEPT !.pc = "respond", !.review = "unavailable"])

\* The response is built; it holds at most MaxLabels labels for a claim.
Respond(r) ==
  /\ rag[r].pc = "respond"
  /\ Turn(r, [rag[r] EXCEPT !.pc =
       IF \A i \in DOMAIN rag[r].findings : Cardinality(rag[r].findings[i].cites) <= MaxLabels
         THEN "replied" ELSE "failed"])

RagInit == Init /\ rag = [r \in Requests |-> NoAnswer]

RagNext ==
  \/ Next /\ UNCHANGED rag
  \/ \E r \in Requests :
       \/ Ask(r) \/ Generate(r) \/ GenerateFails(r)
       \/ Review(r) \/ ReviewFails(r) \/ Respond(r)

RagSpec == RagInit /\ [][RagNext]_ragVars

-----------------------------------------------------------------------------

\* The sources an answer rests on are the longest run of the traced results,
\* blank ones left out, that fits: in rank order, each under its own rank, and
\* whole, unless the first alone is too long.  They keep to the budget, and of
\* the results that are left out the first would not.
ContextIsFaithful ==
  \A r \in Requests : rag[r].pc # "none" =>
    \E t \in traces :
      LET sources == rag[r].sources
          used    == rag[r].used
          left    == {k \in DOMAIN t.results : t.results[k].chunk \notin Blank}
                       \ {sources[i].rank : i \in DOMAIN sources}
      IN  /\ t.search = r
          /\ \A i \in DOMAIN sources :
               /\ sources[i].rank \in DOMAIN t.results
               /\ sources[i].chunk = t.results[sources[i].rank].chunk
               /\ sources[i].chunk \notin Blank
               /\ \/ sources[i].taken = Length[sources[i].chunk]
                  \/ Len(sources) = 1 /\ used = MaxContext
               /\ \A j \in 1 .. i - 1 : sources[j].rank < sources[i].rank
          /\ used <= MaxContext
          /\ \A k \in left :
               /\ sources # << >> /\ \A i \in DOMAIN sources : sources[i].rank < k
               /\ (\A l \in left : k <= l) =>
                    used + Frame[t.results[k].chunk] + Length[t.results[k].chunk] > MaxContext

OfModel(status) == \E v \in Verdicts : status = ModelStatus(v)

\* A claim with a verdict of the model cites sources the answer has, and the
\* verdict is the one the reviewer gave it.
Founded(a, i) ==
  /\ a.findings[i].cites # {} /\ a.findings[i].cites \subseteq 1 .. Len(a.sources)
  /\ \E k \in DOMAIN a.reply : a.reply[k][1] = i
  /\ \A k \in DOMAIN a.reply :
       a.reply[k][1] = i => ModelStatus(a.reply[k][2]) = a.findings[i].status

Honest(a) ==
  a.pc \in {"respond", "replied"} /\ a.verify =>
    /\ \A i \in DOMAIN a.findings : OfModel(a.findings[i].status) => Founded(a, i)
    /\ a.review = "completed" =>
         \A i \in DOMAIN a.answer.pieces : a.answer.pieces[i].kind # "labels" =>
           i \in DOMAIN a.findings /\ a.findings[i].status \notin Undecided
    /\ a.review = "unavailable" =>
         \A i \in DOMAIN a.findings : ~OfModel(a.findings[i].status)

\* A review claims no more than was done: a model's verdict is on a claim that
\* cites sources the answer has, and is what the reviewer said of it;
\* "completed" leaves no piece of the answer unseen; "unavailable" has no
\* verdict.
ReviewIsHonest == \A r \in Requests : Honest(rag[r])

\* Reviewing takes nothing away: once the model has answered, neither a failed
\* nor a senseless review loses the answer or changes what it rests on, and it
\* decides only claims that awaited it.  What does lose it is a claim with more
\* labels than a response may hold.
ReviewKeepsAnswer ==
  [][\A r \in Requests : rag[r].pc \in {"review", "respond"} =>
       LET old == rag[r]  new == rag'[r]
       IN  /\ <<new.answer, new.sources, new.omitted>> = <<old.answer, old.sources, old.omitted>>
           /\ DOMAIN new.findings = DOMAIN old.findings
           /\ \A i \in DOMAIN new.findings :
                new.findings[i] = old.findings[i] \/ old.findings[i].status = "awaiting"
           /\ new.pc = "failed" =>
                \E i \in DOMAIN new.findings :
                  ~(Cardinality(new.findings[i].cites) <= MaxLabels)]_ragVars
=============================================================================
