-------------------------------- MODULE Planning --------------------------------
(***************************************************************************)
(* From a sentence to a running plan: the fast lane and the planner, whose *)
(* answers come from a language model and may be anything of their schema, *)
(* the corrections the code makes, TaskPlanValidator, the question put to  *)
(* the user, the check of residence, and the reruns of a plan on a later   *)
(* day (agents/graph, planner, fast_lane, plan_assembly, validator,        *)
(* orchestration/boundary, demo_service).                                  *)
(*                                                                         *)
(* A literal is named by where it comes from, an identifier T3 is 3, and a *)
(* tool keeps one input field of each kind the code treats differently.    *)
(***************************************************************************)
EXTENDS Naturals, FiniteSets, Sequences, SequencesExt

CONSTANTS Responses,   \* what the model may answer to the planner
          Predictions, \* what it may answer to the fast lane
          Contexts,    \* the fields the account and the conversation may know
          MaxRounds    \* BOUND on the requests of one conversation

\* What the schemas of the two answers fix: a plan is a list of steps, each with its number;
\* the fast lane names tools of its menu, and is told nothing of older conversations.
StepParts == {"id", "tool", "deps", "input"}
ASSUME PlanningAssumptions ==
  /\ \A r \in Responses : /\ r.plan \in Seq(ToSet(r.plan))
                          /\ \A i \in DOMAIN r.plan : DOMAIN r.plan[i] = StepParts /\ r.plan[i].id \in Nat \ {0}
  /\ \A g \in Predictions : /\ g.tools \in SUBSET {"register_vehicle", "book_parking", "schedule_move"}
                            /\ \A f \in DOMAIN g.found : g.found[f] # "remembered"

Retries == 1  \* _MAX_CORRECTIVE_RETRIES

Inputs == [register_vehicle |-> {"resident_id", "plate_number"},
           book_parking |-> {"vehicle_id", "booking_date"},
           pay_fee |-> {"booking_id", "amount"},
           schedule_move |-> {"move_origin_id"},
           register_resident |-> {"apartment_code"}]
Outputs == [t \in DOMAIN Inputs |-> CASE t = "register_vehicle" -> {"vehicle_id"}
                                      [] t = "book_parking" -> {"booking_id", "amount"}
                                      [] OTHER -> {}]
InputFields == UNION {Inputs[t] : t \in DOMAIN Inputs}
Kind(f) == CASE f = "amount" -> "integer" [] f = "booking_date" -> "date" [] OTHER -> "string"
Money == {"booking_id", "amount"}                   \* _TRUSTED_PAYMENT_FIELDS
ForbiddenTools == {"register_resident"}             \* AGENT_FORBIDDEN_TOOLS
ResidentTools == {"register_vehicle", "book_parking", "pay_fee", "schedule_move"}
Authoritative == {"resident_id"} \cup Money         \* AUTHORITATIVE_MISSING_FIELDS
Public == {"plate_number", "booking_date", "move_origin_id", "unsupported_goal", "payment_quote"}
Controls == {"unsupported_goal", "payment_quote"}
UserProvided == {"plate_number", "booking_date", "move_origin_id", "apartment_code"}
\* _USER_FIELD_ORDER: the fields a question can name.
UserOrder == {"plate_number", "booking_date", "apartment_code"}

VARIABLES known,   \* existing_context
          answers, \* user_answers: what the user replied to the last question
          round,   \* requests so far
          late,    \* the days the plan names are over
          stage, tries, plan, asked,
          done,    \* tasks that succeeded
          refusal  \* which rerun was refused last

planningVars == <<known, answers, round, late, stage, tries, plan, asked, done, refusal>>

Lit(w) == [from |-> 0, is |-> w]
InputRef(t, f) == [from |-> t, is |-> f]
IsRef(v) == v.from # 0
Ids(p) == {p[i].id : i \in DOMAIN p}
Of(p, id) == p[CHOOSE i \in DOMAIN p : p[i].id = id /\ \A j \in DOMAIN p : p[j].id = id => j <= i]

-------------------------------------------------------------------------------
(* The corrections of agents/graph *)

\* Slip: any payment in the plan counts for every booking.
RefersToAny(t, b) == t.tool = "pay_fee"
RefersTo(t, b) == t.tool = "pay_fee" /\ \E f \in DOMAIN t.input : t.input[f].from = b.id
NewId(used) == CHOOSE n \in Cardinality(used) + 1 .. 2 * Cardinality(used) + 1 :
                 n \notin used /\ \A m \in Cardinality(used) + 1 .. n - 1 : m \in used
PayStep(p, b) ==
  [id |-> NewId(Ids(p)), tool |-> "pay_fee", deps |-> {b.id},
   input |-> [f \in Money |-> InputRef(b.id, f)]]
Unpaid(p, b) == b.tool = "book_parking" /\ \A i \in DOMAIN p : ~RefersTo(p[i], b)
EnsurePayment(p) ==
  LET offered[n \in 0..Len(p)] ==
        IF n = 0 THEN p
        ELSE IF Unpaid(p, p[n]) THEN Append(offered[n - 1], PayStep(offered[n - 1], p[n])) ELSE offered[n - 1]
  IN offered[Len(p)]
\* _inject_trusted_identity
InjectIdentity(p, ctx) ==
  [i \in DOMAIN p |->
     IF "resident_id" \in ctx /\ p[i].tool = "register_vehicle" /\ "resident_id" \notin DOMAIN p[i].input
     THEN [p[i] EXCEPT !.input = [f \in DOMAIN @ \cup {"resident_id"} |->
                                    IF f = "resident_id" THEN Lit("known") ELSE @[f]]]
     ELSE p[i]]
\* _apply_user_answers: what the user said last wins over a literal, never over a reference.
ApplyAnswers(p, said) ==
  [i \in DOMAIN p |-> [p[i] EXCEPT !.input = [f \in DOMAIN @ |->
     IF f \in said /\ ~IsRef(@[f]) THEN Lit("answer") ELSE @[f]]]]
Corrected(p) == EnsurePayment(InjectIdentity(ApplyAnswers(p, answers), known))

-------------------------------------------------------------------------------
(* TaskPlanValidator.validate *)

\* Kahn's algorithm: peel the tasks whose dependencies are peeled until nothing moves.
Sorts(p) ==
  LET left[n \in 0..Len(p)] ==
        IF n = 0 THEN Ids(p)
        ELSE {t \in left[n - 1] : Of(p, t).deps \cap left[n - 1] # {}}
  IN left[Len(p)] = {}
WellFormed(p) ==
  /\ \A i, j \in DOMAIN p : p[i].id = p[j].id => i = j
  /\ \A i \in DOMAIN p : p[i].deps \subseteq Ids(p) \ {p[i].id} /\ p[i].tool \in DOMAIN Inputs
  /\ Sorts(p)
\* _validate_input_reference: a declared dependency returns that field, of a fitting kind.
GoodRef(p, t, f) ==
  LET v == t.input[f] IN
  /\ v.from \in t.deps
  /\ v.is \in Outputs[Of(p, v.from).tool]
  /\ f \in Inputs[t.tool] => Kind(v.is) = Kind(f)
\* _validate_schedule_values: the plate first, then the day, which is asked again when over.
BadPlate(t) == "plate_number" \in DOMAIN t.input /\ t.input["plate_number"] = Lit("unreadable")
PastDate(t) ==
  /\ late /\ t.tool = "book_parking" /\ "booking_date" \in DOMAIN t.input
  /\ t.input["booking_date"] \in {Lit("said"), Lit("known"), Lit("remembered"), Lit("invented")}
\* _validate_input_contract
KeepsContract(t) ==
  /\ DOMAIN t.input \subseteq Inputs[t.tool]
  /\ \A f \in DOMAIN t.input : t.input[f] # Lit("unreadable")
Faulty(p, t) ==
  \/ BadPlate(t) \/ PastDate(t) \/ ~KeepsContract(t)
  \/ \E f \in DOMAIN t.input : IsRef(t.input[f]) /\ ~GoodRef(p, t, f)
OffMap(t) == /\ t.tool = "schedule_move" /\ "move_origin_id" \in DOMAIN t.input
             /\ t.input["move_origin_id"] = Lit("elsewhere")
Gaps(p, seeded) == UNION {Inputs[p[i].tool] \ DOMAIN p[i].input : i \in {j \in DOMAIN p : p[j].id \notin seeded}}

Valid == [says |-> "valid", fields |-> {}]
Invalid == [says |-> "invalid", fields |-> {}]
Missing(fs) == [says |-> "missing", fields |-> fs]
\* Slip: the steps that already ran are judged again.
ValidateAll(p, seeded) ==
  LET bad == {i \in DOMAIN p : Faulty(p, p[i])} IN
  IF ~WellFormed(p) \/ bad # {} THEN Invalid
  ELSE IF Gaps(p, {}) # {} THEN Missing(Gaps(p, {})) ELSE Valid
\* Steps in the order of the code: shape, places, each open step, then what is missing.
Validate(p, seeded) ==
  LET bad == {i \in DOMAIN p : p[i].id \notin seeded /\ Faulty(p, p[i])}
      first == CHOOSE i \in bad : \A j \in bad : i <= j
  IN IF ~WellFormed(p) THEN Invalid
     ELSE IF \E i \in DOMAIN p : OffMap(p[i]) THEN Missing({"move_origin_id"})
     ELSE IF bad # {}
     THEN IF ~BadPlate(p[first]) /\ PastDate(p[first]) THEN Missing({"booking_date"}) ELSE Invalid
     ELSE IF Gaps(p, seeded) # {} THEN Missing(Gaps(p, seeded)) ELSE Valid

-------------------------------------------------------------------------------
(* needs_information_update *)

\* _missing_fields_for_user: nothing is asked when one field cannot be.
Askable(f) == f \in UserProvided \/ (f = "vehicle_id" /\ "resident_id" \in known)
Public1(f) == IF f = "vehicle_id" THEN {"plate_number"} ELSE {f}
ToAsk(fs) ==
  IF fs \cap Controls # {} THEN fs \cap Controls
  ELSE IF \E f \in fs : ~Askable(f) THEN {}
  ELSE (UNION {Public1(f) : f \in fs}) \cap UserOrder
Asks(fs) ==
  LET q == ToAsk(fs) IN
  /\ asked' = IF "unsupported_goal" \in q THEN {} ELSE q
  /\ stage' = IF q = {} \/ "unsupported_goal" \in q THEN "refused" ELSE "asking"

-------------------------------------------------------------------------------
(* Planner._to_result *)

\* _reject_untrusted_payment_values: one booking's own fields, or the context's.
FromOneBooking(p, t) ==
  /\ \E b \in Ids(p) : /\ Of(p, b).tool = "book_parking"
                       /\ \A f \in Money : t.input[f] = InputRef(b, f)
FromContext(t) == \A f \in Money : f \in known /\ t.input[f] = Lit("known")
MoneyTrusted(p) ==
  \A i \in DOMAIN p : p[i].tool = "pay_fee" /\ Money \subseteq DOMAIN p[i].input =>
    FromOneBooking(p, p[i]) \/ FromContext(p[i])
\* _fields_taken_from_recall
Recalled(p) == {f \in InputFields : \E i \in DOMAIN p : f \in DOMAIN p[i].input /\ p[i].input[f] = Lit("remembered")}
\* _accept_explicit_facts: a conclusion needs a quote, and is not asked for too.
FactsHold(r) == r.facts = "quoted" \/ r.facts = "none"
\* _clean_missing_fields; {} when the answer has to be corrected.
Cleaned(fs) ==
  IF ~(fs \subseteq Public \cup Authoritative \cup {"vehicle_id"}) THEN {}
  ELSE IF fs \cap Money # {} THEN {"payment_quote"}
  ELSE IF fs \cap Authoritative # {} THEN {}
  ELSE LET names == UNION {Public1(f) : f \in fs} IN IF names \cap known # {} THEN {} ELSE names
Consistent(r) ==
  /\ r.status # "MALFORMED" /\ FactsHold(r)
  /\ CASE r.status = "READY" -> /\ r.plan # <<>> /\ r.missing = {}
                                /\ \A i \in DOMAIN r.plan : r.plan[i].tool \notin ForbiddenTools
                                /\ MoneyTrusted(r.plan)
       [] r.status = "QUESTION" -> r.plan = <<>> /\ r.missing = {}
       [] OTHER -> r.plan = <<>> /\ Cleaned(r.missing) # {}

-------------------------------------------------------------------------------
(* FastLane.plan and plan_assembly *)

Needs == [t \in DOMAIN Inputs |-> CASE t = "book_parking" -> {"vehicle_id"} [] t = "pay_fee" -> Money [] OTHER -> {}]
Makes(ts) == UNION {Outputs[t] : t \in ts}
\* _them_he_qua: a parking place brings its vehicle and its payment.
WithConsequences(tools) ==
  IF "book_parking" \in tools THEN tools \cup {"register_vehicle", "pay_fee"} ELSE tools
\* _sap_topo
Order(tools) ==
  LET ready(ts) == {t \in tools \ ts : Needs[t] \subseteq Makes(ts)}
      seq[n \in 0..Cardinality(tools)] ==
        IF n = 0 THEN <<>>
        ELSE LET ts == ToSet(seq[n - 1])
             IN Append(seq[n - 1], CHOOSE t \in (IF ready(ts) # {} THEN ready(ts) ELSE tools \ ts) : TRUE)
  IN seq[Cardinality(tools)]
\* assemble_plan: references to what an earlier step makes, literals for what is known.
Assemble(tools, values) ==
  LET steps == WithConsequences(tools)
      order == Order(steps)
      maker(n, f) == {m \in 1..n - 1 : f \in Outputs[order[m]]}
      linked(n) == {f \in Needs[order[n]] : maker(n, f) # {}}
      source(n, f) == CHOOSE m \in maker(n, f) : \A k \in maker(n, f) : k <= m
  IN [n \in 1..Cardinality(steps) |->
       [id |-> n, tool |-> order[n], deps |-> {source(n, f) : f \in linked(n)},
        input |-> [f \in linked(n) \cup ((Inputs[order[n]] \ Needs[order[n]]) \cap DOMAIN values) |->
                     IF f \in linked(n) THEN InputRef(source(n, f), f) ELSE Lit(values[f])]]]
\* What the model extracted, then the account's identity, then the user's answers.
Values(found) ==
  LET ctx == known \cap {"resident_id"} IN
  [f \in DOMAIN found \cup ctx \cup answers |->
     IF f \in answers THEN "answer" ELSE IF f \in ctx THEN "known" ELSE found[f]]

-------------------------------------------------------------------------------
(* The graph of one request: plan, validate, execute *)

PlanningInit ==
  /\ known \in Contexts /\ answers = {} /\ round = 1 /\ late = FALSE
  /\ stage = "lane" /\ tries = 0 /\ plan = <<>> /\ asked = {} /\ done = {} /\ refusal = "none"

Ready(p) == plan' = Corrected(p) /\ stage' = "validate"
\* FastLane.plan: the plans it may come back with, each valid as it stands.
FastPlans ==
  {p \in {Assemble(g.tools, Values(g.found)) : g \in {q \in Predictions : q.tools # {}}} :
     Validate(p, {}) = Valid}
\* The fast lane's plan, or the planner when it has none.
TakeFastLane ==
  /\ stage = "lane"
  /\ \/ \E p \in FastPlans : Ready(p)
     \/ stage' = "plan" /\ UNCHANGED plan
  /\ UNCHANGED <<known, answers, round, late, tries, asked, done, refusal>>

Refuse == stage' = "refused" /\ UNCHANGED <<plan, asked>>
\* plan_node, with what the planner made of a consistent answer.
TakeAnswer(r) ==
  CASE r.status = "QUESTION" -> Refuse
    [] r.status = "NEEDS_INFORMATION" -> Asks(Cleaned(r.missing)) /\ UNCHANGED plan
    [] OTHER ->
       LET kept == Recalled(r.plan) IN
       IF kept = {} THEN Ready(r.plan) /\ UNCHANGED asked
       \* PlannerResult refuses a name that is not public: an unexpected error.
       ELSE IF kept \subseteq Public THEN Asks(kept) /\ UNCHANGED plan ELSE Refuse
\* Planner.plan: one corrected question, then PlannerError.
AskPlanner ==
  /\ stage = "plan"
  /\ \/ Refuse /\ UNCHANGED tries  \* the model is out of reach
     \/ \E r \in Responses :
          IF ~Consistent(r)
          THEN IF tries = Retries THEN Refuse /\ UNCHANGED tries
               ELSE tries' = tries + 1 /\ UNCHANGED <<stage, plan, asked>>
          ELSE TakeAnswer(r) /\ UNCHANGED tries
  /\ UNCHANGED <<known, answers, round, late, done, refusal>>

\* validate_node
ValidatePlan ==
  /\ stage = "validate"
  /\ LET v == Validate(plan, {}) IN
     CASE v.says = "valid" -> stage' = "execute" /\ UNCHANGED asked
       [] v.says = "missing" -> Asks(v.fields)
       [] OTHER -> stage' = "refused" /\ UNCHANGED asked
  /\ UNCHANGED <<known, answers, round, late, tries, plan, done, refusal>>

\* Slip: whatever identity the plan carries.
AnyIdentity(p) == "resident_id" \in known
\* ResidentAccessBoundary.execute
OwnIdentity(p) ==
  /\ \A i \in DOMAIN p : p[i].tool # "register_resident"
  /\ (\E i \in DOMAIN p : p[i].tool \in ResidentTools) => "resident_id" \in known
  /\ \A i \in DOMAIN p : p[i].tool = "register_vehicle" =>
       "resident_id" \in DOMAIN p[i].input /\ p[i].input["resident_id"] = Lit("known")
\* execute_node; the boundary validates again what waited for its turn.
Execute ==
  /\ stage = "execute"
  /\ stage' = IF OwnIdentity(plan) /\ Validate(plan, done) = Valid THEN "running" ELSE "refused"
  /\ UNCHANGED <<known, answers, round, late, tries, plan, asked, done, refusal>>
\* The resident directory refuses or is out of reach.
DirectoryRefuses ==
  /\ stage = "execute" /\ \E i \in DOMAIN plan : plan[i].tool \in ResidentTools
  /\ Refuse /\ UNCHANGED <<known, answers, round, late, tries, done, refusal>>

-------------------------------------------------------------------------------
(* The user's next sentence, the days that pass, and the reruns *)

\* The reply opens a request of its own, with what was said as its context.
Reply ==
  /\ stage = "asking" /\ round < MaxRounds
  /\ \E said \in SUBSET (asked \cap UserProvided) :
       /\ said # {} /\ answers' = said /\ known' = known \cup said
  /\ round' = round + 1 /\ stage' = "lane" /\ tries' = 0 /\ plan' = <<>> /\ asked' = {}
  /\ late' = FALSE /\ UNCHANGED <<done, refusal>>
Midnight == ~late /\ late' = TRUE /\ UNCHANGED <<known, answers, round, stage, tries, plan, asked, done, refusal>>

Succeeds ==
  /\ stage = "running"
  /\ \E i \in DOMAIN plan : /\ plan[i].id \notin done /\ plan[i].deps \subseteq done
                            /\ done' = done \cup {plan[i].id}
  /\ UNCHANGED <<known, answers, round, late, stage, tries, plan, asked, refusal>>
\* Something the run waits for: an approval, a payment, a provider.
Pauses == stage = "running" /\ stage' = "paused" /\ UNCHANGED <<known, answers, round, late, tries, plan, asked, done, refusal>>
\* ValidatedExecutionBoundary.execute with what already ran.
Resumes ==
  /\ stage = "paused"
  /\ IF Validate(plan, done) = Valid THEN stage' = "running" /\ refusal' = "none"
     ELSE refusal' = "resume" /\ UNCHANGED stage
  /\ UNCHANGED <<known, answers, round, late, tries, plan, asked, done>>
\* rerun_with_answers: the whole plan is validated before the boundary validates the open part.
Reruns ==
  /\ stage = "paused"
  /\ \E said \in SUBSET (UserProvided \cap InputFields) :
       LET p == ApplyAnswers(plan, said) IN
       /\ said # {}
       /\ IF Validate(p, {}) = Valid /\ Validate(p, done) = Valid
          THEN stage' = "running" /\ refusal' = "none" /\ plan' = p
          ELSE refusal' = "rerun" /\ UNCHANGED <<stage, plan>>
  /\ UNCHANGED <<known, answers, round, late, tries, asked, done>>

PlanningNext ==
  \/ TakeFastLane \/ AskPlanner \/ ValidatePlan \/ Execute \/ DirectoryRefuses \/ Reply \/ Midnight
  \/ Succeeds \/ Pauses \/ Resumes \/ Reruns
PlanningSpec == PlanningInit /\ [][PlanningNext]_planningVars

-------------------------------------------------------------------------------
(* Properties *)

Tasks == {plan[i] : i \in DOMAIN plan}
PlanningTypeOK ==
  /\ known \cup answers \subseteq InputFields /\ asked \subseteq UserOrder \cup {"payment_quote"}
  /\ round \in 1..MaxRounds /\ tries \in 0..Retries /\ done \subseteq Ids(plan) \cup {0}
  /\ stage \in {"lane", "plan", "validate", "execute", "running", "paused", "asking", "refused"}
  /\ \A t \in Tasks : t.tool \in DOMAIN Inputs /\ t.deps \subseteq Nat

\* Every booking of a plan that runs has a payment that waits for it and takes
\* the booking and the amount from it; no payment takes them from elsewhere, but from
\* what an earlier workflow of the conversation booked (_load_parent_success_context).
BookingsArePaid ==
  stage = "running" =>
    /\ \A b \in Tasks : b.tool = "book_parking" =>
         \E t \in Tasks : t.tool = "pay_fee" /\ b.id \in t.deps /\ \A f \in Money : t.input[f] = InputRef(b.id, f)
    /\ \A t \in Tasks : t.tool = "pay_fee" => FromOneBooking(plan, t) \/ FromContext(t)

\* No value of an older conversation and no other identity than the account's
\* gets into a plan that runs, on whatever path it came.
OwnWordsOnly ==
  stage = "running" =>
    \A t \in Tasks : /\ \A f \in DOMAIN t.input : t.input[f] # Lit("remembered")
                     /\ t.tool = "register_vehicle" => t.input["resident_id"] = Lit("known")

\* A workflow that waited is never refused for the sake of a step that already
\* ran: some open step is no longer valid.
ResumeBlamesOpenSteps ==
  refusal = "resume" => \E t \in Tasks : t.id \notin done /\ Faulty(plan, t)

================================================================================
